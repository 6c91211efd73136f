---------------------------- MODULE MemoryEngine ----------------------------
(***************************************************************************)
(* The long-term memory of one user and one conversation: the rows of the  *)
(* database, the vector index beside them, promotions that wait for the    *)
(* user, and the project the conversation is bound to. Handlers, tools and *)
(* the extraction after a turn work on them at the same time; every step   *)
(* below runs from one await of its operation to the next.                 *)
(*                                                                         *)
(* The content of a memory is the set of facts it says: an operation that  *)
(* brings a text brings one fact, named after it. What the model answers   *)
(* is any answer.                                                          *)
(***************************************************************************)
EXTENDS Naturals, FiniteSets

CONSTANTS
  Ops,         \* requests, tool calls and extractions, each made once
  KindsOf,     \* what each of them may be
  Starts,      \* what the database may hold at first: rows, bound, promos
  MaxId,       \* bound: rows ever made
  Threshold,   \* _SESSION_COMPACT_THRESHOLD (12)
  KeepTop,     \* memories an automatic compaction keeps (3)
  MinAuto,     \* unlocked memories it needs (4)
  MaxHits,     \* n_results of a query (6 and 4)
  PromoteUses  \* uses after which a memory is a candidate (5)

(* Extractions that are not for the session only: with approval under        *)
(* require_memory_promotion_approval, and without.                           *)
Promoting == {"promote", "propose"}

(* Who builds its engine with the vector adapter, and who without. *)
Indexed == {"create", "patch", "delete", "forget", "recall", "remember"}
Plain == {"save", "persist", "remove", "compact", "extract", "review", "bind", "unbind"}
           \union Promoting
Forgetting == {"forget", "unbind"}

Scopes == {"session", "user", "project"}
Ids == 1..MaxId
Facts == Ids \union Ops

(* A memory, and a proposal that waits or is decided. *)
RowType ==
  [scope : Scopes \union {"unowned"}, st : {"active", "archived", "rejected"}, locked : BOOLEAN,
   says : SUBSET Facts, uses : 0..PromoteUses, conv : BOOLEAN,
   by : Ids \union {0}]   \* the proposal it was approved as
PromotionType ==
  [st : {"pending", "approved", "rejected"}, scope : {"user", "project"}, says : SUBSET Facts]

ASSUME MemoryAssumption ==
  /\ KindsOf \in [Ops -> SUBSET (Indexed \union Plain)] /\ IsFiniteSet(Ops)
  /\ {MaxId, Threshold, KeepTop, MinAuto, PromoteUses, MaxHits} \subseteq Nat
  /\ \A s \in Starts :
       /\ \E n \in 0..MaxId : s.rows \in [1..n -> {r \in RowType : r.by = 0}]
       /\ DOMAIN s.promos \subseteq DOMAIN s.rows
       /\ \A i \in DOMAIN s.promos : s.promos[i] \in PromotionType

VARIABLES
  rows,     \* memories: id -> row
  index,    \* documents of the vector store: id -> what they say of the row
  used,     \* ids given so far
  promos,   \* pending promotions: source id -> proposal
  project,  \* whether the project exists
  bound,    \* whether the conversation is bound to it
  op,       \* the operations
  told,     \* facts that were stored
  gone,     \* facts removed on purpose: deleted, replaced, forgotten
  shed      \* facts that a summary left out, or a write from an old reading took along

vars == <<rows, index, used, promos, project, bound, op, told, gone, shed>>

-----------------------------------------------------------------------------
Row(scope, says, conv) ==
  [scope |-> scope, st |-> "active", locked |-> FALSE, says |-> says, uses |-> 0,
   conv |-> conv, by |-> 0]

Nothing == [i \in {} |-> 0]
Idle == [kind |-> "none", pc |-> "idle", seen |-> Nothing, todo |-> {}, doc |-> Nothing,
         then |-> "done", before |-> {}, open |-> FALSE]

(* Of a row's metadata in the vector store, what queries and deletions go by. *)
Document(row) == [st |-> row.st, conv |-> row.conv]

Without(f, S) == [i \in DOMAIN f \ S |-> f[i]]
Says(f, S) == UNION {f[i].says : i \in S \intersect DOMAIN f}

(* list_memories of a scope. A project's are asked for once bound only.      *)
Listed(scope) == {i \in DOMAIN rows : rows[i].scope = scope /\ rows[i].st = "active"}
Part(S) == [i \in S |-> rows[i]]

Over == {"done", "cut"}

(* An operation that is over keeps what it recalled, and what it was to forget. *)
Goto(o, pc) ==
  op' = [op EXCEPT ![o].pc = pc,
                   ![o].seen = IF pc \in Over THEN Nothing ELSE @,
                   ![o].doc = IF pc \in Over THEN Nothing ELSE @]
Hold(o, pc, f, S) == op' = [op EXCEPT ![o].pc = pc, ![o].seen = f, ![o].todo = S]

Fresh == used + 1

Removed(S) == [i \in S |-> [st |-> "none"]]

(* After the commit the engine that has the adapter updates the index, and   *)
(* awaits that: doc maps the ids to upsert to their rows, or to Removed.     *)
Then(o, doc, next, todo) ==
  LET pc == IF op[o].kind \in Indexed THEN "index" ELSE next
  IN op' = [op EXCEPT ![o].pc = pc, ![o].then = next, ![o].todo = todo,
                      ![o].doc = IF pc = "index" THEN doc ELSE Nothing,
                      ![o].seen = IF next = "sources" THEN @ ELSE Nothing]

(* store.create_memory: a row of its own id. *)
Insert(row) ==
  /\ used < MaxId
  /\ rows' = [i \in DOMAIN rows \union {Fresh} |-> IF i = Fresh THEN row ELSE rows[i]]
  /\ used' = Fresh
  /\ told' = told \union row.says

(* store.update_memory: every column, from what the caller read before. *)
WriteRow(i, row) ==
  /\ i \in DOMAIN rows
  /\ rows' = [rows EXCEPT ![i] = row]

(* The row is gone: ValueError. *)
Missing(i) == i \notin DOMAIN rows

Init ==
  /\ \E s \in Starts : rows = s.rows /\ bound = s.bound /\ promos = s.promos
  /\ index = [i \in DOMAIN rows |-> Document(rows[i])]
  /\ used = Cardinality(DOMAIN rows)
  /\ project = TRUE
  /\ op = [o \in Ops |-> Idle]
  /\ told = Says(rows, DOMAIN rows)
  /\ gone = {}
  /\ shed = {}

(* What a forgetting operation is to remove: the rows there when it begins.  *)
(* For a turn's reading, what it may not find: the rows deleted by then.      *)
Scoped(kind) ==
  CASE kind = "forget" -> {i \in DOMAIN rows : rows[i].scope = "session" \/ rows[i].conv}
    [] kind = "unbind" -> {i \in DOMAIN rows : project /\ rows[i].scope = "project"}
    [] kind = "recall" -> 1..used \ DOMAIN rows
    [] OTHER -> {}

First ==
  [create |-> "insert", save |-> "save", persist |-> "persist", patch |-> "get",
   delete |-> "drop", remove |-> "find", forget |-> "session", unbind |-> "drop project",
   bind |-> "get project", remember |-> "list", extract |-> "list",
   promote |-> "list", propose |-> "list",
   compact |-> "gather", review |-> "get promotion", recall |-> "read"]

Begin(o) ==
  /\ op[o].pc = "idle"
  /\ \E kind \in KindsOf[o] :
       op' = [op EXCEPT ![o] = [Idle EXCEPT !.kind = kind, !.pc = First[kind],
                                            !.before = Scoped(kind)]]
  /\ UNCHANGED <<rows, index, used, promos, project, bound, told, gone, shed>>

(* Its process dies, or its task is cancelled. *)
Cut(o) ==
  /\ op[o].pc \notin {"idle"} \union Over
  /\ Goto(o, "cut")
  /\ UNCHANGED <<rows, index, used, promos, project, bound, told, gone, shed>>

-----------------------------------------------------------------------------
(* Rows and index, one after the other. *)

(* upsert, delete and delete_batch log a failure and return. *)
UpdateIndex(o) ==
  /\ op[o].pc = "index"
  /\ LET doc == op[o].doc
         up == {i \in DOMAIN doc : doc[i].st # "none"}
     IN index' \in {index, [i \in (DOMAIN index \ DOMAIN doc) \union up |->
                               IF i \in up THEN Document(doc[i]) ELSE index[i]]}
  /\ Goto(o, op[o].then)
  /\ UNCHANGED <<rows, used, promos, project, bound, told, gone, shed>>

InsertAs(o, row) ==
  /\ Insert(row)
  /\ Then(o, [i \in {Fresh} |-> row], "done", {})
  /\ UNCHANGED <<index, promos, project, bound, gone, shed>>

(* POST: with a conversation or without. *)
CreateMemory(o) ==
  /\ op[o].pc = "insert"
  /\ \E scope \in {"session", "user"} : InsertAs(o, Row(scope, {o}, scope = "session"))

(* save_memory names no conversation; what outlives the session needs a yes. *)
SaveMemory(o) ==
  /\ op[o].pc = "save"
  /\ \/ InsertAs(o, Row("session", {o}, FALSE))
     \/ Goto(o, "ask") /\ UNCHANGED <<rows, index, used, promos, project, bound, told, gone, shed>>

Answer(o) ==
  /\ op[o].pc = "ask"
  /\ \/ InsertAs(o, Row("user", {o}, FALSE))
     \/ Goto(o, "done") /\ UNCHANGED <<rows, index, used, promos, project, bound, told, gone, shed>>

(* The summary that the compaction of a history leaves in the memory. *)
PersistSummary(o) ==
  /\ op[o].pc = "persist"
  /\ InsertAs(o, Row("session", {o}, TRUE))

(* PATCH reads the row, answers 404 ... *)
GetMemory(o) ==
  /\ op[o].pc = "get"
  /\ \/ Goto(o, "done")
     \/ \E i \in DOMAIN rows : Hold(o, "patch", Part({i}), {i})
  /\ UNCHANGED <<rows, index, used, promos, project, bound, told, gone, shed>>

Patched(o, row) ==
  {[row EXCEPT !.says = {o}], [row EXCEPT !.locked = ~row.locked],
   [row EXCEPT !.st = IF row.st = "active" THEN "archived" ELSE "active"]}

(* What a write of row over i loses beyond what its writer had read. *)
Overlooked(o, i) == IF i \in DOMAIN rows THEN rows[i].says \ op[o].seen[i].says ELSE {}

(* ... and writes it whole with the fields of the request set. *)
PatchMemory(o) ==
  /\ op[o].pc = "patch"
  /\ \E i \in op[o].todo :
       \/ /\ Missing(i)
          /\ Goto(o, "done")
          /\ UNCHANGED <<rows, told, gone, shed>>
       \/ \E row \in Patched(o, op[o].seen[i]) :
            /\ WriteRow(i, row)
            /\ told' = told \union row.says
            /\ gone' = gone \union (op[o].seen[i].says \ row.says)
            /\ shed' = shed \union (Overlooked(o, i) \ row.says)
            /\ Then(o, [j \in {i} |-> row], "done", {})
  /\ UNCHANGED <<index, used, promos, project, bound>>

(* delete_memory looks first. *)
FindMemory(o) ==
  /\ op[o].pc = "find"
  /\ Goto(o, IF rows = Nothing THEN "done" ELSE "drop")
  /\ UNCHANGED <<rows, index, used, promos, project, bound, told, gone, shed>>

(* One memory or, with the API, a batch in one statement: here, all there are. *)
DeleteMemories(o) ==
  /\ op[o].pc = "drop"
  /\ \E i \in 1..used :
     \E S \in {{i}} \union (IF op[o].kind = "delete" THEN {1..used} ELSE {}) :
       /\ rows' = Without(rows, S)
       /\ gone' = gone \union Says(rows, S)
       /\ Then(o, Removed(S), "done", {})
  /\ UNCHANGED <<index, used, promos, project, bound, told, shed>>

-----------------------------------------------------------------------------
(* Deleting a conversation; deleting a project; binding one to the other.    *)

DropRows(o, S, next) ==
  /\ rows' = Without(rows, S)
  /\ gone' = gone \union Says(rows, S)
  /\ Goto(o, next)

ForgetSession(o) ==
  /\ op[o].pc = "session"
  /\ DropRows(o, {i \in DOMAIN rows : rows[i].scope = "session"}, "conversation")
  /\ UNCHANGED <<index, used, promos, project, bound, told, shed>>

(* Mutant: user memories are spared, as "across sessions" would have it. *)
SpareDurable(o) ==
  /\ op[o].pc = "conversation"
  /\ DropRows(o, {i \in DOMAIN rows : rows[i].conv /\ rows[i].scope = "session"}, "unindex")
  /\ UNCHANGED <<index, used, promos, project, bound, told, shed>>

ForgetConversation(o) ==
  /\ op[o].pc = "conversation"
  /\ DropRows(o, {i \in DOMAIN rows : rows[i].conv}, "unindex")
  /\ UNCHANGED <<index, used, promos, project, bound, told, shed>>

(* delete_by_conversation: by what the documents say of themselves. *)
UnindexConversation(o) ==
  /\ op[o].pc = "unindex"
  /\ index' \in {index, Without(index, {i \in DOMAIN index : index[i].conv})}
  /\ Goto(o, "unbind")
  /\ UNCHANGED <<rows, used, promos, project, bound, told, gone, shed>>

(* The binding goes with the conversation's own row. *)
UnbindConversation(o) ==
  /\ op[o].pc = "unbind"
  /\ bound' = FALSE
  /\ Goto(o, "done")
  /\ UNCHANGED <<rows, index, used, promos, project, told, gone, shed>>

(* delete_project: memories, bindings and the project in one transaction; the *)
(* index is not told. A project that is gone has nothing deleted.             *)
DeleteProject(o) ==
  /\ op[o].pc = "drop project"
  /\ IF project
     THEN /\ DropRows(o, {i \in DOMAIN rows : rows[i].scope = "project"}, "done")
          /\ project' = FALSE
          /\ bound' = FALSE
     ELSE Goto(o, "done") /\ UNCHANGED <<rows, gone, project, bound>>
  /\ UNCHANGED <<index, used, promos, told, shed>>

GetProject(o) ==
  /\ op[o].pc = "get project"
  /\ Goto(o, IF project THEN "bind" ELSE "done")
  /\ UNCHANGED <<rows, index, used, promos, project, bound, told, gone, shed>>

BindConversation(o) ==
  /\ op[o].pc = "bind"
  /\ bound' = TRUE
  /\ Goto(o, "done")
  /\ UNCHANGED <<rows, index, used, promos, project, told, gone, shed>>

-----------------------------------------------------------------------------
(* Extraction after a turn: consolidate what the model found, then compact,  *)
(* then promote.                                                             *)

(* Without a binding a fact about the project belongs to the session. *)
ScopeFor(scope) == IF scope = "project" /\ ~bound THEN "session" ELSE scope

Asked(kind) == IF kind \in Promoting THEN Scopes ELSE {"session"}

(* _extract_with_llm, _consolidate_candidate: the reading. *)
ListCandidates(o) ==
  /\ op[o].pc = "list"
  /\ \/ Goto(o, "gather")
     \/ \E scope \in Asked(op[o].kind) :
          op' = [op EXCEPT ![o].pc = "consolidate", ![o].seen = Part(Listed(ScopeFor(scope))),
                           ![o].doc = Row(ScopeFor(scope), {o}, TRUE)]
  /\ UNCHANGED <<rows, index, used, promos, project, bound, told, gone, shed>>

Candidate(o) == op[o].doc

(* Which of the listed ones is most alike is up to the texts. *)
Alike(o) == DOMAIN op[o].seen

(* The new text instead of the old one, after it, or said by it already: all  *)
(* that is left for one that is locked.                                      *)
Texts(old, o) ==
  {old.says} \union (IF old.locked THEN {} ELSE {{o}, old.says \union {o}})

(* Nothing alike: a memory of its own. *)
AddCandidate(o) ==
  /\ op[o].pc = "consolidate"
  /\ Insert(Candidate(o))
  /\ Then(o, [i \in {Fresh} |-> Candidate(o)], "gather", {})
  /\ UNCHANGED <<index, promos, project, bound, gone, shed>>

(* Against a locked memory: kept aside, and out of the index. *)
RejectCandidate(o) ==
  /\ op[o].pc = "consolidate"
  /\ \E i \in Alike(o) : op[o].seen[i].locked
  /\ Insert([Candidate(o) EXCEPT !.st = "rejected"])
  /\ Goto(o, "gather")
  /\ UNCHANGED <<index, promos, project, bound, gone, shed>>

Touched(row) == [row EXCEPT !.uses = IF @ < PromoteUses THEN @ + 1 ELSE @]

(* Into the one that is most alike; if it says the same, a locked one too. *)
MergeCandidate(o) ==
  /\ op[o].pc = "consolidate"
  /\ \E i \in Alike(o) :
       LET old == op[o].seen[i] IN
       /\ \/ /\ Missing(i)
             /\ Goto(o, "cut")
             /\ UNCHANGED <<rows, told, gone, shed>>
          \/ \E says \in Texts(old, o) :
               LET row == [Touched(old) EXCEPT !.says = says] IN
               /\ WriteRow(i, row)
               /\ told' = told \union says
               /\ gone' = gone \union (old.says \ says)
               /\ shed' = shed \union Overlooked(o, i)
               /\ Then(o, [j \in {i} |-> row], "gather", {})
  /\ UNCHANGED <<index, used, promos, project, bound>>

-----------------------------------------------------------------------------
(* compact_session_memories. *)

AfterCompaction(o) == IF op[o].kind \in Promoting THEN "candidates" ELSE "done"

Compressible(mem, keep) == {i \in mem \ keep : ~rows[i].locked}

(* Whom the ranking puts first is open: type, importance, confidence, age. *)
Rankings(mem, count) == {S \in SUBSET mem : Cardinality(S) = count}

Gather(o) ==
  /\ op[o].pc = "gather"
  /\ LET mem == Listed("session")
         locked == {i \in mem : rows[i].locked}
         free == mem \ locked
         force == op[o].kind = "compact"
         enough == IF force THEN Cardinality(free) >= 2
                   ELSE Cardinality(mem) > Threshold /\ Cardinality(free) >= MinAuto
         count == IF force \/ Cardinality(locked) > KeepTop THEN Cardinality(locked) ELSE KeepTop
     IN IF ~enough THEN Goto(o, AfterCompaction(o))
        ELSE \E keep \in Rankings(mem, count) :
               LET S == Compressible(mem, keep)
               IN IF Cardinality(S) < 2 THEN Goto(o, AfterCompaction(o))
                  ELSE Hold(o, "summary", Part(S), S)
  /\ UNCHANGED <<rows, index, used, promos, project, bound, told, gone, shed>>

(* Of the sources, the model is sent what fits, and answers anything; without *)
(* an answer, or an adapter, it is the first few of each type, cut.           *)
Summaries(seen) == {Row("session", says, TRUE) : says \in SUBSET Says(seen, DOMAIN seen)}

(* Mutant: the sources go first. *)
DropFirst(o) ==
  /\ op[o].pc = "summary"
  /\ \/ /\ op[o].todo # {}
        /\ \E i \in op[o].todo :
             /\ rows' = Without(rows, {i})
             /\ op' = [op EXCEPT ![o].todo = @ \ {i}]
        /\ UNCHANGED <<used, told>>
     \/ /\ op[o].todo = {}
        /\ \E row \in Summaries(op[o].seen) : Insert(row)
        /\ Goto(o, AfterCompaction(o))
  /\ UNCHANGED <<index, promos, project, bound, gone, shed>>

(* The summary comes back and is stored... *)
AddSummary(o) ==
  /\ op[o].pc = "summary"
  /\ \E row \in Summaries(op[o].seen) :
       /\ Insert(row)
       /\ shed' = shed \union (Says(op[o].seen, DOMAIN op[o].seen) \ row.says)
       /\ Then(o, [i \in {Fresh} |-> row], "sources", op[o].todo)
  /\ UNCHANGED <<index, promos, project, bound, gone>>

(* ... and what it summarises is deleted, one by one, whatever became of it. *)
DropSource(o) ==
  /\ op[o].pc = "sources"
  /\ \/ /\ op[o].todo = {}
        /\ Goto(o, AfterCompaction(o))
        /\ UNCHANGED <<rows, shed>>
     \/ \E i \in op[o].todo :
          /\ rows' = Without(rows, {i})
          /\ shed' = shed \union Overlooked(o, i)
          /\ Then(o, Removed({i}), "sources", op[o].todo \ {i})
  /\ UNCHANGED <<index, used, promos, project, bound, told, gone>>

-----------------------------------------------------------------------------
(* _evaluate_and_promote. *)

ListPromotable(o) ==
  /\ op[o].pc = "candidates"
  /\ LET S == {i \in Listed("session") : rows[i].locked \/ rows[i].uses >= PromoteUses}
     IN op' = [op EXCEPT ![o].pc = "promote", ![o].seen = Part(S), ![o].todo = S,
                         ![o].open = bound]
  /\ UNCHANGED <<rows, index, used, promos, project, bound, told, gone, shed>>

KeepAll(o) ==
  /\ op[o].pc = "promote"
  /\ op[o].todo = {}
  /\ Goto(o, "done")
  /\ UNCHANGED <<rows, index, used, promos, project, bound, told, gone, shed>>

(* The model keeps it, or a project is meant and there is none. *)
KeepOne(o) ==
  /\ op[o].pc = "promote"
  /\ \E i \in op[o].todo : op' = [op EXCEPT ![o].todo = @ \ {i}]
  /\ UNCHANGED <<rows, index, used, promos, project, bound, told, gone, shed>>

(* create_pending_promotion: one proposal per memory, whatever became of it. *)
Propose(o) ==
  /\ op[o].pc = "promote"
  /\ op[o].kind = "propose"
  /\ \E i \in op[o].todo, scope \in {"user", "project"} :
       /\ promos' = IF i \in DOMAIN promos THEN promos
                    ELSE [j \in DOMAIN promos \union {i} |-> IF j = i
                            THEN [st |-> "pending", scope |-> scope, says |-> op[o].seen[i].says]
                            ELSE promos[j]]
       /\ op' = [op EXCEPT ![o].todo = @ \ {i}]
  /\ UNCHANGED <<rows, index, used, project, bound, told, gone, shed>>

Promote(o) ==
  /\ op[o].pc = "promote"
  /\ op[o].kind = "promote"
  /\ \E i \in op[o].todo, scope \in {"user"} \union (IF op[o].open THEN {"project"} ELSE {}) :
       /\ Insert(Row(scope, op[o].seen[i].says, FALSE))
       /\ op' = [op EXCEPT ![o].pc = "archive", ![o].doc = [j \in {i} |-> op[o].seen[i]]]
  /\ UNCHANGED <<index, promos, project, bound, gone, shed>>

(* "archive", by itself or after a promotion: the reading is written back. A *)
(* row that is gone is an error of this memory only.                         *)
Archive(o) ==
  /\ op[o].pc \in {"promote", "archive"}
  /\ \E i \in IF op[o].pc = "archive" THEN DOMAIN op[o].doc ELSE op[o].todo :
       /\ \/ Missing(i) /\ UNCHANGED <<rows, shed>>
          \/ /\ WriteRow(i, [op[o].seen[i] EXCEPT !.st = "archived"])
             /\ shed' = shed \union Overlooked(o, i)
       /\ op' = [op EXCEPT ![o].pc = "promote", ![o].todo = @ \ {i}]
  /\ UNCHANGED <<index, used, promos, project, bound, told, gone>>

-----------------------------------------------------------------------------
(* apply_promotion. *)

(* Proposal and source are read in one session. *)
GetPromotion(o) ==
  /\ op[o].pc = "get promotion"
  /\ \E i \in DOMAIN promos :
       op' = [op EXCEPT ![o].pc = "decide", ![o].todo = {i},
                        ![o].open = promos[i].st = "pending",
                        ![o].seen = Part({i} \intersect DOMAIN rows)]
  /\ UNCHANGED <<rows, index, used, promos, project, bound, told, gone, shed>>

StillOpen(o) == op[o].open

(* The proposal names no project: that of the source is taken, and a memory  *)
(* of the session has none.                                                  *)
Placed(scope) == IF scope = "project" THEN "unowned" ELSE scope

(* Approved: a durable memory with the content of the proposal; the source,  *)
(* if it was there, is archived in the same commit, which fails if it no     *)
(* longer is.                                                                *)
Approve(o) ==
  /\ op[o].pc = "decide"
  /\ StillOpen(o)
  /\ \E i \in op[o].todo :
       LET row == [Row(Placed(promos[i].scope), promos[i].says, FALSE) EXCEPT !.by = i]
           source == DOMAIN op[o].seen
       IN /\ source \subseteq DOMAIN rows
          /\ used < MaxId
          /\ rows' = [j \in DOMAIN rows \union {Fresh} |->
                        IF j = Fresh THEN row
                        ELSE IF j \in source THEN [rows[j] EXCEPT !.st = "archived"] ELSE rows[j]]
          /\ used' = Fresh
          /\ told' = told \union row.says
          /\ promos' = [promos EXCEPT ![i].st = "approved"]
  /\ Goto(o, "done")
  /\ UNCHANGED <<index, project, bound, gone, shed>>

Reject(o) ==
  /\ op[o].pc = "decide"
  /\ StillOpen(o)
  /\ \E i \in op[o].todo : promos' = [promos EXCEPT ![i].st = "rejected"]
  /\ Goto(o, "done")
  /\ UNCHANGED <<rows, index, used, project, bound, told, gone, shed>>

(* Decided already, or the source vanished before the commit. *)
NotApplied(o) ==
  /\ op[o].pc = "decide"
  /\ ~StillOpen(o) \/ ~ DOMAIN op[o].seen \subseteq DOMAIN rows
  /\ Goto(o, "done")
  /\ UNCHANGED <<rows, index, used, promos, project, bound, told, gone, shed>>

-----------------------------------------------------------------------------
(* build_turn_context. *)

(* The readings of the three scopes; no memory changes its scope. *)
ReadScopes(o) ==
  /\ op[o].pc = "read"
  /\ LET S == Listed("session") \union Listed("user")
                \union (IF bound THEN Listed("project") ELSE {})
     IN Hold(o, "query", Part(S), {})
  /\ UNCHANGED <<rows, index, used, promos, project, bound, told, gone, shed>>

(* _select_relevant: of what was read, what the index or the words point at. *)
Selected(o, hits, words) == (hits \intersect DOMAIN op[o].seen) \union words

Active == {i \in DOMAIN index : index[i].st = "active"}

QueryIndex(o) ==
  /\ op[o].pc = "query"
  /\ \E hits \in {S \in SUBSET Active : Cardinality(S) <= MaxHits} :
     \E words \in {{}, DOMAIN op[o].seen} :
       op' = [op EXCEPT ![o].todo = Selected(o, hits, words),
                        ![o].pc = IF Selected(o, hits, words) = {} THEN "done" ELSE "touch"]
  /\ UNCHANGED <<rows, index, used, promos, project, bound, told, gone, shed>>

(* touch_memories: counted by the database, for those that are there. *)
TouchMemories(o) ==
  /\ op[o].pc = "touch"
  /\ rows' = [i \in DOMAIN rows |-> IF i \in op[o].todo THEN Touched(rows[i]) ELSE rows[i]]
  /\ Goto(o, "done")
  /\ UNCHANGED <<index, used, promos, project, bound, told, gone, shed>>

-----------------------------------------------------------------------------
Finish ==
  /\ \A o \in Ops : op[o].pc \in Over
  /\ UNCHANGED vars

Step(o) ==
  \/ Begin(o) \/ Cut(o) \/ UpdateIndex(o)
  \/ CreateMemory(o) \/ SaveMemory(o) \/ Answer(o) \/ PersistSummary(o)
  \/ GetMemory(o) \/ PatchMemory(o) \/ FindMemory(o) \/ DeleteMemories(o)
  \/ ForgetSession(o) \/ ForgetConversation(o) \/ UnindexConversation(o)
  \/ UnbindConversation(o) \/ DeleteProject(o) \/ GetProject(o) \/ BindConversation(o)
  \/ ListCandidates(o) \/ AddCandidate(o) \/ RejectCandidate(o) \/ MergeCandidate(o)
  \/ Gather(o) \/ AddSummary(o) \/ DropSource(o)
  \/ ListPromotable(o) \/ KeepAll(o) \/ KeepOne(o) \/ Propose(o) \/ Promote(o) \/ Archive(o)
  \/ GetPromotion(o) \/ Approve(o) \/ Reject(o) \/ NotApplied(o)
  \/ ReadScopes(o) \/ QueryIndex(o) \/ TouchMemories(o)

Next == (\E o \in Ops : Step(o)) \/ Finish

Spec == Init /\ [][Next]_vars

-----------------------------------------------------------------------------
(* Properties. *)

(* Types of memories, proposals and operations. *)
TypeOK ==
  /\ used \in 0..MaxId /\ DOMAIN rows \subseteq 1..used /\ DOMAIN index \subseteq 1..used
  /\ \A i \in DOMAIN rows : rows[i] \in RowType
  /\ DOMAIN promos \subseteq 1..used /\ \A i \in DOMAIN promos : promos[i] \in PromotionType
  /\ told \subseteq Facts /\ gone \subseteq Facts /\ shed \subseteq told
  /\ \A o \in Ops : op[o].todo \subseteq Ids

(* Nothing the store was told is lost unless somebody removed it, a write     *)
(* from an old reading went over it, or a summary that was stored left it     *)
(* out: a compaction that is cut off before has lost nothing, and one that is *)
(* cut off later no more than that; a promotion and a merge keep what they    *)
(* rewrite at every step.                                                     *)
NothingErased == told \subseteq Says(rows, DOMAIN rows) \union gone \union shed

(* A deleted memory never comes back, though patches, merges and archivings  *)
(* write whole rows that they read before it was deleted.                    *)
NoReturn == [][\A i \in 1..used : i \notin DOMAIN rows => i \notin DOMAIN rows']_vars

Deliberate == {"patch", "drop", "session", "conversation", "drop project"}

(* A locked memory goes, or changes its text, only when the user asks for it  *)
(* or by an operation whose reading is older than its lock or its text:       *)
(* compaction leaves it alone, and extraction works around it or merges into  *)
(* it what it says already.                                                   *)
LockedKept ==
  [][\A i \in DOMAIN rows :
       rows[i].locked /\ (i \notin DOMAIN rows' \/ rows'[i].says # rows[i].says) =>
         \E o \in Ops :
           /\ op'[o] # op[o]
           /\ \/ op[o].pc \in Deliberate
              \/ /\ i \in DOMAIN op[o].seen
                 /\ ~op[o].seen[i].locked \/ op[o].seen[i].says # rows[i].says]_vars

(* What deleting a conversation, or a project that was there, was to remove   *)
(* is gone when it is done, whatever else wrote meanwhile: legacy rows that   *)
(* name only their session, and durable ones that an extraction tied to the   *)
(* conversation.                                                              *)
Forgotten ==
  \A o \in Ops :
    op[o].kind \in Forgetting /\ op[o].pc = "done" => op[o].before \intersect DOMAIN rows = {}

Reviewers(i) == {o \in Ops : op[o].kind = "review" /\ op[o].open /\ i \in op[o].todo}
Copies(i) == {j \in DOMAIN rows : rows[j].by = i}

(* A proposal makes at most one durable memory for each review that found it *)
(* open, and with one such review it makes one only if it says approved.     *)
DecidedOnce ==
  \A i \in DOMAIN promos :
    /\ Cardinality(Copies(i)) <= Cardinality(Reviewers(i))
    /\ Cardinality(Reviewers(i)) = 1 /\ Copies(i) # {} => promos[i].st = "approved"

(* The context of a turn quotes no memory that was deleted when the turn     *)
(* began, though the index still has documents of such memories: engines     *)
(* without the adapter deleted them, or telling the index failed.            *)
NoGhostsRecalled ==
  \A o \in Ops : op[o].kind = "recall" => op[o].todo \intersect op[o].before = {}
=============================================================================
