----------------------------- MODULE Attachments -----------------------------
(* Attachments and the conversations they belong to: rows in the database,    *)
(* content-addressed files beside it, and the requests that write the one     *)
(* after the other: upload, delete, a chat run that reads its attachments,    *)
(* and the deletion of a conversation with all that hangs on it. One process; *)
(* a database transaction and a call of the file system are one step each.    *)
EXTENDS Naturals, FiniteSets

CONSTANTS
  Ids,            \* attachment ids
  Contents,       \* bytes; the storage key of one user's upload is their hash
  Conversations,
  Requests,
  NoContent,      \* of an id without a row
  Scenes          \* what exists and what is asked: see SceneType

Operations ==
  [kind : {"upload"}, id : Ids, content : Contents]
    \union [kind : {"remove"}, id : Ids]
    \union [kind : {"forget"}, conv : Conversations]
    \union [kind : {"run"}, conv : Conversations, ids : SUBSET Ids]
    \union [kind : {"none"}]

SceneType ==
  [op : [Requests -> Operations],
   stored : [Ids -> Contents \union {NoContent}],  \* attachments uploaded before
   redis : BOOLEAN,
   crashes : BOOLEAN]

(* Every upload has an id of its own, and an id is known to others once it    *)
(* has a row.                                                                 *)
AttachmentsAssumption ==
  /\ Scenes \subseteq SceneType /\ NoContent \notin Contents
  /\ \A s \in Scenes, q \in Requests :
       /\ s.op[q].kind = "upload" =>
            /\ s.stored[s.op[q].id] = NoContent
            /\ \A p \in Requests \ {q} : s.op[p].kind = "upload" => s.op[p].id # s.op[q].id
       /\ s.op[q].kind = "run" => \A i \in s.op[q].ids : s.stored[i] # NoContent

VARIABLES
  scene,
  rows,     \* AttachmentRow: the content of an id
  files,    \* keys with a file
  conv,     \* conversations with a ConversationRow
  session,  \* conversations with a ChatSessionRow
  cached,   \* conversations with a copy in Redis
  memory,   \* conversations with memories of their own
  runs,     \* requests whose ChatRunRow exists
  pc,       \* where each request is
  keys,     \* files that a deletion is still to unlink
  refs,     \* attachments that a run found
  data,     \* those of them it has the bytes of
  raced,    \* history: contents with an upload and a deletion at the same time
  live,     \* history: conversations with a run under way while they were deleted
  crashed

storeVars == <<rows, files>>
convVars == <<conv, session, cached, memory, runs>>
history == <<raced, live, crashed>>
vars == <<scene, storeVars, convVars, pc, keys, refs, data, history>>

Op(q) == scene.op[q]
At(q, kind, step) == Op(q).kind = kind /\ pc[q] = step
Goto(q, step) == pc' = [pc EXCEPT ![q] = step]
UnderWay(q) == pc[q] \notin {"start", "over"}

Init ==
  /\ scene \in Scenes
  /\ rows = scene.stored
  /\ files = {scene.stored[i] : i \in Ids} \ {NoContent}
  /\ conv = Conversations /\ session = {} /\ cached = {} /\ memory = {} /\ runs = {}
  /\ pc = [q \in Requests |-> "start"]
  /\ keys = [q \in Requests |-> {}]
  /\ refs = [q \in Requests |-> {}] /\ data = [q \in Requests |-> {}]
  /\ raced = {} /\ live = {} /\ crashed = FALSE

Referenced(table) == {table[i] : i \in Ids} \ {NoContent}

-----------------------------------------------------------------------------
(* Upload: the file first, then the row.                                      *)
BeingUnlinked == UNION {keys[q] : q \in Requests}
BeingUploaded == {Op(q).content : q \in {p \in Requests : At(p, "upload", "insert")}}

UploadSave(q) ==
  /\ At(q, "upload", "start")
  /\ files' = files \union {Op(q).content}
  /\ raced' = raced \union ({Op(q).content} \intersect BeingUnlinked)
  /\ Goto(q, "insert")
  /\ UNCHANGED <<scene, rows, convVars, keys, refs, data, live, crashed>>

UploadInsert(q) ==
  /\ At(q, "upload", "insert")
  /\ rows' = [rows EXCEPT ![Op(q).id] = Op(q).content]
  /\ Goto(q, "over")
  /\ UNCHANGED <<scene, files, convVars, keys, refs, data, history>>

-----------------------------------------------------------------------------
(* Deleting: rows and the count of what is left in one transaction, then the  *)
(* files that nobody refers to any more.                                      *)
(* Mutant: what other rows say is not asked. *)
UnreferencedByOthers(table, ids) == {rows[i] : i \in ids} \ {NoContent}

Unreferenced(table, ids) == {rows[i] : i \in ids} \ ({NoContent} \union Referenced(table))

DropRows(q, ids) ==
  LET left == [i \in Ids |-> IF i \in ids THEN NoContent ELSE rows[i]]
      gone == Unreferenced(left, ids)
  IN /\ rows' = left
     /\ keys' = [keys EXCEPT ![q] = gone]
     /\ raced' = raced \union (gone \intersect BeingUploaded)
     /\ Goto(q, IF gone = {} THEN "over" ELSE "unlink")

RemoveRow(q) ==
  /\ At(q, "remove", "start")
  /\ IF rows[Op(q).id] = NoContent
     THEN Goto(q, "over") /\ UNCHANGED <<rows, keys, raced>>
     ELSE DropRows(q, {Op(q).id})
  /\ UNCHANGED <<scene, files, convVars, refs, data, live, crashed>>

Unlink(q) ==
  /\ pc[q] = "unlink"
  /\ \E k \in keys[q] :
       /\ files' = files \ {k}
       /\ keys' = [keys EXCEPT ![q] = @ \ {k}]
       /\ Goto(q, IF keys[q] = {k} THEN "over" ELSE "unlink")
  /\ UNCHANGED <<scene, rows, convVars, refs, data, history>>

-----------------------------------------------------------------------------
(* Deleting a conversation                                                    *)
RunsOf(c) == {q \in runs : Op(q).conv = c}
RunsUnderWay(c) == {q \in Requests : Op(q).kind = "run" /\ Op(q).conv = c /\ UnderWay(q)}
Lively(c) == live' = IF RunsUnderWay(c) # {} THEN live \union {c} ELSE live

ForgetFind(q) ==
  /\ At(q, "forget", "start")
  /\ Goto(q, IF Op(q).conv \in conv THEN "memories" ELSE "over")
  /\ UNCHANGED <<scene, storeVars, convVars, keys, refs, data, history>>

ForgetMemories(q) ==
  /\ At(q, "forget", "memories")
  /\ memory' = memory \ {Op(q).conv}
  /\ Goto(q, "rows")
  /\ Lively(Op(q).conv)
  /\ UNCHANGED <<scene, storeVars, conv, session, cached, runs, keys, refs, data, raced, crashed>>

AttachmentsOf(c) == UNION {Op(q).ids : q \in RunsOf(c)}

ForgetRows(q) ==
  LET c == Op(q).conv
  IN /\ At(q, "forget", "rows")
     /\ DropRows(q, AttachmentsOf(c))
     /\ conv' = conv \ {c}
     /\ session' = session \ {c}
     /\ runs' = runs \ RunsOf(c)
     /\ Lively(c)
     /\ UNCHANGED <<scene, files, cached, memory, refs, data, crashed>>

-----------------------------------------------------------------------------
(* A chat run: its row, the rows and then the bytes of its attachments, the   *)
(* history it saves, with a memory that one of its tools may keep, its end.   *)
BeingForgotten(c) ==
  c \notin conv \/ \E q \in Requests : Op(q).kind = "forget" /\ Op(q).conv = c /\ UnderWay(q)

RunCreate(q) ==
  /\ At(q, "run", "start")
  /\ runs' = runs \union {q}
  /\ live' = IF BeingForgotten(Op(q).conv) THEN live \union {Op(q).conv} ELSE live
  /\ Goto(q, "resolve")
  /\ UNCHANGED <<scene, storeVars, conv, session, cached, memory, keys, refs, data, raced, crashed>>

RunResolve(q) ==
  /\ At(q, "run", "resolve")
  /\ refs' = [refs EXCEPT ![q] = {i \in Op(q).ids : rows[i] # NoContent}]
  /\ Goto(q, "load")
  /\ UNCHANGED <<scene, storeVars, convVars, keys, data, history>>

(* load_attachment_refs: a file that is gone leaves a placeholder.            *)
Loadable(i) == scene.stored[i] \in files

RunLoad(q) ==
  /\ At(q, "run", "load")
  /\ data' = [data EXCEPT ![q] = {i \in refs[q] : Loadable(i)}]
  /\ Goto(q, "save")
  /\ UNCHANGED <<scene, storeVars, convVars, keys, refs, history>>

RunSave(q, remembers) ==
  /\ At(q, "run", "save")
  /\ session' = session \union {Op(q).conv}
  /\ cached' = IF scene.redis THEN cached \union {Op(q).conv} ELSE cached
  /\ memory' = IF remembers THEN memory \union {Op(q).conv} ELSE memory
  /\ Goto(q, "over")
  /\ UNCHANGED <<scene, storeVars, conv, runs, keys, refs, data, history>>

Crash ==
  /\ scene.crashes /\ ~crashed
  /\ crashed' = TRUE
  /\ pc' = [q \in Requests |-> IF UnderWay(q) THEN "over" ELSE pc[q]]
  /\ keys' = [q \in Requests |-> {}]
  /\ UNCHANGED <<scene, storeVars, convVars, refs, data, raced, live>>

Next ==
  \/ \E q \in Requests :
       \/ UploadSave(q) \/ UploadInsert(q) \/ RemoveRow(q) \/ Unlink(q)
       \/ ForgetFind(q) \/ ForgetMemories(q) \/ ForgetRows(q)
       \/ RunCreate(q) \/ RunResolve(q) \/ RunLoad(q)
       \/ \E remembers \in BOOLEAN : RunSave(q, remembers)
  \/ Crash

Spec == Init /\ [][Next]_vars

-----------------------------------------------------------------------------
(* Types of rows, files and requests. *)
TypeOK ==
  /\ scene \in SceneType
  /\ rows \in [Ids -> Contents \union {NoContent}] /\ files \subseteq Contents
  /\ conv \subseteq Conversations /\ session \subseteq Conversations
  /\ cached \subseteq Conversations /\ memory \subseteq Conversations /\ runs \subseteq Requests
  /\ pc \in [Requests -> {"start", "insert", "unlink", "memories", "rows", "resolve", "load", "save", "over"}]
  /\ keys \in [Requests -> SUBSET Contents]
  /\ refs \in [Requests -> SUBSET Ids] /\ data \in [Requests -> SUBSET Ids]
  /\ raced \subseteq Contents /\ live \subseteq Conversations /\ crashed \in BOOLEAN

(* A file is deleted after its last reference only: an attachment that has a  *)
(* row has its file, unless the same bytes were uploaded while they were      *)
(* being deleted. Other deletions, conversations that share the bytes and a   *)
(* crash between the two steps lose nothing.                                  *)
LostOnlyByRace == \A i \in Ids : rows[i] # NoContent => rows[i] \in files \union raced

(* When nothing is under way and the process did not crash, no file is left   *)
(* that no row refers to.                                                     *)
NoOrphanFiles ==
  (\A q \in Requests : ~UnderWay(q)) /\ ~crashed => files \subseteq Referenced(rows)

(* A deleted conversation is gone from the database with its history, its     *)
(* runs, their attachments and its memories, unless a run was under way.      *)
RemnantsOfLiveRunsOnly ==
  \A c \in Conversations \ (conv \union live) :
    /\ c \notin session \union memory
    /\ RunsOf(c) = {}
    /\ \A q \in Requests : Op(q).kind = "run" /\ Op(q).conv = c /\ pc[q] = "over" =>
         \A i \in Op(q).ids : rows[i] = NoContent

(* A run gets the bytes of every attachment of its own that nobody asked to   *)
(* delete, whatever happens to other attachments with the same bytes.         *)
Wanted(i) == \A q \in Requests :
  /\ Op(q).kind = "remove" => Op(q).id # i
  /\ Op(q).kind = "forget" => \A p \in Requests : Op(p).kind = "run" /\ Op(p).conv = Op(q).conv => i \notin Op(p).ids
PromptComplete ==
  \A q \in Requests : At(q, "run", "save") =>
    \A i \in Op(q).ids : scene.stored[i] # NoContent /\ Wanted(i) /\ scene.stored[i] \notin raced => i \in data[q]

(* tests/attachments/test_api.py:98: the file of shared attachments goes only *)
(* after the last reference.                                                  *)
FileWhileReferenced == \A i \in Ids : rows[i] # NoContent => rows[i] \in files

(* conversations_api.py:210: the deletion takes the message history along.    *)
HistoryDeleted ==
  \A c \in Conversations \ (conv \union live) : c \notin session \union cached

=============================================================================
