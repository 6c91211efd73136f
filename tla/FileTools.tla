------------------------------ MODULE FileTools ------------------------------
(* The file tools of the MCP servers (filesystem_server.py), the adapter that *)
(* wants a file read before it is edited (read_tracked.py), and the shell     *)
(* tool (shell_server.py), which changes files beside them. A handler of the  *)
(* file server has no await and is one step; a command runs for a while.      *)
(*                                                                            *)
(* A file is a sequence of characters as it is on the disk, where "crlf" is   *)
(* an end of line of two bytes and "bad" a byte that is no UTF-8. All paths   *)
(* are in one directory that exists and is allowed; directories are empty.    *)
EXTENDS Naturals, Sequences, FiniteSets, SequencesExt

CONSTANTS
  Paths,
  Turns,     \* turns of conversations, each with its own context
  MaxLen,    \* bound: characters of a file
  Big,       \* _CONTENT_MAX_FILE_SIZE (1 MB)
  Scenes     \* what there is and what is called: see SceneType

Places(text, s) ==
  {i \in 1..Len(text) + 1 - Len(s) : SubSeq(text, i, i + Len(s) - 1) = s}
First(S) == CHOOSE i \in S : \A j \in S : i <= j

(* The k-th of some numbers, and what of a sequence is in a set. *)
Nth(S, k) == CHOOSE i \in S : Cardinality({j \in S : j <= i}) = k
Among(seq, S) ==
  LET at == {i \in DOMAIN seq : seq[i] \in S}
  IN [k \in 1..Cardinality(at) |-> seq[Nth(at, k)]]

File(data) == [kind |-> "file", data |-> data]
Absent == [kind |-> "none", data |-> <<>>]
Directory == [kind |-> "dir", data |-> <<>>]
Tools == {"read_file", "read_multiple_files", "write_file", "edit_file", "batch_edit_file",
          "create_directory", "move_file", "delete_file", "search_files", "run_command"}

Disks == [Paths -> {Absent, Directory} \union [kind : {"file"}, data : Seq(STRING)]]
SceneType ==
  [disk : Disks,
   tools : SUBSET Tools,
   strings : SUBSET Seq(STRING),   \* what is searched, and what is put in its place
   calls : Nat]                    \* bound: calls and writes of a command

FilesAssumption ==
  /\ IsFiniteSet(Paths) /\ MaxLen \in Nat /\ Scenes \subseteq SceneType
  /\ \A s \in Scenes, p \in Paths : Len(s.disk[p].data) <= MaxLen

VARIABLES
  scene,
  disk,
  left,        \* calls left
  readFiles,   \* context["_read_files"] of each turn
  order,       \* files, the last modified first
  cursor,      \* a file that is read page by page
  command,     \* the shell command: idle, running, over, or its shell killed
  before,      \* the disk before the last call
  answer       \* the last call and what its caller was told

vars == <<scene, disk, left, readFiles, order, cursor, command, before, answer>>

Nothing == [tool |-> "none", path |-> <<>>, edits |-> <<>>, result |-> "ok", shown |-> <<>>,
            cut |-> FALSE, known |-> TRUE]
NoCursor == [state |-> "none", path |-> <<>>, next |-> 1, got |-> <<>>, steady |-> TRUE]

Files == {p \in Paths : disk[p].kind = "file"}

Init ==
  /\ scene \in Scenes
  /\ disk = scene.disk
  /\ left = scene.calls
  /\ readFiles = [t \in Turns |-> {}]
  /\ order \in SetToSeqs(Files)
  /\ cursor = NoCursor
  /\ command = "idle"
  /\ before = disk
  /\ answer = Nothing

-----------------------------------------------------------------------------
(* Texts *)

(* read_text(errors="replace"): universal newlines, and a sign for bad bytes. *)
Text(data) ==
  [i \in DOMAIN data |-> CASE data[i] = "crlf" -> "lf" [] data[i] = "bad" -> "?" [] OTHER -> data[i]]

(* splitlines: what follows the last end of line is a line if it is not empty. *)
Lines(text) ==
  LET ends == {i \in DOMAIN text : text[i] = "lf"}
      starts == {i \in DOMAIN text : i = 1 \/ i - 1 \in ends}
      End(i) == IF \E e \in ends : e >= i THEN First({e \in ends : e >= i}) - 1 ELSE Len(text)
  IN [k \in 1..Cardinality(starts) |-> SubSeq(text, Nth(starts, k), End(Nth(starts, k)))]

(* str.count: from left to right, without overlaps; between all characters    *)
(* for an empty string.                                                       *)
Count(text, s) ==
  LET at == Places(text, s)
      from[i \in 1..Len(text) + 2] ==
        LET rest == {j \in at : j >= i}
        IN IF rest = {} THEN 0
           ELSE 1 + from[First(rest) + (IF s = <<>> THEN 1 ELSE Len(s))]
  IN from[1]

Unique(text, s) == Count(text, s) = 1

(* str.replace(old, new, 1) *)
ReplaceAtPlace(text, i, edit) ==
  SubSeq(text, 1, i - 1) \o edit.new \o SubSeq(text, i + Len(edit.old), Len(text))

(* An old string that is no longer there: _find_match_lines(...)[0] raises.   *)
Raised == [ok |-> FALSE, text |-> <<>>]
Apply(done, edit) ==
  LET at == Places(done.text, edit.old)
  IN IF ~done.ok \/ at = {} THEN Raised
     ELSE [ok |-> TRUE, text |-> ReplaceAtPlace(done.text, First(at), edit)]

(* Mutant: every edit is made where its old string was in the file.           *)
AtOldPlaces(text, edits) ==
  LET Put(done, edit) ==
        [done EXCEPT !.text = ReplaceAtPlace(@, First(Places(text, edit.old)), edit)]
  IN FoldLeft(Put, [ok |-> TRUE, text |-> text], edits)

(* One edit after the other, each on the result of the one before.            *)
ApplyAll(text, edits) ==
  LET made[k \in 0..Len(edits)] ==
        IF k = 0 THEN [ok |-> TRUE, text |-> text] ELSE Apply(made[k - 1], edits[k])
  IN made[Len(edits)]

-----------------------------------------------------------------------------
(* A call *)

Call(tool) == tool \in scene.tools /\ left > 0 /\ left' = left - 1 /\ before' = disk

Answer(tool, p, result) == answer' = [Nothing EXCEPT !.tool = tool, !.path = p, !.result = result]

(* The disk with what changed, the time of the change and who notices. *)
Change(new, recent) ==
  /\ disk' = new
  /\ order' = Among(recent, {p \in Paths : new[p].kind = "file"})
  /\ cursor' = IF cursor.state = "on" /\ new[cursor.path] # disk[cursor.path]
               THEN [cursor EXCEPT !.steady = FALSE] ELSE cursor

Touched(p) == <<p>> \o Among(order, Paths \ {p})
Write(p, data) == Len(data) <= MaxLen /\ Change([disk EXCEPT ![p] = File(data)], Touched(p))
Keep == UNCHANGED <<disk, order, cursor>>

(* _track: an answer that says "no such file" is an answer, too. *)
Track(t, S) == readFiles' = [readFiles EXCEPT ![t] = @ \union S]

(* read_file with offset and limit, 1-based; the header says the last line    *)
(* and how many there are, and the reader goes on after it.                   *)
Page(lines, offset, limit) ==
  LET start == IF offset = 0 THEN 0 ELSE offset - 1
      end == IF start + limit < Len(lines) THEN start + limit ELSE Len(lines)
  IN [beyond |-> Len(lines) > 0 /\ start >= Len(lines), end |-> end,
      lines |-> SubSeq(lines, start + 1, end)]

ReadPage(t, p, limit) ==
  /\ Call("read_file")
  /\ cursor.state \in {"none", "on"}
  /\ cursor.state = "on" => cursor.path = p
  /\ LET lines == Lines(Text(disk[p].data))
         page == Page(lines, cursor.next, limit)
         shown == cursor.got \o page.lines
     IN cursor' =
          IF p \notin Files \/ page.beyond THEN [cursor EXCEPT !.state = "lost", !.path = p]
          ELSE [cursor EXCEPT !.state = IF page.end = Len(lines) THEN "done" ELSE "on",
                              !.path = p, !.next = page.end + 1, !.got = shown]
  /\ Track(t, {p})
  /\ Answer("read_file", p, IF cursor'.state = "lost" THEN "error" ELSE "ok")
  /\ UNCHANGED <<scene, disk, order, command>>

ReadFiles(t, S) ==
  /\ Call("read_multiple_files")
  /\ Track(t, S)
  /\ answer' = [Nothing EXCEPT !.tool = "read_multiple_files"]
  /\ Keep
  /\ UNCHANGED <<scene, command>>

WriteFile(p, data) ==
  /\ Call("write_file")
  /\ IF disk[p].kind = "dir" THEN Keep /\ Answer("write_file", p, "raised")
     ELSE Write(p, data) /\ Answer("write_file", p, "ok")
  /\ UNCHANGED <<scene, readFiles, command>>

Edited(tool, t, p, edits, result) ==
  answer' = [Nothing EXCEPT !.tool = tool, !.path = p, !.edits = edits, !.result = result,
                          !.known = p \in readFiles[t]]

EditFile(t, p, edit) ==
  /\ Call("edit_file")
  /\ LET text == Text(disk[p].data)
         result == IF p \notin readFiles[t] THEN "blocked"
                   ELSE IF p \notin Files \/ ~Unique(text, edit.old) THEN "error" ELSE "ok"
     IN /\ IF result = "ok" THEN Write(p, Apply([ok |-> TRUE, text |-> text], edit).text) ELSE Keep
        /\ Edited("edit_file", t, p, <<edit>>, result)
  /\ UNCHANGED <<scene, readFiles, command>>

(* All edits are checked against the file, then made one after the other, and *)
(* the file is written at the end. Lists of unequal lengths are refused like  *)
(* empty ones.                                                                *)
BatchEdit(t, p, edits) ==
  /\ Call("batch_edit_file")
  /\ LET text == Text(disk[p].data)
         valid == p \in Files /\ edits # <<>> /\ \A k \in DOMAIN edits : Unique(text, edits[k].old)
         result == IF ~valid THEN "error" ELSE IF ApplyAll(text, edits).ok THEN "ok" ELSE "raised"
     IN /\ IF result = "ok" THEN Write(p, ApplyAll(text, edits).text) ELSE Keep
        /\ Edited("batch_edit_file", t, p, edits, result)
  /\ UNCHANGED <<scene, readFiles, command>>

CreateDirectory(p) ==
  /\ Call("create_directory")
  /\ IF p \in Files THEN Keep /\ Answer("create_directory", p, "raised")
     ELSE Change([disk EXCEPT ![p] = Directory], order) /\ Answer("create_directory", p, "ok")
  /\ UNCHANGED <<scene, readFiles, command>>

(* rename: over a file without a word, never over what is of the other kind.  *)
MoveFile(p, q) ==
  /\ Call("move_file")
  /\ LET kinds == {disk[p].kind, disk[q].kind} \ {"none"}
         others == Among(order, Paths \ {q})
         moved == [x \in Paths |-> CASE x = q -> disk[p] [] x = p /\ p # q -> Absent [] OTHER -> disk[x]]
     IN IF disk[p].kind = "none" THEN Keep /\ Answer("move_file", p, "error")
        ELSE IF Cardinality(kinds) > 1 THEN Keep /\ Answer("move_file", p, "raised")
        ELSE /\ Change(moved, IF p = q THEN order ELSE
                         [i \in DOMAIN others |-> IF others[i] = p THEN q ELSE others[i]])
             /\ Answer("move_file", p, "ok")
  /\ UNCHANGED <<scene, readFiles, command>>

DeleteFile(p) ==
  /\ Call("delete_file")
  /\ IF p \in Files THEN Change([disk EXCEPT ![p] = Absent], order) /\ Answer("delete_file", p, "ok")
     ELSE Keep /\ Answer("delete_file", p, "error")
  /\ UNCHANGED <<scene, readFiles, command>>

-----------------------------------------------------------------------------
(* Searching *)

(* A line that holds s, in a file that is not too big; bad bytes are skipped.  *)
MatchContent(p, s) ==
  LET text == SelectSeq(Text(disk[p].data), LAMBDA c : c # "?")
  IN /\ Len(disk[p].data) <= Big
     /\ \E line \in ToSet(Lines(text)) : Places(line, s) # {}

(* The walk, in the order of the directory, stops at max results; those are   *)
(* sorted.                                                                    *)
Collected(walk, s, max) ==
  LET found == SelectSeq(walk, LAMBDA p : s = <<>> \/ MatchContent(p, s))
  IN [cut |-> Len(found) >= max, paths |-> SubSeq(found, 1, IF Len(found) < max THEN Len(found) ELSE max)]

SearchFiles(s, max) ==
  /\ Call("search_files")
  /\ \E walk \in SetToSeqs(Files) :
       LET c == Collected(walk, s, max)
       IN answer' = [Nothing EXCEPT !.tool = "search_files", !.edits = s, !.cut = c.cut,
                     !.shown = Among(order, ToSet(c.paths))]
  /\ Keep
  /\ UNCHANGED <<scene, readFiles, command>>

-----------------------------------------------------------------------------
(* The shell *)

RunCommand ==
  /\ Call("run_command")
  /\ command = "idle"
  /\ command' = "running"
  /\ answer' = Nothing
  /\ Keep
  /\ UNCHANGED <<scene, readFiles>>

(* What a shell started goes on when the shell is killed. *)
CommandWrites(p, data) ==
  /\ command \in {"running", "killed"}
  /\ left > 0 /\ left' = left - 1
  /\ Write(p, data)
  /\ before' = disk'
  /\ answer' = Nothing
  /\ UNCHANGED <<scene, readFiles, command>>

(* It ends, or its shell is killed after the timeout. Its caller gets a text: *)
(* the error raised for an exit code is caught where a failure to start is.   *)
CommandEnds(exit) ==
  /\ command = "running"
  /\ command' = IF exit = "timeout" THEN "killed" ELSE "over"
  /\ before' = disk
  /\ answer' = [Nothing EXCEPT !.tool = "run_command", !.path = exit, !.result = "ok"]
  /\ Keep
  /\ UNCHANGED <<scene, left, readFiles>>

Edits == [old : scene.strings, new : scene.strings]

Next ==
  \/ \E t \in Turns, p \in Paths :
       \/ \E limit \in {1, 2} : ReadPage(t, p, limit)
       \/ \E e \in Edits : EditFile(t, p, e)
       \/ \E edits \in {<<>>} \union (Edits \X Edits) : BatchEdit(t, p, edits)
  \/ \E t \in Turns, S \in SUBSET Paths : ReadFiles(t, S)
  \/ \E p \in Paths :
       \/ \E s \in scene.strings : WriteFile(p, s) \/ CommandWrites(p, s)
       \/ CreateDirectory(p) \/ DeleteFile(p)
       \/ \E q \in Paths : MoveFile(p, q)
  \/ \E s \in scene.strings, max \in {1, 2} : SearchFiles(s, max)
  \/ RunCommand
  \/ \E exit \in {"zero", "other", "timeout"} : CommandEnds(exit)

Spec == Init /\ [][Next]_vars

-----------------------------------------------------------------------------
(* Every variable has its type. *)
TypeOK ==
  /\ \A p \in Paths : disk[p].kind \in {"file", "none", "dir"} /\ Len(disk[p].data) <= MaxLen
  /\ left \in 0..scene.calls
  /\ readFiles \in [Turns -> SUBSET Paths]
  /\ ToSet(order) = Files /\ Len(order) = Cardinality(Files)
  /\ cursor.state \in {"none", "on", "done", "lost"}
  /\ command \in {"idle", "running", "over", "killed"}
  /\ answer.tool \in {"none"} \union Tools
  /\ answer.result \in {"ok", "error", "raised", "blocked"}

(* Old strings at the places at, replaced from the last place to the first,   *)
(* so that none moves another.                                                *)
AllAtOnce(text, edits, at) ==
  LET with[S \in SUBSET DOMAIN edits] ==
        IF S = {} THEN text
        ELSE LET k == CHOOSE i \in S : \A j \in S : at[i] <= at[j]
             IN ReplaceAtPlace(with[S \ {k}], at[k], edits[k])
  IN with[DOMAIN edits]

(* Each old string was at a place of its own, and this is what came of it.    *)
EachAtItsPlace(old, edits, new) ==
  \E at \in [DOMAIN edits -> 1..Len(old) + 1] :
    /\ \A k \in DOMAIN edits : at[k] \in Places(old, edits[k].old)
    /\ \A k, l \in DOMAIN edits :
         k # l /\ at[k] <= at[l] => at[k] # at[l] /\ at[k] + Len(edits[k].old) <= at[l]
    /\ new = AllAtOnce(old, edits, at)

Edit == answer.tool \in {"edit_file", "batch_edit_file"} /\ answer.result = "ok"
TextBefore == Text(before[answer.path].data)

(* No string is empty, and no new string has a character of an old one. *)
Fresh(edits) ==
  \A k, l \in DOMAIN edits :
    /\ edits[k].old # <<>> /\ edits[k].new # <<>>
    /\ ToSet(edits[k].new) \intersect ToSet(edits[l].old) = {}

(* An edit that is told to have succeeded replaced what it names, where it    *)
(* was in the text as it is read: a batch too, though its edits are checked   *)
(* against the file and made on each other's results, as long as no new       *)
(* string, and no gap that an edit closes, can be taken for an old one        *)
(* (edit_file, batch_edit_file).                                              *)
EditsExact ==
  Edit /\ (Len(answer.edits) > 1 => Fresh(answer.edits)) =>
    EachAtItsPlace(TextBefore, answer.edits, disk[answer.path].data)

(* Whatever does not succeed, for whatever reason, leaves every file alone,   *)
(* and an edit leaves all others alone (batch_edit_file writes at the end).   *)
AllOrNothing ==
  /\ answer.result # "ok" => disk = before
  /\ Edit => \A p \in Paths \ {answer.path} : disk[p] = before[p]

(* The pages of a file make up its text, if it stays as it is while it is     *)
(* read, by pages of any size: no line twice, none left out (read_file).      *)
PagesCover ==
  answer.tool = "read_file" /\ cursor.state = "done" /\ cursor.steady =>
    cursor.got = Lines(Text(disk[cursor.path].data))

-----------------------------------------------------------------------------
(* What the code does not do. *)

(* filesystem_server.py:253: a batch is for renaming in several places at     *)
(* once, and line 259 has each old string unique in the file: each edit is    *)
(* made where its old string was. The code finds the old string of a later    *)
(* edit in the new string of an earlier one.                                  *)
BatchAsListed == Edit => EachAtItsPlace(TextBefore, answer.edits, disk[answer.path].data)

(* filesystem_server.py:212: an edit replaces one place precisely: the rest   *)
(* of the file stays as it is. The code rewrites every end of line of two     *)
(* bytes and every byte that is no UTF-8.                                     *)
RestKept ==
  Edit /\ answer.tool = "edit_file" =>
    EachAtItsPlace(before[answer.path].data, answer.edits, disk[answer.path].data)

(* filesystem_server.py:221: the old string is there once. The count does not *)
(* see overlaps.                                                              *)
OnlyPlace ==
  Edit /\ answer.tool = "edit_file" => Cardinality(Places(TextBefore, answer.edits[1].old)) = 1

(* read_tracked.py:1 with filesystem_server.py:6: files are read before they  *)
(* are edited, and the names are those of read_tracked.py. batch_edit_file is *)
(* not among them.                                                            *)
EditsKnown == Edit => answer.known

(* filesystem_server.py:474: sorted by modification, the last modified come   *)
(* first. The search stops at max_results before it sorts.                    *)
NewestShown ==
  answer.tool = "search_files" /\ answer.edits = <<>> => IsPrefix(answer.shown, order)

(* shell_server.py:176: an exit code other than zero is raised, so that the   *)
(* result is marked as an error. The exception is caught and told as a text.  *)
FailureIsError == answer.tool = "run_command" /\ answer.path = "other" => answer.result = "raised"

(* shell_server.py:186: a command that takes too long has been terminated.    *)
(* The shell is killed, not what it started.                                  *)
KilledIsQuiet == [][command = "killed" => ~\E p \in Paths, d \in scene.strings : CommandWrites(p, d)]_vars
=============================================================================
