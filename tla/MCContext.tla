------------------------------- MODULE MCContext -------------------------------
(* Small instances of Context: what the memory holds at first, the dialects   *)
(* and replies of a dialogue, requests on attachments, and files with calls.  *)
EXTENDS Context, SequencesExt

CONSTANTS a, b

-----------------------------------------------------------------------------
(* A conversation that one more memory makes full enough to compact: one of   *)
(* its memories is locked, one names only its session, one outlives it; and   *)
(* one bound to a project, with a proposal that waits.                        *)

Sess(i) == Row("session", {i}, TRUE)

Hot(i) == [Sess(i) EXCEPT !.uses = PromoteUses]
Proposal(i) == [st |-> "pending", scope |-> "user", says |-> {i}]

MCStarts ==
  {[rows |-> <<[Hot(1) EXCEPT !.locked = TRUE], [Sess(2) EXCEPT !.conv = FALSE],
              [Sess(3) EXCEPT !.scope = "user"]>>,
    bound |-> FALSE, promos |-> Nothing],
   [rows |-> <<Hot(1), [Sess(2) EXCEPT !.scope = "project"]>>, bound |-> TRUE,
    promos |-> [i \in {1} |-> Proposal(1)]]}

MCKindsOf ==
  [o \in Ops |->
     IF o = a THEN Indexed \union Plain
     ELSE {"patch", "delete", "forget", "review", "recall", "save", "compact", "unbind"}]

-----------------------------------------------------------------------------
(* One small conversation for each dialect and question. *)

T == [kind |-> "text", args |-> "empty", skill |-> FALSE]
Th == [kind |-> "think", args |-> "empty", skill |-> FALSE]
C(args) == [kind |-> "call", args |-> args, skill |-> FALSE]
S(args) == [kind |-> "call", args |-> args, skill |-> TRUE]

Plainly == [topP |-> "none", topK |-> FALSE, warm |-> TRUE, thinking |-> "off", room |-> TRUE, asked |-> FALSE]
AllOptions ==
  {o \in [topP : {"none", "low", "high"}, topK : BOOLEAN, warm : BOOLEAN,
          thinking : {"off", "on", "adaptive"}, room : BOOLEAN, asked : BOOLEAN] :
     o.thinking = "adaptive" => ~o.warm}

Talk == [dialect |-> "blocks", stream |-> TRUE, mixed |-> FALSE, cache |-> TRUE, style |-> "index",
         turns |-> 1, rounds |-> 2, replies |-> {<<T>>}, files |-> {"none"}, options |-> {Plainly}]

Calling == {<<T>>, <<>>, <<Th, C("full"), C("empty")>>, <<T, C("broken")>>, <<C("bent"), C("broken")>>}
Mixing == {<<T>>, <<T, C("full"), C("full")>>, <<C("bent"), C("empty")>>, <<C("broken"), C("full")>>}
Learning == {<<T>>, <<C("full")>>, <<S("full")>>, <<T, S("bent")>>, <<S("empty")>>, <<S("full"), S("broken")>>}
AllFiles == {"none", "image", "pdf", "scan", "gone"}
AllDialects == {"blocks", "anthropic", "chat", "responses"}

MCTalks ==
  {[Talk EXCEPT !.dialect = d, !.replies = Calling] : d \in {"blocks", "anthropic"}}
    \union {[Talk EXCEPT !.replies = {<<Th, C("full"), C("broken")>>, <<T>>}, !.mixed = TRUE]}
    \union {[Talk EXCEPT !.dialect = "chat", !.style = style, !.mixed = TRUE, !.replies = Mixing] : style \in {"index", "late", "ids"}}
    \union {[Talk EXCEPT !.dialect = "chat", !.style = "late", !.replies = Mixing \union {<<Th, T>>}]}
    \union {[Talk EXCEPT !.dialect = "responses", !.replies = Mixing]}
    \union {[Talk EXCEPT !.dialect = d, !.replies = Learning, !.turns = 3, !.cache = FALSE] : d \in {"responses", "anthropic"}}
    \union {[Talk EXCEPT !.dialect = d, !.files = AllFiles, !.turns = 3, !.rounds = 1] : d \in AllDialects}
    \union {[Talk EXCEPT !.dialect = "anthropic", !.stream = FALSE, !.rounds = 5,
               !.replies = {<<T>>, <<C("full")>>, <<C("empty"), C("full"), T>>}]}
    \union {[Talk EXCEPT !.dialect = d, !.stream = FALSE, !.replies = Mixing] : d \in {"chat", "responses"}}
    \union {[Talk EXCEPT !.dialect = d, !.options = AllOptions, !.rounds = 1, !.stream = stream] : d \in AllDialects, stream \in BOOLEAN}

-----------------------------------------------------------------------------
(* Two attachments and a third to be uploaded, in two conversations that may  *)
(* share the bytes; four requests at the same time.                           *)

Up(i, x) == [kind |-> "upload", id |-> i, content |-> x]
Rm(i) == [kind |-> "remove", id |-> i]
Fo(k) == [kind |-> "forget", conv |-> k]
Ru(k, ids) == [kind |-> "run", conv |-> k, ids |-> ids]
Same == [i \in {"a1", "a2", "a3"} |-> IF i = "a3" THEN NoContent ELSE "x"]
Mixed == [Same EXCEPT !["a2"] = "y"]
Stock(ops, stored, redis, crashes) ==
  [op |-> ops, stored |-> stored, redis |-> redis, crashes |-> crashes]
Still == Stock([q \in Requests |-> [kind |-> "none"]], Same, FALSE, FALSE)

MCStocks ==
  {Stock(<<Rm("a1"), Rm("a2"), Ru("k", {"a2"}), Up("a3", "x")>>, Same, FALSE, x) : x \in BOOLEAN}
    \union {Stock(<<Ru("k", {"a1"}), Ru("l", {"a2"}), Fo("k"), Rm("a1")>>, Same, x, FALSE) : x \in BOOLEAN}
    \union {Stock(<<Ru("k", {"a1", "a2"}), Fo("k"), Fo("l"), Up("a3", "x")>>, Mixed, FALSE, x) : x \in BOOLEAN}

-----------------------------------------------------------------------------
(* Batches of two edits on short files, files that are read page by page      *)
(* while they are written, and everything else that changes files, by two     *)
(* turns and a command at once.                                               *)
Desk == [disk |-> [p |-> [kind |-> "file", data |-> <<>>], q |-> [kind |-> "none", data |-> <<>>]],
         tools |-> {"edit_file", "read_multiple_files"}, strings |-> {<<>>, <<"a">>}, calls |-> 3]
With(d, tools, strings, n) ==
  [Desk EXCEPT !.disk.p.data = d, !.tools = tools, !.strings = strings, !.calls = n]

MCDesks ==
  {With(d, {"batch_edit_file"}, {<<"a">>, <<"b">>, <<"a", "b">>, <<"x", "x">>}, 1) :
     d \in BoundedSeq({"a", "b", "c"}, 3)}
    \union {With(d, {"read_file", "write_file"}, {<<>>, <<"a", "lf">>}, 4) :
              d \in BoundedSeq({"a", "lf", "crlf"}, 3)}
    \union {[Desk EXCEPT !.tools =
                {"edit_file", "read_multiple_files", "write_file", "create_directory", "move_file",
                 "delete_file", "search_files", "run_command"}]}

(* Two edits after a read on files with odd ends of lines, bytes and overlaps,*)
(* and searches that stop after the first file.                               *)
MCOddDesks ==
  {With(d, {"edit_file", "read_multiple_files"}, {<<"a", "a">>, <<"a">>}, 2) :
     d \in {<<"a", "crlf">>, <<"a", "bad">>, <<"a", "a", "a">>}}
    \union {With(<<"b", "a">>, {"batch_edit_file"}, {<<"a">>, <<"b">>}, 1)}
    \union {[Desk EXCEPT !.tools = {"write_file", "search_files", "run_command"}]}
=============================================================================
