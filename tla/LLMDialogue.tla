---------------------------- MODULE LLMDialogue ----------------------------
(***************************************************************************)
(* A conversation through an LLM adapter: each turn's history becomes a    *)
(* request in the provider's dialect, the provider's chunks become calls   *)
(* and blocks again, and what a turn leaves behind begins the next one.    *)
(*                                                                         *)
(* Dialects: "blocks" and "anthropic" (with and without the replay of the  *)
(* provider's own blocks), "chat" (Chat Completions) and "responses".      *)
(* Texts, files and arguments are known by where they come from: the user  *)
(* message of turn t is <<t, 0>>, block i of the answer in round r is      *)
(* <<t, r, i>>.                                                            *)
(***************************************************************************)
EXTENDS Naturals, Sequences, FiniteSets, SequencesExt

CONSTANTS
  Scenes,     \* provider, profile and inputs of a conversation: see DialogueAssumption
  Interval,   \* _LOOKBACK_SAFE_INTERVAL (15 in the code)
  Reach,      \* how many blocks the provider looks back from a mark (20)
  Recent      \* lookback_turns (3 in the code)

Dialects == {"blocks", "anthropic", "chat", "responses"}
Blocks == [kind : {"think", "text", "call"}, args : {"full", "empty", "bent", "broken"}, skill : BOOLEAN]
Files == {"none", "image", "pdf", "scan", "gone"}

(* What the constants are; the model that gives them values assumes it. *)
DialogueAssumption ==
  /\ {Interval, Reach, Recent} \subseteq Nat \ {0}
  /\ \A s \in Scenes :
       /\ s.dialect \in Dialects
       /\ {s.stream, s.mixed, s.cache} \subseteq BOOLEAN
       /\ s.style \in {"index", "late", "ids"}
       /\ {s.turns, s.rounds} \subseteq Nat \ {0}
       /\ \A r \in s.replies : r \in Seq(Blocks)
       /\ s.files \subseteq Files
       /\ s.options \subseteq [topP : {"none", "low", "high"}, topK : BOOLEAN, warm : BOOLEAN,
                               thinking : {"off", "on", "adaptive"}, room : BOOLEAN, asked : BOOLEAN]

VARIABLES
  scene, options,   \* the configuration of the conversation
  pc,       \* what the turn awaits
  turn, round, closing,
  msgs,     \* the messages of the session
  reminder, \* active_skill of the turn's SessionContext
  request,  \* the last request sent
  reply,    \* what the provider answers it with
  at,       \* chunks of each block that have arrived
  buf,      \* block_buffers, tool_call_buffer
  index,    \* tool_call_index_map
  blocks,   \* completed_blocks
  calls,    \* the calls of the events so far
  text,     \* a text delta came
  said,     \* history: the answers of this turn
  attached, \* history: the file of each turn
  loaded    \* history: the turn before loaded a skill

config == <<scene, options>>
wire == <<reply, at, buf, index, blocks, calls, text>>
history == <<said, attached, loaded>>
vars == <<config, pc, turn, round, closing, msgs, reminder, request, wire, history>>

-----------------------------------------------------------------------------
(* Messages *)

Plain(role, of) ==
  [role |-> role, of |-> of, text |-> TRUE, calls |-> <<>>, results |-> <<>>,
   blocks |-> <<>>, file |-> "none", skill |-> FALSE]

Tool(results) == [Plain("tool", <<turn, round>>) EXCEPT !.text = FALSE, !.results = results]

(* What an assistant message loads: the skill of its last load_skill call,  *)
(* nothing when the arguments of that call came out empty.                  *)
LoadsSkill(m) ==
  \E i \in 1..Len(m.calls) :
    /\ m.calls[i].skill /\ m.calls[i].args # "none"
    /\ \A j \in i + 1..Len(m.calls) : ~m.calls[j].skill

(* What a turn leaves: tool messages go, an assistant message with calls    *)
(* goes or becomes the marker of the skill it loaded.                       *)
prepare_for_save(ms) ==
  LET kept == SelectSeq(ms, LAMBDA m : m.role # "tool" /\ (m.calls = <<>> \/ LoadsSkill(m)))
  IN [k \in 1..Len(kept) |->
        IF kept[k].calls = <<>> THEN kept[k]
        ELSE [Plain("assistant", kept[k].of) EXCEPT !.text = kept[k].text, !.skill = TRUE]]

(* Mutant: only the newest answer is looked at. *)
LatestSkill(ms) ==
  LET answers == SelectSeq(ms, LAMBDA m : m.role = "assistant")
  IN answers # <<>> /\ Last(answers).skill

detect_active_skill(ms) ==
  LET answers == SelectSeq(ms, LAMBDA m : m.role = "assistant")
  IN \E k \in 1..Len(answers) : k + Recent > Len(answers) /\ answers[k].skill

-----------------------------------------------------------------------------
(* Requests: a sequence of items, a cache mark on some *)

Anthropic == scene.dialect \in {"blocks", "anthropic"}

Item(who, kind, of, detail) ==
  [who |-> who, kind |-> kind, of |-> of, detail |-> detail, mark |-> FALSE]

Text(m) == IF m.text THEN <<Item(m.role, "text", m.of, "")>> ELSE <<>>
Content(m) == IF m.text THEN Text(m) ELSE <<Item(m.role, "empty", m.of, "")>>

CallItems(m) == [i \in 1..Len(m.calls) |-> Item("assistant", "call", m.calls[i].id, m.calls[i].args)]

Results(m, known) ==
  LET valid == SelectSeq(m.results, LAMBDA r : r.id \in known)
  IN [i \in 1..Len(valid) |-> Item("tool", "result", valid[i].id, IF valid[i].error THEN "error" ELSE "ok")]

(* How a file is shown. One whose bytes are gone is left out. *)
AnthropicFile(m) ==
  CASE m.file = "image" -> <<Item("user", "image", m.of, "")>>
    [] m.file \in {"pdf", "scan"} -> <<Item("user", "document", m.of, "")>>
    [] OTHER -> <<>>

(* Chat Completions take a PDF as text in front of the user's own: without  *)
(* any text in it the adapter raises.                                       *)
Extractable(m) == m.file # "scan"
ChatFile(m) ==
  CASE m.file = "image" -> <<Item("user", "image", m.of, "")>>
    [] m.file = "pdf" -> <<Item("user", "text", m.of, "file")>>
    [] OTHER -> <<>>

(* The Responses API gets the same, and nothing of a PDF without text. *)
ResponsesFile(m) ==
  CASE m.file = "image" -> <<Item("user", "image", m.of, "")>>
    [] m.file = "pdf" /\ Extractable(m) -> <<Item("user", "text", m.of, "file")>>
    [] OTHER -> <<>>

(* The calls a result may answer: those of the messages before it. *)
CallIds(m) ==
  {m.calls[i].id : i \in 1..Len(m.calls)}
    \union {m.blocks[i].id : i \in {j \in 1..Len(m.blocks) : m.blocks[j].kind = "call"}}
Known(ms, k) == UNION {CallIds(ms[j]) : j \in 1..(k - 1)}

BlockItem(b) ==
  Item("assistant", b.kind, b.id,
       CASE b.kind = "call" -> b.args [] b.kind = "think" /\ b.signed -> "signed" [] OTHER -> "")

(* AnthropicAdapter._convert_messages, message k. *)
AnthropicItems(ms, k) ==
  LET m == ms[k]
      replayed == scene.dialect = "blocks" /\ m.blocks # <<>>
  IN CASE m.results # <<>> -> Results(m, Known(ms, k))
       [] m.results = <<>> /\ replayed -> [i \in 1..Len(m.blocks) |-> BlockItem(m.blocks[i])]
       [] m.results = <<>> /\ ~replayed /\ m.calls # <<>> -> Text(m) \o CallItems(m)
       [] OTHER -> IF m.file # "none" THEN Text(m) \o AnthropicFile(m) ELSE Content(m)

ToolResults(m) == Results(m, {m.results[i].id : i \in 1..Len(m.results)})

(* OpenAIAdapter._convert_messages, message k. *)
ChatItems(ms, k) ==
  LET m == ms[k]
  IN CASE m.results # <<>> -> ToolResults(m)
       [] m.calls # <<>> -> Text(m) \o CallItems(m)
       [] OTHER -> IF m.file # "none" THEN ChatFile(m) \o Text(m) ELSE Content(m)

(* OpenAIAdapter._responses_input, message k. *)
ResponsesItems(ms, k) ==
  LET m == ms[k]
  IN CASE m.results # <<>> -> ToolResults(m)
       [] m.calls # <<>> -> Text(m) \o CallItems(m)
       [] OTHER -> IF m.file # "none" THEN Text(m) \o ResponsesFile(m) ELSE Content(m)

Convert(ms) ==
  FlattenSeq([k \in 1..Len(ms) |->
    CASE Anthropic -> AnthropicItems(ms, k)
      [] scene.dialect = "chat" -> ChatItems(ms, k)
      [] OTHER -> ResponsesItems(ms, k)])

Convertible(ms) == scene.dialect = "chat" => \A k \in 1..Len(ms) : Extractable(ms[k])

Cacheable(item) == item.kind \in {"text", "call", "result", "image", "document"}

(* The members of S that have fewer than k others below, or above, them. *)
Lowest(S, k) == {i \in S : Cardinality({j \in S : j < i}) < k}
Highest(S, k) == {i \in S : Cardinality({j \in S : j > i}) < k}

(* Mutant: no mark on the last block. *)
SpacedOnly(n, slots) == Lowest({i \in 1..(n - 1) : i % Interval = 0}, slots)

(* _select_mark_indices: the last of n blocks, then every Interval-th from  *)
(* the front, then evenly from the back, as far as the slots go.            *)
MarkIndices(n, slots) ==
  LET spaced == Lowest({i \in 1..(n - 1) : i % Interval = 0}, slots - 1)
      step == IF n \div slots = 0 THEN 1 ELSE n \div slots
      even == {i \in 1..(n - 1) : (n - i) % step = 0} \ spaced
  IN IF n = 0 \/ slots = 0 THEN {}
     ELSE IF slots = 1 THEN {n}
     ELSE {n} \union spaced \union Highest(even, slots - 1 - Cardinality(spaced))

(* allocate_message_cache_slots: the system prompt always has one. *)
Slots(tools) == 4 - (IF tools THEN 1 ELSE 0) - 1

Marked(items, slots) ==
  LET refs == SelectSeq([i \in 1..Len(items) |-> i], LAMBDA i : Cacheable(items[i]))
      chosen == {refs[n] : n \in MarkIndices(Len(refs), slots)}
  IN [i \in 1..Len(items) |-> [items[i] EXCEPT !.mark = i \in chosen]]

(* SessionContext: the date and the active skill stay the same for a turn;  *)
(* the recalled knowledge and the progress of the tools go behind all else. *)
Stable(role) == Item(role, "stable", <<>>, IF reminder THEN "active_skill" ELSE "")
Volatile == Item("user", "progress", <<turn, round>>, IF closing THEN "closing" ELSE "")

Static == Item("system", "static", <<>>, "")

(* _build_system_param; the Chat dialect's system messages are the same.    *)
AnthropicSystem == <<[Static EXCEPT !.mark = scene.cache], Stable("system")>>

(* _append_session_context: behind the system messages, or at the beginning *)
(* of the Responses API's input, which has none.                            *)
OpenAISystem == <<Static, Stable(IF scene.dialect = "responses" THEN "user" ELSE "system")>>

(* What ChatPipeline.prepare hands on: top_p before top_k. *)
Sampling(o) ==
  LET topP == IF o.warm THEN o.topP ELSE "none"
  IN [o EXCEPT !.topP = topP, !.topK = topP = "none" /\ o.topK]

(* Thinking excludes top_k and a low top_p; extended thinking wants         *)
(* temperature 1 alone and room for a text behind its own budget.           *)
AnthropicParams(o) ==
  LET thinking == IF scene.stream THEN o.thinking ELSE "off"
      alone == thinking = "on" /\ o.warm
      topP == IF alone \/ (thinking # "off" /\ o.topP = "low") THEN "none" ELSE o.topP
      topK == thinking = "off" /\ o.topK
  IN [temperature |-> CASE alone -> "one"
                        [] ~alone /\ o.warm /\ topP = "none" /\ ~topK -> "default"
                        [] OTHER -> "none",
      topP |-> topP, topK |-> topK /\ topP = "none", thinking |-> thinking,
      room |-> o.room \/ thinking = "on"]

(* Temperature or top_p, never top_k. *)
ChatParams(o) ==
  [temperature |-> IF o.topP = "none" THEN "default" ELSE "none", topP |-> o.topP, topK |-> FALSE,
   thinking |-> IF scene.stream THEN o.thinking ELSE "off", room |-> o.room]

(* The Responses API takes neither. *)
ResponsesParams(o) ==
  [temperature |-> "none", topP |-> "none", topK |-> FALSE, thinking |-> "off", room |-> o.room]

Params ==
  CASE Anthropic -> AnthropicParams(Sampling(options))
    [] scene.dialect = "chat" -> ChatParams(Sampling(options))
    [] OTHER -> ResponsesParams(Sampling(options))

(* The tools are offered in every round but the closing one. *)
Offered == ~closing

(* AnthropicAdapter._prepare_cached_request_parts *)
AnthropicRequest ==
  [sent |-> TRUE,
   closing |-> closing,
   tools |-> IF ~Offered THEN "none" ELSE IF scene.cache THEN "marked" ELSE "plain",
   system |-> AnthropicSystem,
   items |-> IF scene.cache THEN Marked(Convert(msgs), Slots(Offered)) ELSE Convert(msgs),
   tail |-> Volatile,
   params |-> Params]

OpenAIRequest ==
  [sent |-> TRUE,
   closing |-> closing,
   tools |-> IF Offered THEN "plain" ELSE "none",
   system |-> OpenAISystem,
   items |-> Convert(msgs),
   tail |-> Volatile,
   params |-> Params]

Request == IF Anthropic THEN AnthropicRequest ELSE OpenAIRequest

NoRequest ==
  [sent |-> FALSE, closing |-> FALSE, tools |-> "none", system |-> <<>>, items |-> <<>>,
   tail |-> Item("user", "none", <<>>, ""), params |-> Params]

-----------------------------------------------------------------------------
(* What arrives. A part of the arguments knows its block. *)

NoId == <<>>
IdOf(i) == <<turn, round, i>>

Pieces(i) ==
  LET block == reply[i]
      part(n) == [of |-> i, args |-> block.args, n |-> n]
  IN CASE block.kind # "call" -> <<part(1)>>
       [] block.kind = "call" /\ block.args = "empty" -> <<>>
       [] OTHER -> <<part(1), part(2)>>

(* What arguments come to: parsed, repaired, or {} and an error. *)
Parse(got) ==
  CASE got = <<>> -> [args |-> "none", error |-> FALSE]
    [] \E i \in {got[n].of : n \in 1..Len(got)} : got = Pieces(i) /\ reply[i].args = "full" ->
         [args |-> "full", error |-> FALSE]
    [] \E i \in {got[n].of : n \in 1..Len(got)} : got = Pieces(i) /\ reply[i].args = "bent" ->
         [args |-> "repaired", error |-> FALSE]
    [] OTHER -> [args |-> "none", error |-> TRUE]

Call(id, got, i) ==
  [id |-> id, skill |-> reply[i].skill] @@ Parse(got)

(* The chunks of block i: what they announce, under which id and index,     *)
(* with which part.                                                         *)
Chunk(what, id, idx, part) == [what |-> what, id |-> id, index |-> idx, part |-> part]

AnthropicChunks(i) ==
  LET parts == [n \in 1..Len(Pieces(i)) |-> Chunk("part", NoId, i, <<Pieces(i)[n]>>)]
      ending == <<Chunk("stop", NoId, i, <<>>)>>
  IN <<Chunk("start", IdOf(i), i, <<>>)>> \o parts
       \o (IF reply[i].kind = "think" THEN <<Chunk("signature", NoId, i, <<>>)>> ELSE <<>>) \o ending

(* "index": the id comes first and alone. "late": it comes second, behind   *)
(* the first part. "ids": it comes with every chunk, which has no index.    *)
ToolChunks(i) ==
  LET parts == [n \in 1..Len(Pieces(i)) |-> <<Pieces(i)[n]>>]
      bare == <<<<>>>> \o parts
      full == IF parts = <<>> THEN <<<<>>, <<>>>> ELSE parts
  IN CASE scene.style = "index" ->
            [n \in 1..Len(bare) |-> Chunk("tool", IF n = 1 THEN IdOf(i) ELSE NoId, i, bare[n])]
       [] scene.style = "late" ->
            [n \in 1..Len(full) |-> Chunk("tool", IF n = 2 THEN IdOf(i) ELSE NoId, i, full[n])]
       [] OTHER ->
            [n \in 1..Len(bare) |-> Chunk("tool", IdOf(i), 0, bare[n])]

Chunks(i) ==
  CASE Anthropic -> AnthropicChunks(i)
    [] scene.dialect = "chat" /\ reply[i].kind = "call" -> ToolChunks(i)
    [] OTHER -> <<Chunk(IF reply[i].kind = "call" THEN "item" ELSE "delta", IdOf(i), i, Pieces(i))>>

Complete(i) == at[i] = Len(Chunks(i))

(* Block i's next chunk arrives: a block after the one before it, or among  *)
(* its chunks where the provider mixes them.                                *)
Arrives(i, what) ==
  /\ pc = "wire" /\ scene.stream
  /\ i \in 1..Len(reply) /\ ~Complete(i)
  /\ i > 1 => IF scene.mixed THEN at[i - 1] > 0 ELSE Complete(i - 1)
  /\ Chunks(i)[at[i] + 1].what = what
  /\ at' = [at EXCEPT ![i] = @ + 1]
  /\ UNCHANGED <<config, pc, turn, round, closing, msgs, reminder, request, reply, history>>

Next1(i) == Chunks(i)[at[i] + 1]

Held(key) == {p \in 1..Len(buf) : buf[p].key = key}
Without(key) == SelectSeq(buf, LAMBDA e : e.key # key)
Fresh(key, id, i) == [key |-> key, id |-> id, of |-> i, got |-> <<>>, signed |-> FALSE]

-----------------------------------------------------------------------------
(* AnthropicAdapter.generate_stream *)

BlockStart(i) ==
  /\ Arrives(i, "start")
  /\ buf' = Append(Without(<<i>>), Fresh(<<i>>, IdOf(i), i))
  /\ UNCHANGED <<index, blocks, calls, text>>

BlockDelta(i) ==
  /\ Arrives(i, "part")
  /\ buf' = [p \in 1..Len(buf) |-> IF p \in Held(<<i>>) THEN [buf[p] EXCEPT !.got = @ \o Next1(i).part] ELSE buf[p]]
  /\ text' = (text \/ reply[i].kind = "text")
  /\ UNCHANGED <<index, blocks, calls>>

SignatureDelta(i) ==
  /\ Arrives(i, "signature")
  /\ buf' = [p \in 1..Len(buf) |-> IF p \in Held(<<i>>) THEN [buf[p] EXCEPT !.signed = TRUE] ELSE buf[p]]
  /\ UNCHANGED <<index, blocks, calls, text>>

(* A block is kept for the replay whether or not its arguments were parsed. *)
BlockStop(i) ==
  /\ Arrives(i, "stop")
  /\ buf' = Without(<<i>>)
  /\ \E p \in Held(<<i>>) :
       LET e == buf[p]
           call == Call(e.id, e.got, i)
           block == [kind |-> reply[i].kind, id |-> e.id, signed |-> e.signed,
                     args |-> IF reply[i].kind = "call" THEN call.args ELSE "none"]
       IN /\ blocks' = Append(blocks, block)
          /\ calls' = IF reply[i].kind = "call" THEN Append(calls, call) ELSE calls
  /\ UNCHANGED <<index, text>>

-----------------------------------------------------------------------------
(* OpenAIAdapter.generate_stream *)

(* The index is known under another key: the entry takes the id that came.  *)
Renamed(c) == c.id # NoId /\ c.index # 0 /\ index[c.index] \notin {<<>>, c.id}

(* The key of the entry a chunk belongs to. *)
KeyOf(c) ==
  IF c.id # NoId THEN c.id
  ELSE IF index[c.index] # <<>> THEN index[c.index] ELSE <<c.index>>

Opened(c, i) ==
  CASE Renamed(c) ->
         LET p == CHOOSE p \in Held(index[c.index]) : TRUE
         IN Append(Without(index[c.index]), [buf[p] EXCEPT !.key = c.id, !.id = c.id])
    [] ~Renamed(c) /\ Held(KeyOf(c)) = {} -> Append(buf, Fresh(KeyOf(c), c.id, i))
    [] OTHER -> buf

ToolDelta(i) ==
  /\ Arrives(i, "tool")
  /\ LET c == Next1(i)
         opened == Opened(c, i)
     IN /\ buf' = [p \in 1..Len(opened) |->
                     IF opened[p].key = KeyOf(c) THEN [opened[p] EXCEPT !.got = @ \o c.part] ELSE opened[p]]
        /\ index' = IF c.index = 0 THEN index ELSE [index EXCEPT ![c.index] = KeyOf(c)]
  /\ UNCHANGED <<blocks, calls, text>>

(* A text or a thought. *)
TextDelta(i) ==
  /\ Arrives(i, "delta")
  /\ text' = (text \/ reply[i].kind = "text")
  /\ UNCHANGED <<buf, index, blocks, calls>>

(* A whole call of the Responses API: arguments that cannot be parsed are   *)
(* taken for {}.                                                            *)
ItemDone(i) ==
  /\ Arrives(i, "item")
  /\ calls' = Append(calls, [Call(IdOf(i), Next1(i).part, i) EXCEPT !.error = FALSE])
  /\ UNCHANGED <<buf, index, blocks, text>>

-----------------------------------------------------------------------------
(* The turn *)

Silent == /\ reply' = <<>> /\ at' = <<>> /\ buf' = <<>> /\ index' = <<>>
          /\ blocks' = <<>> /\ calls' = <<>> /\ text' = FALSE

(* ChatPipeline.stream: the history, the reminder drawn from it, the        *)
(* message of the user.                                                     *)
Begin(file) ==
  /\ pc = "idle" /\ turn < scene.turns
  /\ turn' = turn + 1 /\ round' = 1 /\ closing' = FALSE
  /\ reminder' = detect_active_skill(msgs)
  /\ msgs' = Append(msgs, [Plain("user", <<turn + 1, 0>>) EXCEPT !.file = file])
  /\ attached' = Append(attached, file)
  /\ pc' = "send"
  /\ UNCHANGED <<config, request, wire, said, loaded>>

Loads(answer) ==
  \E i \in 1..Len(answer) : /\ answer[i].skill /\ answer[i].args \in {"full", "bent"}
                            /\ \A j \in i + 1..Len(answer) : ~answer[j].skill

(* The session is saved, in whatever way the turn ended. *)
End(ms) ==
  /\ msgs' = prepare_for_save(ms)
  /\ pc' = "idle"
  /\ closing' = FALSE
  /\ request' = NoRequest
  /\ Silent
  /\ UNCHANGED <<config, turn, round, reminder, attached>>

EndWith(ms, answers) ==
  /\ End(ms)
  /\ said' = <<>>
  /\ loaded' = \E r \in 1..Len(answers) : Loads(answers[r])

(* A request goes out and the provider begins to answer. Without tools it   *)
(* answers without calls.                                                   *)
Answers == {r \in scene.replies : closing => \A i \in 1..Len(r) : r[i].kind # "call"}

Send(r) ==
  /\ pc = "send" /\ Convertible(msgs)
  /\ r \in Answers
  /\ request' = Request
  /\ reply' = r
  /\ at' = [i \in 1..Len(r) |-> 0]
  /\ index' = [i \in 1..Len(r) |-> <<>>]
  /\ pc' = "wire"
  /\ UNCHANGED <<config, turn, round, closing, msgs, reminder, buf, blocks, calls, text, history>>

(* The messages cannot be put in the dialect: the turn fails. *)
Refuse ==
  /\ pc = "send" /\ ~Convertible(msgs)
  /\ EndWith(msgs, said)

(* The stream breaks or the turn is cancelled: what has come is dropped.    *)
Cut ==
  /\ pc \in {"wire", "tools"}
  /\ EndWith(msgs, said)

(* The loop takes the outcome of a round. *)
Take(outcome, answer) ==
  LET m == [Plain("assistant", <<turn, round>>) EXCEPT !.text = outcome.text,
              !.calls = outcome.calls, !.blocks = outcome.blocks]
      answers == Append(said, answer)
      more == outcome.calls # <<>> /\ round < scene.rounds
  IN IF closing THEN EndWith(Append(msgs, Plain("assistant", <<turn, round + 1>>)), said)
     ELSE IF ~more /\ outcome.text THEN EndWith(Append(msgs, m), answers)
     ELSE /\ msgs' = Append(msgs, m)
          /\ said' = answers
          /\ closing' = ~more
          /\ pc' = IF more THEN "tools" ELSE "send"
          /\ Silent
          /\ UNCHANGED <<config, turn, round, reminder, request, attached, loaded>>

InOrder(bs) == SortSeq(bs, LAMBDA b, c : b.id[3] < c.id[3])

(* AnthropicAdapter's DONE event: the blocks in their places. *)
AnthropicDone ==
  /\ pc = "wire" /\ scene.stream /\ Anthropic
  /\ \A i \in 1..Len(reply) : Complete(i)
  /\ Take([text |-> text, blocks |-> InOrder(blocks), calls |-> calls], reply)

(* OpenAIAdapter parses the calls when the stream is over. *)
ChatDone ==
  /\ pc = "wire" /\ scene.stream /\ scene.dialect = "chat"
  /\ \A i \in 1..Len(reply) : Complete(i)
  /\ Take([text |-> text, blocks |-> <<>>,
           calls |-> [p \in 1..Len(buf) |-> Call(buf[p].id, buf[p].got, buf[p].of)]], reply)

ResponsesDone ==
  /\ pc = "wire" /\ scene.stream /\ scene.dialect = "responses"
  /\ \A i \in 1..Len(reply) : Complete(i)
  /\ Take([text |-> text, blocks |-> <<>>, calls |-> calls], reply)

(* Without a stream, the whole answer of a call to generate. *)
CallsOf(r) == SelectSeq([i \in 1..Len(r) |-> i], LAMBDA i : r[i].kind = "call")

Answered ==
  [text |-> \E i \in 1..Len(reply) : reply[i].kind = "text",
   blocks |-> <<>>,
   calls |-> [n \in 1..Len(CallsOf(reply)) |->
                LET i == CallsOf(reply)[n]
                IN [Call(IdOf(i), Pieces(i), i) EXCEPT !.error = FALSE]]]

(* The provider's client has parsed the arguments. *)
AnthropicAnswer ==
  /\ pc = "wire" /\ ~scene.stream /\ Anthropic
  /\ Take(Answered, reply)

(* json.loads without a repair: it raises on anything else, see Cut. *)
ChatAnswer ==
  /\ pc = "wire" /\ ~scene.stream /\ scene.dialect = "chat"
  /\ \A i \in 1..Len(reply) : reply[i].kind = "call" => reply[i].args = "full"
  /\ Take(Answered, reply)

ResponsesAnswer ==
  /\ pc = "wire" /\ ~scene.stream /\ scene.dialect = "responses"
  /\ Take(Answered, reply)

(* The call failed in a way the retry policy lists: it is made again. *)
Retry ==
  /\ pc = "wire" /\ ~scene.stream
  /\ pc' = "send"
  /\ Silent
  /\ UNCHANGED <<config, turn, round, closing, msgs, reminder, request, history>>

(* Mutant: only what could be parsed is answered. *)
RunParsed ==
  /\ pc = "tools"
  /\ LET cs == SelectSeq(Last(msgs).calls, LAMBDA c : ~c.error)
     IN msgs' = Append(msgs, Tool([i \in 1..Len(cs) |-> [id |-> cs[i].id, error |-> FALSE]]))
  /\ round' = round + 1
  /\ pc' = "send"
  /\ UNCHANGED <<config, turn, closing, reminder, request, wire, history>>

(* The tools run; a call that could not be parsed is answered by its error. *)
RunTools ==
  /\ pc = "tools"
  /\ LET cs == Last(msgs).calls
     IN msgs' = Append(msgs, Tool([i \in 1..Len(cs) |-> [id |-> cs[i].id, error |-> cs[i].error]]))
  /\ round' = round + 1
  /\ pc' = "send"
  /\ UNCHANGED <<config, turn, closing, reminder, request, wire, history>>

Init ==
  /\ scene \in Scenes
  /\ options \in scene.options
  /\ pc = "idle" /\ turn = 0 /\ round = 1 /\ closing = FALSE
  /\ msgs = <<>> /\ reminder = FALSE
  /\ reply = <<>> /\ at = <<>> /\ buf = <<>> /\ index = <<>>
  /\ blocks = <<>> /\ calls = <<>> /\ text = FALSE
  /\ said = <<>> /\ attached = <<>> /\ loaded = FALSE
  /\ request = NoRequest

Turn == \E file \in scene.files : Begin(file)
Ask == \E r \in scene.replies : Send(r)
Arrive ==
  \E i \in 1..Len(reply) :
    \/ BlockStart(i)
    \/ BlockDelta(i)
    \/ SignatureDelta(i)
    \/ BlockStop(i)
    \/ ToolDelta(i)
    \/ TextDelta(i)
    \/ ItemDone(i)

Next ==
  \/ Turn
  \/ Ask
  \/ Arrive
  \/ AnthropicDone
  \/ ChatDone
  \/ ResponsesDone
  \/ AnthropicAnswer
  \/ ChatAnswer
  \/ ResponsesAnswer
  \/ Retry
  \/ RunTools
  \/ Refuse
  \/ Cut

Spec == Init /\ [][Next]_vars

-----------------------------------------------------------------------------
(* Properties *)

(* Every variable has its type, the messages their shape. *)
TypeOK ==
  /\ scene \in Scenes /\ options \in scene.options
  /\ pc \in {"idle", "send", "wire", "tools"}
  /\ turn \in 0..scene.turns /\ round \in 1..scene.rounds
  /\ {closing, reminder, text, loaded} \subseteq BOOLEAN
  /\ \A k \in 1..Len(msgs) :
       LET m == msgs[k]
       IN /\ m.role \in {"user", "assistant", "tool"}
          /\ m.role = "tool" <=> m.results # <<>>
          /\ m.calls # <<>> => m.role = "assistant" /\ pc # "idle"
          /\ m.file \in Files /\ (m.file # "none" => m.role = "user")
  /\ Len(at) = Len(reply) /\ Len(index) = Len(reply)
  /\ Len(attached) = turn /\ Len(said) <= round
  /\ pc = "wire" => request.sent

(* What a call's arguments mean to the one who runs it. *)
Understood(args) ==
  CASE args = "full" -> [args |-> "full", error |-> FALSE]
    [] args = "bent" -> [args |-> "repaired", error |-> FALSE]
    [] args = "empty" -> [args |-> "none", error |-> FALSE]
    [] OTHER -> [args |-> "none", error |-> scene.dialect # "responses"]

(* Out of the chunks of a round come the calls the provider made: each      *)
(* once, with its own arguments however its chunks mixed with those of      *)
(* others, and in its place unless the provider mixes calls. Arguments      *)
(* beyond repair are flagged, except by the Responses API (the buffers of   *)
(* generate_stream).                                                        *)
CallsRebuilt ==
  pc = "tools" =>
    LET made == CallsOf(Last(said))
        taken == Last(msgs).calls
    IN /\ Len(taken) = Len(made)
       /\ \A n \in 1..Len(made) :
            \E k \in 1..Len(taken) :
              /\ taken[k].id = IdOf(made[n])
              /\ taken[k].args = Understood(Last(said)[made[n]].args).args
              /\ taken[k].error = Understood(Last(said)[made[n]].args).error
              /\ taken[k].skill = Last(said)[made[n]].skill
              /\ ~scene.mixed => k = n

(* A provider refuses a request whose calls and results do not pair up: in  *)
(* every request of a round, each call has one result, behind it, with      *)
(* nothing of another round between, and each result has its call           *)
(* (_convert_messages of both adapters, prepare_for_save).                  *)
CallsAnswered ==
  request.sent /\ ~request.closing =>
    LET items == request.items
        Pos(kind) == {p \in 1..Len(items) : items[p].kind = kind}
    IN /\ \A p \in Pos("call") :
            Cardinality({q \in Pos("result") : items[q].of = items[p].of}) = 1
       /\ \A q \in Pos("result") :
            \E p \in Pos("call") :
              /\ p < q /\ items[p].of = items[q].of
              /\ \A x \in p..q : Len(items[x].of) > 1 /\ items[x].of[1] = items[p].of[1] /\ items[x].of[2] = items[p].of[2]

(* With thinking a provider wants its own blocks back: every round of the   *)
(* turn is in the request as it was answered, the thoughts with their       *)
(* signatures and the broken calls included ("始终记录 block", the DONE      *)
(* event of generate_stream).                                               *)
ReplayExact ==
  pc = "wire" /\ scene.dialect = "blocks" /\ scene.stream =>
    \A r \in 1..Len(said) :
      LET answer == said[r]
          shown == SelectSeq(request.items, LAMBDA x : x.who = "assistant" /\ x.of[1] = turn /\ x.of[2] = r)
          Expected(i) ==
            <<answer[i].kind, <<turn, r, i>>,
              CASE answer[i].kind = "call" -> Understood(answer[i].args).args
                [] answer[i].kind = "think" -> "signed"
                [] OTHER -> "">>
      IN answer # <<>> =>
           [n \in 1..Len(shown) |-> <<shown[n].kind, shown[n].of, shown[n].detail>>] =
           [i \in 1..Len(answer) |-> Expected(i)]

(* Nothing a user ever said or attached is missing from a request: the      *)
(* messages of all turns are there in their order, with the files that can  *)
(* be shown. The Responses API leaves out a PDF without text (_responses_-  *)
(* input, attachment_metadata, prepare_for_save).                           *)
NothingForgotten ==
  pc = "wire" =>
    \A t \in 1..turn :
      LET shown == {p \in 1..Len(request.items) : request.items[p].of = <<t, 0>>}
      IN /\ \E p \in shown : request.items[p].kind = "text" /\ request.items[p].detail = ""
         /\ (attached[t] \in {"image", "pdf"} \/ (attached[t] = "scan" /\ Anthropic)) =>
              \E p \in shown : request.items[p].kind \in {"image", "document"} \/ request.items[p].detail = "file"
         /\ \A u \in 1..(t - 1), p \in shown : \A q \in 1..Len(request.items) :
              request.items[q].of = <<u, 0>> => q < p

(* A turn that follows the loading of a skill is reminded of it, although   *)
(* the messages of the loading are gone (prepare_for_save,                  *)
(* detect_active_skill).                                                    *)
SkillReminded ==
  pc = "wire" /\ loaded => request.system[2].detail = "active_skill"

(* The requests of the rounds of a turn grow at their end only: the tools,  *)
(* the system prompt and every message stay as they were, or a provider's   *)
(* cache would miss. What changes is behind them ("保证 tools→system 缓存   *)
(* 前缀不被末轮卸工具打穿", tool_loop.py).                                   *)
Unmarked(items) == [i \in 1..Len(items) |-> [items[i] EXCEPT !.mark = FALSE]]
PrefixKept ==
  [][request.sent /\ request'.sent /\ ~request'.closing =>
       /\ request'.tools = request.tools
       /\ request'.system = request.system
       /\ IsPrefix(Unmarked(request.items), Unmarked(request'.items))]_vars

(* A request of the next round finds what the one before wrote to the       *)
(* cache: a mark of its own lies behind an old mark and within reach of it, *)
(* unless the round was longer than the provider looks back                 *)
(* (mark_messages_cache_breakpoints).                                       *)
CacheReused ==
  [][request.sent /\ request'.sent /\ request # request' /\ Anthropic /\ scene.cache
       /\ Len(request'.items) <= Len(request.items) + Reach =>
       \E p \in 1..Len(request.items), q \in 1..Len(request'.items) :
         /\ request.items[p].mark /\ request'.items[q].mark
         /\ p <= q /\ q - p <= Reach]_vars

(* No request has more marks than a provider allows, tools and system       *)
(* prompt included (allocate_message_cache_slots).                          *)
MarksWithinBudget ==
  LET marked(items) == Cardinality({i \in 1..Len(items) : items[i].mark})
  IN marked(request.items) + marked(request.system) + (IF request.tools = "marked" THEN 1 ELSE 0) <= 4

(* A provider refuses two sampling parameters at once, top_k or a low top_p *)
(* while it thinks, extended thinking at another temperature than 1 or      *)
(* without room for a text (pipeline.prepare and the adapters together).    *)
ParamsAllowed ==
  LET o == request.params
  IN /\ Cardinality({x \in {<<o.temperature = "none", "t">>, <<o.topP = "none", "p">>, <<~o.topK, "k">>} : ~x[1]}) <= 1
     /\ Anthropic /\ o.thinking # "off" => ~o.topK /\ o.topP # "low"
     /\ Anthropic /\ o.thinking = "on" => o.temperature \in {"one", "none"} /\ o.room

(* What the code does not do: see the README.                               *)

(* A temperature that is sent is the one that was asked for, if one was     *)
(* ("explicit top_p > explicit top_k > temperature/profile default",        *)
(* pipeline.py:351). The tool loop sends the adapter's default.             *)
TemperatureHeard ==
  request.sent /\ options.asked => request.params.temperature # "default"

(* A PDF whose text cannot be extracted fails the turn it came with instead *)
(* of being left out (docs/astra/2026-06-24-attachments-feature.md:129).    *)
ScanTold ==
  pc = "wire" /\ attached[turn] = "scan" =>
    \E p \in 1..Len(request.items) :
      request.items[p].of = <<turn, 0>> /\ request.items[p].kind = "document"

(* It fails that turn only: a turn without such a file can be sent (same    *)
(* line).                                                                   *)
RefusedAlone ==
  pc = "send" /\ attached[turn] # "scan" => Convertible(msgs)
=============================================================================
