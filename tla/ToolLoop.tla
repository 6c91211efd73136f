------------------------------ MODULE ToolLoop ------------------------------
(***************************************************************************)
(* One streamed turn of the tool loop: rounds of the model, the tool calls *)
(* of a round in batches, the task that drives each call, the sub-agents   *)
(* of a spawn_agents call, and the consumer that shows what they emit.     *)
(*                                                                         *)
(* The tasks of a batch share an unbounded queue, and a put never          *)
(* suspends: what a task does after its last await is one step. The        *)
(* consumer starts the next batch, or the next request to the model, in    *)
(* the step in which it takes the last end of a batch.                     *)
(***************************************************************************)
EXTENDS Naturals, Sequences, FiniteSets

CONSTANTS
  Replies,     \* what the model may answer: text or not, and a list of calls
  Limits,      \* max_iterations a turn may be configured with, 0: unlimited
  Budgets,     \* rounds the token budget pays for, 0: unlimited
  Modes,       \* approval, callback and soft_exec of a turn
  MaxAgents,   \* sub-agents of a spawn_agents call (5 in the code)
  MaxEvents,   \* bound: events a sub-agent forwards
  MaxRounds    \* bound: rounds after which an unlimited model stops calling

Kinds == {"lookup", "reference", "read", "edit", "ask", "confirm", "spawn"}

ASSUME ToolLoopAssumption ==
  /\ \A r \in Replies :
       /\ r.text \in BOOLEAN
       /\ r.calls \in Seq({r.calls[i] : i \in DOMAIN r.calls})
       /\ \A i \in 1..Len(r.calls) : r.calls[i].kind \in Kinds /\ r.calls[i].broken \in BOOLEAN
  /\ Modes \subseteq [approval : BOOLEAN, callback : BOOLEAN, soft : BOOLEAN]
  /\ {MaxAgents, MaxEvents, MaxRounds} \subseteq Nat \ {0}
  /\ Limits \subseteq 0..MaxRounds
  /\ Budgets \subseteq Nat

VARIABLES
  limit, budget, mode,   \* the configuration of the turn
  pc,          \* what the loop awaits, or how it ended
  msgs,        \* the messages of the session that belong to the turn
  round,       \* iterations
  used,        \* tokens, one a round
  batch,       \* the calls whose tasks have been created last
  phase,       \* where the task of a call is
  queue,       \* what the tasks of the batch emitted: <<call, what, detail>>
  done,        \* done_count
  results,     \* results_by_idx
  readFiles,   \* _read_files
  question,    \* calls and sub-agents with a question open to the user
  agent,       \* the sub-agents of the spawn_agents call at work
  spoken,      \* events each of them has forwarded
  inner,       \* their queue
  shown,       \* <<round, call>> whose result the user has been shown
  agentShown   \* what the user has been shown of each sub-agent

configVars == <<limit, budget, mode>>
turnVars == <<pc, msgs, round, used>>
batchVars == <<batch, phase, queue, done, results, readFiles, question>>
agentVars == <<agent, spoken, inner>>
viewVars == <<shown, agentShown>>
vars == <<configVars, turnVars, batchVars, agentVars, viewVars>>

-----------------------------------------------------------------------------
Slots == UNION {1..Len(r.calls) : r \in Replies}
Agents == 1..MaxAgents
Ended == {"done", "failed", "budget", "cancelled"}
Live == {"gates", "confirm", "exec", "ask"}

NoResult == [id |-> 0, out |-> "none"]

User == [role |-> "user", text |-> TRUE, calls |-> <<>>, results |-> <<>>]
Assistant(text, calls) ==
  [role |-> "assistant", text |-> text, calls |-> calls, results |-> <<>>]
Tool(rs) == [role |-> "tool", text |-> FALSE, calls |-> <<>>, results |-> rs]

Last == msgs[Len(msgs)]
Calls == Last.calls

(* What the tools are registered as. Only these two kinds may run beside    *)
(* others; whoever asks the user is registered as unsafe.                   *)
Safe(c) == c.kind \in {"lookup", "reference"}
PathsOf(c) == IF c.kind \in {"reference", "read", "edit"} THEN {c.path} ELSE {}
Conflict(c, d) == ~Safe(c) \/ ~Safe(d) \/ PathsOf(c) \intersect PathsOf(d) # {}

(* partition_tool_calls: the batch that begins with call k. An unsafe call  *)
(* is alone; safe ones go together until one shares a path with another.    *)
Batch(cs, k) ==
  {k} \union {m \in k..Len(cs) : \A i \in k..m, j \in k..m : i # j => ~Conflict(cs[i], cs[j])}

Init ==
  /\ limit \in Limits
  /\ budget \in Budgets
  /\ mode \in Modes
  /\ pc = "llm"
  /\ msgs = <<User>>
  /\ round = 1
  /\ used = 0
  /\ batch = {}
  /\ phase = [i \in Slots |-> "none"]
  /\ queue = <<>>
  /\ done = 0
  /\ results = [i \in Slots |-> NoResult]
  /\ readFiles = {}
  /\ question = {}
  /\ agent = [a \in Agents |-> "none"]
  /\ spoken = [a \in Agents |-> 0]
  /\ inner = <<>>
  /\ shown = {}
  /\ agentShown = [a \in Agents |-> "none"]

-----------------------------------------------------------------------------
(* The loop. *)

(* Tasks are created for the batch that begins with call k. *)
StartBatch(cs, k) ==
  /\ batch' = Batch(cs, k)
  /\ phase' = [i \in Slots |-> IF i \in Batch(cs, k) THEN "gates" ELSE phase[i]]
  /\ queue' = <<>>
  /\ done' = 0
  /\ agent' = [a \in Agents |-> "none"]
  /\ agentShown' = [a \in Agents |-> "none"]

Overspent == budget # 0 /\ used + 1 > budget

(* Mutant: one round of tools too many. *)
StopAfterOneMore == limit # 0 /\ round > limit

ShouldStopAfterTools == limit # 0 /\ round >= limit

Reply(r) ==
  /\ pc = "llm"
  /\ limit = 0 /\ round >= MaxRounds => r.calls = <<>>
  /\ used' = used + 1

(* The message of a round that exceeds the budget is dropped. *)
RunOut(r) ==
  /\ Reply(r)
  /\ Overspent
  /\ pc' = "budget"
  /\ UNCHANGED <<configVars, msgs, round, batchVars, agentVars, viewVars>>

CallTools(r) ==
  /\ Reply(r)
  /\ ~Overspent
  /\ r.calls # <<>>
  /\ ~ShouldStopAfterTools
  /\ msgs' = Append(msgs, Assistant(r.text, r.calls))
  /\ pc' = "tools"
  /\ StartBatch(r.calls, 1)
  /\ UNCHANGED <<configVars, round, results, readFiles, question, spoken, inner, shown>>

(* A reply without calls, or the last round. Without text the loop asks once *)
(* more, with every message so far and no tools.                            *)
LeaveLoop(r) ==
  /\ Reply(r)
  /\ ~Overspent
  /\ r.calls = <<>> \/ ShouldStopAfterTools
  /\ msgs' = Append(msgs, Assistant(r.text, r.calls))
  /\ pc' = IF r.text THEN "done" ELSE "closing"
  /\ UNCHANGED <<configVars, round, batchVars, agentVars, viewVars>>

Close ==
  /\ pc = "closing"
  /\ msgs' = Append(msgs, Assistant(TRUE, <<>>))
  /\ pc' = "done"
  /\ UNCHANGED <<configVars, round, used, batchVars, agentVars, viewVars>>

Fail ==
  /\ pc \in {"llm", "closing"}
  /\ pc' = "failed"
  /\ UNCHANGED <<configVars, msgs, round, used, batchVars, agentVars, viewVars>>

(* The consumer of run_streaming. *)
Take(what) ==
  /\ pc = "tools"
  /\ queue # <<>>
  /\ Head(queue)[2] = what

ShowResult ==
  /\ Take("result")
  /\ shown' = shown \union {<<round, Head(queue)[1]>>}
  /\ queue' = Tail(queue)
  /\ UNCHANGED <<configVars, turnVars, batch, phase, done, results, readFiles, question,
                 agentVars, agentShown>>

ShowAgent(what) ==
  /\ Take(what)
  /\ agentShown' = [agentShown EXCEPT ![Head(queue)[3]] = what]
  /\ queue' = Tail(queue)
  /\ UNCHANGED <<configVars, turnVars, batch, phase, done, results, readFiles, question,
                 agentVars, shown>>

IndexOf(i) == i

Collected ==
  LET i == Head(queue)[1] IN
  [results EXCEPT ![IndexOf(i)] = [id |-> i, out |-> Head(queue)[3]]]

TakeEnd ==
  /\ Take("end")
  /\ done + 1 < Cardinality(batch)
  /\ results' = Collected
  /\ queue' = Tail(queue)
  /\ done' = done + 1
  /\ UNCHANGED <<configVars, turnVars, batch, phase, readFiles, question, agentVars, viewVars>>

Following == 1 + Cardinality({i \in Slots : \E b \in batch : i <= b})

NextBatch ==
  /\ Take("end")
  /\ done + 1 = Cardinality(batch)
  /\ Following <= Len(Calls)
  /\ results' = Collected
  /\ StartBatch(Calls, Following)
  /\ UNCHANGED <<configVars, turnVars, readFiles, question, spoken, inner, shown>>

(* The results go to the session and the next round begins at once. *)
NextRound ==
  /\ Take("end")
  /\ done + 1 = Cardinality(batch)
  /\ Following > Len(Calls)
  /\ msgs' = Append(msgs, Tool([k \in 1..Len(Calls) |-> Collected[k]]))
  /\ pc' = "llm"
  /\ round' = round + 1
  /\ batch' = {}
  /\ phase' = [i \in Slots |-> IF phase[i] = "over" THEN "none" ELSE phase[i]]
  /\ results' = [i \in Slots |-> NoResult]
  /\ queue' = <<>>
  /\ done' = 0
  /\ UNCHANGED <<configVars, used, readFiles, question, agentVars, viewVars>>

-----------------------------------------------------------------------------
(* The task of call i. *)

unchangedByTasks == <<configVars, turnVars, batch, done, results, viewVars>>

(* Mutant: the end of a call is put before its result is shown. *)
EndBeforeResult(i, out) == << <<i, "end", out>>, <<i, "result", out>> >>

(* Mutant: nobody is told of a call that was refused. *)
EndsIfRun(i, out) ==
  IF phase[i] = "gates" THEN << <<i, "result", out>> >>
  ELSE << <<i, "result", out>>, <<i, "end", out>> >>

Report(i, out) == << <<i, "result", out>>, <<i, "end", out>> >>

Over(i, out) ==
  /\ phase' = [phase EXCEPT ![i] = "over"]
  /\ queue' = queue \o Report(i, out)

Kind(i) == Calls[i].kind
NeedsApproval(i) == Kind(i) = "confirm" /\ mode.approval

(* Bad JSON or arguments, a hook's answer, nobody to approve, a policy. *)
Refuse(i) ==
  /\ phase[i] = "gates"
  /\ Over(i, "error")
  /\ UNCHANGED <<readFiles, question, agentVars, unchangedByTasks>>

AskApproval(i) ==
  /\ phase[i] = "gates"
  /\ ~Calls[i].broken
  /\ NeedsApproval(i) /\ mode.callback
  /\ phase' = [phase EXCEPT ![i] = "confirm"]
  /\ question' = question \union {<<"call", i>>}
  /\ UNCHANGED <<queue, readFiles, agentVars, unchangedByTasks>>

(* The user says no, or nothing for too long; or agrees and the security    *)
(* policy, which comes after the question, does not.                        *)
Deny(i, out) ==
  /\ phase[i] = "confirm"
  /\ Over(i, out)
  /\ question' = question \ {<<"call", i>>}
  /\ UNCHANGED <<readFiles, agentVars, unchangedByTasks>>

(* The gates are passed: what happens up to the next await. *)
Preview(i) ==
  /\ Kind(i) = "confirm" /\ mode.soft
  /\ Over(i, "ok")
  /\ UNCHANGED agentVars

EditBlocked(i) ==
  /\ Kind(i) = "edit" /\ Calls[i].path \notin readFiles
  /\ Over(i, "error")
  /\ UNCHANGED agentVars

NobodyToAsk(i) ==
  /\ Kind(i) = "ask" /\ ~mode.callback
  /\ Over(i, "ok")
  /\ UNCHANGED agentVars

AskUser(i) ==
  /\ Kind(i) = "ask" /\ mode.callback
  /\ phase' = [phase EXCEPT ![i] = "ask"]
  /\ UNCHANGED <<queue, agentVars>>

NoAgents(i) ==
  /\ Kind(i) = "spawn"
  /\ Over(i, "error")
  /\ UNCHANGED agentVars

SpawnAgents(i) ==
  /\ Kind(i) = "spawn"
  /\ phase' = [phase EXCEPT ![i] = "exec"]
  /\ \E n \in Agents :
       /\ queue' = queue \o [a \in 1..n |-> <<i, "started", a>>]
       /\ agent' = [a \in Agents |-> IF a <= n THEN "run" ELSE "none"]
  /\ spoken' = [a \in Agents |-> 0]
  /\ inner' = <<>>

Execute(i) ==
  /\ \/ Kind(i) \in {"lookup", "reference", "read"}
     \/ Kind(i) = "confirm" /\ ~mode.soft
     \/ Kind(i) = "edit" /\ Calls[i].path \in readFiles
  /\ phase' = [phase EXCEPT ![i] = "exec"]
  /\ UNCHANGED <<queue, agentVars>>

Enter(i) ==
  /\ \/ Preview(i) \/ EditBlocked(i) \/ NobodyToAsk(i) \/ AskUser(i)
     \/ NoAgents(i) \/ SpawnAgents(i) \/ Execute(i)
  /\ question' = (question \ {<<"call", i>>})
                   \union IF phase'[i] = "ask" THEN {<<"call", i>>} ELSE {}
  /\ UNCHANGED <<readFiles, unchangedByTasks>>

PassGates(i) ==
  /\ phase[i] = "gates"
  /\ ~Calls[i].broken
  /\ ~NeedsApproval(i)
  /\ Enter(i)

Approve(i) ==
  /\ phase[i] = "confirm"
  /\ Enter(i)

(* Mutant: a read that failed counts, too. *)
TrackedAnyway(i, out) == IF Kind(i) = "read" THEN {Calls[i].path} ELSE {}

Tracked(i, out) == IF Kind(i) = "read" /\ out = "ok" THEN {Calls[i].path} ELSE {}

(* A tool returns, fails or is cut by asyncio.timeout (spawn_agents is       *)
(* exempt). A user who was asked answers, or the question times out.        *)
Return(i, out) ==
  /\ phase[i] \in {"exec", "ask"}
  /\ Kind(i) # "spawn"
  /\ Over(i, out)
  /\ readFiles' = readFiles \union Tracked(i, out)
  /\ question' = question \ {<<"call", i>>}
  /\ UNCHANGED <<agentVars, unchangedByTasks>>

(* spawn_agents forwards what its sub-agents put. *)
Forward(i) ==
  /\ phase[i] = "exec" /\ Kind(i) = "spawn"
  /\ inner # <<>>
  /\ inner' = Tail(inner)

ForwardEvent(i) ==
  /\ Forward(i)
  /\ Head(inner)[2] = "spoke"
  /\ queue' = Append(queue, <<i, "spoke", Head(inner)[1]>>)
  /\ UNCHANGED <<phase, readFiles, question, agent, spoken, unchangedByTasks>>

(* pending: whether the end at the head of the queue is the last one. *)
AllForwarded ==
  \A a \in Agents \ {Head(inner)[1]} :
    \/ agent[a] = "none"
    \/ agent[a] = "over" /\ \A k \in 1..Len(inner) : inner[k] # <<a, "ended">>

ForwardEnd(i) ==
  /\ Forward(i)
  /\ Head(inner)[2] = "ended"
  /\ LET ended == <<i, "ended", Head(inner)[1]>> IN
     IF AllForwarded
     THEN /\ phase' = [phase EXCEPT ![i] = "over"]
          /\ queue' = Append(queue, ended) \o Report(i, "ok")
     ELSE /\ queue' = Append(queue, ended)
          /\ UNCHANGED phase
  /\ UNCHANGED <<readFiles, question, agent, spoken, unchangedByTasks>>

TaskStep(i) ==
  \/ Refuse(i) \/ AskApproval(i) \/ PassGates(i) \/ Approve(i)
  \/ \E out \in {"ok", "error"} : Deny(i, out) \/ Return(i, out)
  \/ ForwardEvent(i) \/ ForwardEnd(i)

-----------------------------------------------------------------------------
(* The sub-agents, each a tool loop of its own. Their context has no        *)
(* callback to the user, and no spawn_agents among the tools.               *)

unchangedByAgents == <<configVars, turnVars, batch, phase, queue, done, results, readFiles,
                       viewVars>>

(* Mutant: sub-agents are given the context of their parent. *)
AsksAsParent(a) == IF mode.callback THEN {<<"agent", a>>} ELSE {}

Asks(a) == {}

AgentSpeaks(a) ==
  /\ agent[a] = "run"
  /\ spoken[a] < MaxEvents
  /\ spoken' = [spoken EXCEPT ![a] = @ + 1]
  /\ inner' = Append(inner, <<a, "spoke">>)
  /\ question' = question \union Asks(a)
  /\ UNCHANGED <<agent, unchangedByAgents>>

AgentEnds(a) ==
  /\ agent[a] = "run"
  /\ agent' = [agent EXCEPT ![a] = "over"]
  /\ inner' = Append(inner, <<a, "ended">>)
  /\ question' = question \ {<<"agent", a>>}
  /\ UNCHANGED <<spoken, unchangedByAgents>>

-----------------------------------------------------------------------------
(* The user stops the turn. *)

Cancel ==
  \/ /\ pc \in {"llm", "closing"}
     /\ pc' = "cancelled"
     /\ UNCHANGED <<configVars, msgs, round, used, batchVars, agentVars, viewVars>>
  \/ /\ pc = "tools"
     /\ pc' = "unwind"
     /\ phase' = [i \in Slots |-> IF phase[i] \in Live THEN "cut" ELSE phase[i]]
     /\ UNCHANGED <<configVars, msgs, round, used, batch, queue, done, results, readFiles,
                    question, agentVars, viewVars>>

(* CancelledError in the task of spawn_agents: it cancels the sub-agents... *)
CutAgents(i) ==
  /\ phase[i] = "cut"
  /\ Kind(i) = "spawn"
  /\ \E a \in Agents : agent[a] = "run"
  /\ agent' = [a \in Agents |-> IF agent[a] = "run" THEN "cut" ELSE agent[a]]
  /\ UNCHANGED <<phase, queue, readFiles, question, spoken, inner, unchangedByTasks>>

AgentUnwinds(a) ==
  /\ agent[a] = "cut"
  /\ agent' = [agent EXCEPT ![a] = "over"]
  /\ inner' = Append(inner, <<a, "ended">>)
  /\ question' = question \ {<<"agent", a>>}
  /\ UNCHANGED <<spoken, unchangedByAgents>>

AgentsAtWork == \E a \in Agents : agent[a] \in {"run", "cut"}

(* ...and waits for them. Any other task withdraws its question and ends.   *)
Unwind(i) ==
  /\ phase[i] = "cut"
  /\ Kind(i) = "spawn" => ~AgentsAtWork
  /\ phase' = [phase EXCEPT ![i] = "over"]
  /\ question' = question \ {<<"call", i>>}
  /\ UNCHANGED <<queue, readFiles, agentVars, unchangedByTasks>>

(* The consumer waits for its tasks before it lets the cancellation pass.   *)
Stop ==
  /\ pc = "unwind"
  /\ \A i \in Slots : phase[i] # "cut"
  /\ pc' = "cancelled"
  /\ UNCHANGED <<configVars, msgs, round, used, batchVars, agentVars, viewVars>>

LoopStep ==
  \/ \E r \in Replies : RunOut(r) \/ CallTools(r) \/ LeaveLoop(r)
  \/ Close \/ Fail
  \/ ShowResult \/ \E what \in {"started", "spoke", "ended"} : ShowAgent(what)
  \/ TakeEnd \/ NextBatch \/ NextRound
  \/ Stop

AgentStep(a) == AgentSpeaks(a) \/ AgentEnds(a) \/ AgentUnwinds(a)
CutStep(i) == CutAgents(i) \/ Unwind(i)

Next ==
  \/ LoopStep
  \/ \E i \in Slots : TaskStep(i) \/ CutStep(i)
  \/ \E a \in Agents : AgentStep(a)
  \/ Cancel

Spec == Init /\ [][Next]_vars

(* The provider's stream ends or fails, tools return or time out, questions *)
(* are answered or time out, and the loops of sub-agents are limited. A     *)
(* user need not stop anything.                                             *)
Fairness ==
  /\ WF_vars(LoopStep)
  /\ \A i \in Slots : WF_vars(TaskStep(i) \/ CutStep(i))
  /\ \A a \in Agents : WF_vars(AgentEnds(a) \/ AgentUnwinds(a))

FairSpec == Spec /\ Fairness
-----------------------------------------------------------------------------
(* Every variable has its type; the session alternates. *)
TypeOK ==
  /\ limit \in Limits /\ budget \in Budgets /\ mode \in Modes
  /\ pc \in {"llm", "tools", "closing", "unwind"} \union Ended
  /\ round \in 1..MaxRounds
  /\ used \in 0..MaxRounds
  /\ batch \subseteq Slots
  /\ phase \in [Slots -> {"none", "over", "cut"} \union Live]
  /\ done \in 0..Cardinality(batch)
  /\ \A i \in Slots : results[i].id \in {0} \union Slots /\ results[i].out \in {"none", "ok", "error"}
  /\ agent \in [Agents -> {"none", "run", "cut", "over"}]
  /\ spoken \in [Agents -> 0..MaxEvents]
  /\ agentShown \in [Agents -> {"none", "started", "spoke", "ended"}]
  /\ question \subseteq {<<"call", i>> : i \in Slots} \union {<<"agent", a>> : a \in Agents}
  /\ shown \subseteq (1..MaxRounds) \X Slots

(* In what a round of the main loop sends, the calls of each message are    *)
(* answered by the next message: one result per call, in the order of the   *)
(* calls, whatever order the tools ended in.                                *)
ResultsMatchCalls ==
  pc = "llm" =>
    \A n \in 1..Len(msgs) :
      msgs[n].calls # <<>> =>
        /\ n < Len(msgs)
        /\ Len(msgs[n+1].results) = Len(msgs[n].calls)
        /\ \A k \in 1..Len(msgs[n].calls) :
             msgs[n+1].results[k].id = k /\ msgs[n+1].results[k].out # "none"

(* Two calls of a round that are unsafe or share a path are not at work at  *)
(* once, and the later one starts after the earlier one is over.            *)
ConflictsInOrder ==
  pc = "tools" =>
    \A i, j \in 1..Len(Calls) :
      i < j /\ Conflict(Calls[i], Calls[j]) /\ phase[j] # "none" => phase[i] = "over"

(* The user has seen every result that the model is given. *)
ResultsShownFirst ==
  \A n \in 1..Len(msgs) :
    msgs[n].role = "tool" => \A k \in 1..Len(msgs[n].results) : <<(n - 1) \div 2, k>> \in shown

WasRead(p) ==
  \/ \E n \in 1..Len(msgs)-1, k \in Slots :
       /\ k <= Len(msgs[n].calls)
       /\ msgs[n].calls[k].kind = "read" /\ msgs[n].calls[k].path = p
       /\ msgs[n+1].role = "tool" /\ msgs[n+1].results[k].out = "ok"
  \/ \E k \in 1..Len(Calls) :
       Calls[k].kind = "read" /\ Calls[k].path = p /\ results[k].out = "ok"

(* A file is edited only if a read of it in this turn has succeeded and its *)
(* result is in the session, or will be with the results of this round.     *)
EditsFollowReads ==
  pc = "tools" =>
    \A i \in 1..Len(Calls) :
      Calls[i].kind = "edit" /\ phase[i] = "exec" => WasRead(Calls[i].path)

(* Once the result of spawn_agents is shown, every sub-agent that was shown *)
(* to start has been shown to end.                                          *)
AgentsReported ==
  pc = "tools" =>
    \A i \in batch :
      Calls[i].kind = "spawn" /\ <<round, i>> \in shown =>
        \A a \in Agents : agentShown[a] \in {"none", "ended"} /\ agent[a] \in {"none", "over"}

(* At most one question is open, since whoever asks runs alone and          *)
(* sub-agents cannot ask. A run has room for one (ActiveRun).               *)
OneQuestion == Cardinality(question) <= 1

(* While the model is asked and once a turn is over, however it ended, no   *)
(* task, no sub-agent and no question of it is left.                        *)
NothingLeftRunning ==
  pc \in Ended \union {"llm", "closing"} =>
    /\ \A i \in Slots : phase[i] \in {"none", "over"}
    /\ \A a \in Agents : agent[a] \in {"none", "over"}
    /\ question = {}

(* Neither the model is asked nor tools are run beyond the token budget;    *)
(* with a limit of n there are at most n rounds, and tools in n - 1.        *)
BudgetsHold ==
  /\ pc \in {"llm", "tools", "closing"} /\ budget # 0 => used <= budget
  /\ limit # 0 => round <= limit /\ (pc = "tools" => round < limit)

(* Calls of one reply run side by side as if one after the other: those that  *)
(* conflict in their order, an edit after the read that allows it             *)
(* (partition.py, ReadTrackedToolAdapter).                                    *)
ConflictsHarmless == ConflictsInOrder /\ EditsFollowReads

(* The model gets one result for each call, which the user has seen before it *)
(* and with it the end of each sub-agent (tool_scheduler.py).                 *)
ResultsComplete == TypeOK /\ ResultsMatchCalls /\ ResultsShownFirst /\ AgentsReported

(* One question at a time, and none left, nor any task or sub-agent, once     *)
(* the tools are over or cut short.                                           *)
NothingLeft == OneQuestion /\ NothingLeftRunning

(* Every turn ends, whatever its tools do and whenever it is stopped. *)
LoopEnds == <>(pc \in Ended)

-----------------------------------------------------------------------------
(* docs/工具循环踩坑记录.md:13: "Anthropic 要求每个 tool_use 都必须有对应的       *)
(* tool_result" (every tool_use must have its tool_result): in every        *)
(* request, the closing one included, the calls of each message are         *)
(* followed by their results.                                               *)
RequestsWellFormed ==
  pc \in {"llm", "closing"} =>
    \A n \in 1..Len(msgs) :
      msgs[n].calls # <<>> => n < Len(msgs) /\ msgs[n+1].role = "tool"
=============================================================================
