---------------------------- MODULE ToolLoop_proofs ----------------------------
(***************************************************************************)
(* What holds of the tool loop for any replies of the model, any number of *)
(* calls and sub-agents and any limits: batches keep the calls that        *)
(* conflict in order, the session gets one result for each call, budgets   *)
(* hold and nothing is left behind.                                        *)
(***************************************************************************)
EXTENDS ToolLoop, FiniteSetTheorems, TLAPS

-----------------------------------------------------------------------------
(* Parts of the inductive invariant. *)

Outs == {"ok", "error"}
CallLists == {r.calls : r \in Replies} \union {<<>>}
Results == [id : {0} \union Slots, out : {"none"} \union Outs]
Messages ==
  [role : {"user", "assistant", "tool"}, text : BOOLEAN, calls : CallLists, results : Seq(Results)]
CallEvents == Slots \X {"result", "end"} \X Outs
AgentEvents == Slots \X {"started", "spoke", "ended"} \X Agents

AtTools == pc \in {"tools", "unwind"}

(* What the messages and the queues hold, which TypeOK leaves open. *)
TypeInv ==
  /\ TypeOK
  /\ msgs \in Seq(Messages) /\ msgs # <<>>
  /\ IsFiniteSet(batch)
  /\ queue \in Seq(CallEvents \union AgentEvents)
  /\ results \in [Slots -> Results]
  /\ inner \in Seq(Agents \X {"spoke", "ended"})

(* A round is paid for when the model has answered, and its messages are the *)
(* last of the turn.                                                         *)
RoundInv ==
  /\ used <= round
  /\ pc = "llm" => used = round - 1 /\ Len(msgs) = 2 * round - 1 /\ Calls = <<>>
  /\ AtTools => used = round /\ Len(msgs) = 2 * round /\ Calls # <<>> /\ round < MaxRounds
  /\ limit # 0 => round <= limit /\ (AtTools => round < limit)
  /\ pc \in {"llm", "tools", "closing"} /\ budget # 0 => used <= budget

(* Tasks exist while tools run. *)
IdleInv ==
  /\ ~AtTools => \A i \in Slots : phase[i] \in {"none", "over"}
  /\ pc = "unwind" => \A i \in Slots : phase[i] \notin Live
  /\ pc # "unwind" => \A i \in Slots : phase[i] # "cut"
  /\ pc = "llm" => /\ batch = {} /\ queue = <<>> /\ done = 0
                   /\ \A i \in Slots : phase[i] = "none" /\ results[i] = NoResult

(* The batch begins with call m: those before it are over and taken, those   *)
(* after it have not begun.                                                  *)
At(m) ==
  /\ batch = Batch(Calls, m)
  /\ \A i \in 1..Len(Calls) : i < m => phase[i] = "over" /\ results[i].out # "none"
  /\ \A i \in Slots \ batch : i >= m => phase[i] = "none" /\ results[i] = NoResult
  /\ \A i \in batch : phase[i] # "none"

BatchInv == AtTools => \E m \in 1..Len(Calls) : At(m)

(* What the consumer has taken, and what waits for it: one end of a call,    *)
(* after its result.                                                         *)
Taken == {i \in batch : results[i].out # "none"}
IsEnd(k) == k \in 1..Len(queue) /\ queue[k][2] = "end"
IsResult(k) == k \in 1..Len(queue) /\ queue[k][2] = "result"

QueueInv ==
  pc = "tools" =>
    /\ done = Cardinality(Taken)
    /\ \A i \in Slots : results[i].out # "none" =>
         results[i].id = i /\ phase[i] = "over" /\ <<round, i>> \in shown
    /\ \A k \in 1..Len(queue) : queue[k][1] \in batch
    /\ \A k \in 1..Len(queue) : IsResult(k) => phase[queue[k][1]] = "over"
    /\ \A k \in 1..Len(queue) : IsEnd(k) =>
         /\ phase[queue[k][1]] = "over" /\ results[queue[k][1]].out = "none"
         /\ \A l \in 1..Len(queue) : IsEnd(l) /\ queue[l][1] = queue[k][1] => l = k
         /\ \/ <<round, queue[k][1]>> \in shown
            \/ \E l \in 1..k-1 : IsResult(l) /\ queue[l][1] = queue[k][1]

ShownInv ==
  /\ \A e \in shown : e[1] <= round /\ (pc = "llm" => e[1] < round)
  /\ pc = "tools" => \A i \in Slots : <<round, i>> \in shown => phase[i] = "over"

(* Whoever asks runs alone. *)
Asking(i) == batch = {i} /\ phase[i] \in {"confirm", "ask", "cut"}
QuestionInv ==
  \A x \in question : \E i \in Slots : x = <<"call", i>> /\ Asking(i)

(* A sub-agent is at work under the one call of the batch, which is at work. *)
Spawner(i) == batch = {i} /\ Kind(i) = "spawn"
AgentsInv ==
  /\ ~AtTools => \A a \in Agents : agent[a] \in {"none", "over"}
  /\ AtTools => \A a \in Agents : agent[a] # "none" =>
       \E i \in Slots : /\ Spawner(i)
                        /\ phase[i] \in {"exec", "cut", "over"}
                        /\ agent[a] # "over" => phase[i] \in {"exec", "cut"}
  /\ pc = "tools" => \A a \in Agents : agent[a] # "cut"

(* What a sub-agent puts is taken in order, its end last, and once it is     *)
(* over its end waits in one of the queues or has been shown.                *)
IsOf(k, a) == k \in 1..Len(queue) /\ queue[k][2] \in {"started", "spoke", "ended"} /\ queue[k][3] = a
EndOf(k, a) == k \in 1..Len(queue) /\ queue[k][2] = "ended" /\ queue[k][3] = a
AtEnd(a) == agentShown[a] = "ended" \/ \E k \in 1..Len(queue) : EndOf(k, a)

OutboxInv ==
  pc = "tools" => \A a \in Agents :
    /\ agent[a] = "none" => agentShown[a] = "none" /\ \A k \in 1..Len(queue) : ~IsOf(k, a)
    /\ agentShown[a] = "ended" => \A k \in 1..Len(queue) : ~IsOf(k, a)
    /\ \A k, l \in 1..Len(queue) : EndOf(k, a) /\ IsOf(l, a) => l <= k

InnerInv ==
  pc = "tools" => \A i \in Slots : Spawner(i) /\ phase[i] = "exec" => \A a \in Agents :
    /\ agent[a] # "over" => ~AtEnd(a) /\ \A k \in 1..Len(inner) : inner[k] # <<a, "ended">>
    /\ agent[a] = "none" \/ AtEnd(a) => \A k \in 1..Len(inner) : inner[k][1] # a
    /\ agent[a] = "over" => AtEnd(a) \/ \E k \in 1..Len(inner) : inner[k] = <<a, "ended">>
    /\ \A k, l \in 1..Len(inner) : inner[k] = <<a, "ended">> /\ inner[l][1] = a => l <= k

ReportInv ==
  pc = "tools" => \A i \in Slots : Spawner(i) => \A a \in Agents : agent[a] # "none" =>
    /\ <<round, i>> \in shown => agentShown[a] = "ended"
    /\ \A k \in 1..Len(queue) : IsResult(k) =>
         agentShown[a] = "ended" \/ \E l \in 1..k-1 : EndOf(l, a)

(* A file that counts as read was read by a call whose result the session    *)
(* has, or will have when the end that waits in the queue is taken.          *)
ReadPending(x) ==
  \E k \in 1..Len(queue) :
    /\ IsEnd(k) /\ queue[k][3] = "ok"
    /\ Calls[queue[k][1]].kind = "read" /\ Calls[queue[k][1]].path = x

ReadInv ==
  /\ pc \in {"llm", "tools"} => \A x \in readFiles : WasRead(x) \/ ReadPending(x)
  /\ EditsFollowReads

(* The messages of the rounds before. *)
Answered(n) ==
  /\ n < Len(msgs)
  /\ Len(msgs[n+1].results) = Len(msgs[n].calls)
  /\ \A k \in 1..Len(msgs[n].calls) :
       msgs[n+1].results[k].id = k /\ msgs[n+1].results[k].out # "none"

SessionInv ==
  /\ pc = "llm" => \A n \in 1..Len(msgs) : msgs[n].calls # <<>> => Answered(n)
  /\ pc = "tools" => \A n \in 1..Len(msgs)-1 : msgs[n].calls # <<>> => Answered(n)
  /\ ResultsShownFirst

-----------------------------------------------------------------------------
(* Sequences. *)

LEMMA TailParts ==
  ASSUME NEW S, NEW s \in Seq(S), s # <<>>
  PROVE  /\ Len(s) \in Nat /\ Len(s) >= 1 /\ Head(s) = s[1] /\ s[1] \in S
         /\ Tail(s) \in Seq(S) /\ Len(Tail(s)) = Len(s) - 1
         /\ \A k \in 1..Len(s)-1 : Tail(s)[k] = s[k+1]
OBVIOUS

LEMMA AppendParts ==
  ASSUME NEW S, NEW s \in Seq(S), NEW e \in S
  PROVE  /\ Append(s, e) \in Seq(S) /\ Len(Append(s, e)) = Len(s) + 1 /\ Len(s) \in Nat
         /\ \A k \in 1..Len(s) : Append(s, e)[k] = s[k]
         /\ Append(s, e)[Len(s) + 1] = e
OBVIOUS

LEMMA ConcatParts ==
  ASSUME NEW S, NEW s \in Seq(S), NEW t \in Seq(S)
  PROVE  /\ s \o t \in Seq(S) /\ Len(s \o t) = Len(s) + Len(t) /\ Len(s) \in Nat /\ Len(t) \in Nat
         /\ \A k \in 1..Len(s) : (s \o t)[k] = s[k]
         /\ \A k \in 1..Len(t) : (s \o t)[Len(s) + k] = t[k]
OBVIOUS

Events == CallEvents \union AgentEvents

LEMMA EventParts ==
  \A e \in Events :
    /\ e[1] \in Slots
    /\ e[2] \in {"result", "end", "started", "spoke", "ended"}
    /\ e[2] \in {"result", "end"} => e[3] \in Outs
    /\ e[2] \in {"started", "spoke", "ended"} => e[3] \in Agents
BY DEF Events, CallEvents, AgentEvents

(* The two events that end a call. *)
LEMMA ReportParts ==
  ASSUME NEW i \in Slots, NEW out \in Outs
  PROVE  /\ Report(i, out) \in Seq(Events) /\ Len(Report(i, out)) = 2
         /\ Report(i, out)[1] = <<i, "result", out>>
         /\ Report(i, out)[2] = <<i, "end", out>>
<1>1. <<i, "result", out>> \in Events /\ <<i, "end", out>> \in Events
  BY DEF Events, CallEvents
<1> QED
  BY <1>1 DEF Report

LEMMA ReportAdded ==
  ASSUME NEW s \in Seq(Events), NEW i \in Slots, NEW out \in Outs
  PROVE  /\ s \o Report(i, out) \in Seq(Events)
         /\ Len(s) \in Nat /\ Len(s \o Report(i, out)) = Len(s) + 2
         /\ \A k \in 1..Len(s) : (s \o Report(i, out))[k] = s[k]
         /\ (s \o Report(i, out))[Len(s) + 1] = <<i, "result", out>>
         /\ (s \o Report(i, out))[Len(s) + 2] = <<i, "end", out>>
<1> DEFINE r == Report(i, out)
<1>1. r \in Seq(Events) /\ Len(r) = 2 /\ r[1] = <<i, "result", out>> /\ r[2] = <<i, "end", out>>
  BY ReportParts
<1> HIDE DEF r
<1>2. r \in Seq(Events)
  BY <1>1
<1>3. /\ s \o r \in Seq(Events) /\ Len(s \o r) = Len(s) + Len(r) /\ Len(s) \in Nat
      /\ \A k \in 1..Len(s) : (s \o r)[k] = s[k]
      /\ \A k \in 1..Len(r) : (s \o r)[Len(s) + k] = r[k]
  BY <1>2, ConcatParts
<1>4. 1 \in 1..Len(r) /\ 2 \in 1..Len(r)
  BY <1>1
<1> QED
  BY <1>1, <1>3, <1>4 DEF r

-----------------------------------------------------------------------------
(* Calls and batches. *)

LEMMA ConstantParts ==
  /\ MaxAgents \in Nat /\ MaxEvents \in Nat /\ MaxRounds \in Nat /\ MaxRounds >= 1
  /\ \A x \in Limits : x \in Nat /\ x <= MaxRounds
  /\ \A x \in Budgets : x \in Nat
BY ToolLoopAssumption

LEMMA CallParts ==
  /\ \A cs \in CallLists :
       /\ Len(cs) \in Nat /\ (cs # <<>> => Len(cs) >= 1)
       /\ 1..Len(cs) \subseteq Slots
       /\ \A i \in 1..Len(cs) : cs[i].kind \in Kinds
  /\ \A i \in Slots : i \in Nat /\ i >= 1
  /\ \A i \in Slots : \A j \in 1..i : j \in Slots
<1>1. \A r \in Replies : /\ Len(r.calls) \in Nat
                         /\ r.calls # <<>> => Len(r.calls) >= 1
  BY ToolLoopAssumption
<1>2. \A r \in Replies : \A i \in 1..Len(r.calls) : r.calls[i].kind \in Kinds
  BY ToolLoopAssumption
<1>3. Len(<<>>) = 0
  OBVIOUS
<1> QED
  BY <1>1, <1>2, <1>3 DEF CallLists, Slots

(* A batch is a run of calls of which no two conflict. *)
LEMMA BatchParts ==
  ASSUME NEW cs \in CallLists, NEW m \in 1..Len(cs)
  PROVE  /\ Batch(cs, m) \subseteq m..Len(cs) /\ m \in Batch(cs, m)
         /\ Batch(cs, m) \subseteq Slots
         /\ IsFiniteSet(Batch(cs, m))
         /\ \A b \in Batch(cs, m) : \A j \in m..b : j \in Batch(cs, m)
         /\ \A i, j \in Batch(cs, m) : i # j => ~Conflict(cs[i], cs[j])
<1> USE CallParts
<1>1. Batch(cs, m) \subseteq m..Len(cs) /\ m \in Batch(cs, m)
  BY DEF Batch
<1>2. IsFiniteSet(Batch(cs, m))
  <2>1. IsFiniteSet(m..Len(cs))
    <3>1. m \in Int /\ Len(cs) \in Int
      OBVIOUS
    <3> QED
      BY <3>1, FS_Interval
  <2> QED
    BY <1>1, <2>1, FS_Subset
<1>3. \A b \in Batch(cs, m) : \A j \in m..b : j \in Batch(cs, m)
  BY DEF Batch
<1>4. ASSUME NEW i \in Batch(cs, m), NEW j \in Batch(cs, m), i # j
      PROVE  ~Conflict(cs[i], cs[j])
  <2>1. CASE i < j
    <3>1. j # m /\ i \in m..j /\ j \in m..j
      BY <2>1, <1>1
    <3> QED
      BY <3>1, <1>4 DEF Batch
  <2>2. CASE j < i
    <3>1. i # m /\ i \in m..i /\ j \in m..i
      BY <2>2, <1>1
    <3> QED
      BY <3>1, <1>4 DEF Batch
  <2> QED
    BY <2>1, <2>2, <1>1, <1>4
<1>5. Batch(cs, m) \subseteq Slots
  BY <1>1
<1> QED
  BY <1>1, <1>2, <1>3, <1>4, <1>5

(* An unsafe call is alone in its batch. *)
LEMMA UnsafeAlone ==
  ASSUME NEW cs \in CallLists, NEW m \in 1..Len(cs), NEW i \in Batch(cs, m), ~Safe(cs[i])
  PROVE  Batch(cs, m) = {i}
BY BatchParts DEF Conflict

(* The calls up to the last of a batch are those before Following. *)
LEMMA FollowingParts ==
  ASSUME NEW m \in 1..Len(Calls), Calls \in CallLists, batch = Batch(Calls, m)
  PROVE  /\ Following \in Nat /\ m < Following /\ Following <= Len(Calls) + 1
         /\ \A i \in Slots : i < Following <=> \E b \in batch : i <= b
         /\ \A i \in Slots : m <= i /\ i < Following => i \in batch
<1> USE CallParts
<1> DEFINE B == {i \in Slots : \E b \in batch : i <= b}
           c == Cardinality(B)
<1>1. batch \subseteq m..Len(Calls) /\ m \in batch /\ batch \subseteq Slots
  BY BatchParts, Zenon
<1>0. Len(Calls) \in Nat /\ m \in Nat
  BY SMT
<1>2. B \subseteq 1..Len(Calls) /\ m \in B
  <2>1. \A b \in batch : b \in Nat /\ b <= Len(Calls)
    BY <1>0, <1>1
  <2>2. \A i \in Slots : i \in Nat /\ i >= 1
    BY CallParts
  <2>3. m \in Slots /\ m <= m
    BY <1>0, <1>1
  <2>4. m \in B
    BY <2>3, <1>1
  <2>5. ASSUME NEW i \in Slots, NEW b \in batch, i <= b
        PROVE  i \in 1..Len(Calls)
    BY <1>0, <2>1, <2>2, <2>5
  <2> QED
    BY <2>4, <2>5
<1>3. IsFiniteSet(B) /\ c \in Nat
  <2>1. IsFiniteSet(1..Len(Calls))
    BY <1>0, FS_Interval
  <2>2. IsFiniteSet(B)
    BY <2>1, <1>2, FS_Subset
  <2> QED
    BY <2>2, FS_CardinalityType
<1>4. ASSUME NEW n \in B
      PROVE  n <= c
  <2>1. 1..n \subseteq B
    BY <1>1, <1>2
  <2>2. Cardinality(1..n) = n
    BY <1>2, FS_Interval
  <2> QED
    BY <2>1, <2>2, <1>3, FS_Subset
<1>5. B \subseteq 1..c
  BY <1>2, <1>3, <1>4
<1>6. IsFiniteSet(1..c) /\ Cardinality(1..c) = c
  BY <1>3, FS_Interval
<1>7. B = 1..c
  BY <1>5, <1>6, FS_Subset
<1>8. c <= Len(Calls)
  <2>1. Cardinality(1..Len(Calls)) = Len(Calls) /\ IsFiniteSet(1..Len(Calls))
    BY FS_Interval
  <2> QED
    BY <2>1, <1>2, FS_Subset
<1>9. Following = 1 + c
  BY DEF Following
<1>10. \A i \in Slots : i < Following <=> \E b \in batch : i <= b
  <2>1. \A i \in Slots : i \in B <=> \E b \in batch : i <= b
    OBVIOUS
  <2>2. \A i \in Slots : i \in 1..c <=> i < Following
    BY <1>9, <1>3
  <2> QED
    BY <2>1, <2>2, <1>7
<1>11. \A i \in Slots : m <= i /\ i < Following => i \in batch
  BY <1>10, <1>1, BatchParts
<1> HIDE DEF B, c
<1>12. m <= c
  BY <1>2, <1>4
<1> QED
  BY <1>3, <1>8, <1>9, <1>10, <1>11, <1>12

-----------------------------------------------------------------------------
(* The kinds of steps the invariants distinguish. *)

(* The loop goes on without tools, ends, or has waited for its tasks. *)
Rests ==
  /\ pc' \in Ended \union {"closing"}
  /\ \/ pc \in {"llm", "closing"}
     \/ pc = "unwind" /\ pc' = "cancelled" /\ \A i \in Slots : phase[i] # "cut"
  /\ \/ msgs' = msgs
     \/ \E m \in Messages : m.role = "assistant" /\ msgs' = Append(msgs, m)
  /\ \/ used' = used
     \/ pc = "llm" /\ used' = used + 1
  /\ pc' = "closing" => pc = "llm" /\ used' = used + 1 /\ ~Overspent
  /\ UNCHANGED <<configVars, round, batchVars, agentVars, viewVars>>

(* The task of call i is over and has reported. *)
Finishes(i, out) ==
  /\ phase[i] \in Live
  /\ Over(i, out)
  /\ \/ phase[i] = "gates" /\ question' = question
     \/ question' = question \ {<<"call", i>>}
  /\ \/ readFiles' = readFiles
     \/ Kind(i) = "read" /\ out = "ok" /\ readFiles' = readFiles \union {Calls[i].path}
  /\ Kind(i) = "spawn" => phase[i] \in {"gates", "confirm"}
  /\ UNCHANGED <<agentVars, unchangedByTasks>>

(* The task of call i goes on to its next await. *)
Waits(i, ph) ==
  /\ phase[i] \in {"gates", "confirm"}
  /\ phase' = [phase EXCEPT ![i] = ph]
  /\ \/ ph \in {"confirm", "ask"} /\ Kind(i) = ph
     \/ ph = "exec" /\ Kind(i) # "spawn" /\ (Kind(i) = "edit" => Calls[i].path \in readFiles)
  /\ question' = (question \ {<<"call", i>>})
                   \union IF ph = "exec" THEN {} ELSE {<<"call", i>>}
  /\ UNCHANGED <<queue, readFiles, agentVars, unchangedByTasks>>

Spawns(i) ==
  /\ phase[i] \in {"gates", "confirm"}
  /\ SpawnAgents(i)
  /\ question' = question \ {<<"call", i>>}
  /\ UNCHANGED <<readFiles, unchangedByTasks>>

WorkStep(i) ==
  \/ \E out \in Outs : Finishes(i, out)
  \/ \E ph \in {"confirm", "ask", "exec"} : Waits(i, ph)
  \/ Spawns(i)
  \/ ForwardEvent(i) \/ ForwardEnd(i)

(* The user stops a turn whose tools run. *)
Stops ==
  /\ pc = "tools"
  /\ pc' = "unwind"
  /\ phase' = [i \in Slots |-> IF phase[i] \in Live THEN "cut" ELSE phase[i]]
  /\ UNCHANGED <<configVars, msgs, round, used, batch, queue, done, results, readFiles,
                 question, agentVars, viewVars>>

LEMMA AssistantParts ==
  \A text \in BOOLEAN, cs \in CallLists : Assistant(text, cs) \in Messages
<1>1. <<>> \in Seq(Results)
  OBVIOUS
<1> QED
  BY <1>1 DEF Assistant, Messages

LEMMA RestsKinds ==
  ASSUME \/ \E r \in Replies : RunOut(r) \/ LeaveLoop(r)
         \/ Close \/ Fail \/ Stop
         \/ Cancel /\ pc # "tools"
  PROVE  Rests
<1>1. ASSUME NEW r \in Replies, RunOut(r)
      PROVE  Rests
  BY <1>1 DEF RunOut, Reply, Rests, Ended
<1>2. ASSUME NEW r \in Replies, LeaveLoop(r)
      PROVE  Rests
  <2>1. r.text \in BOOLEAN /\ r.calls \in CallLists
    BY ToolLoopAssumption DEF CallLists
  <2>2. Assistant(r.text, r.calls) \in Messages
    BY <2>1, AssistantParts
  <2>3. Assistant(r.text, r.calls).role = "assistant"
    BY DEF Assistant
  <2>4. pc = "llm" /\ used' = used + 1 /\ msgs' = Append(msgs, Assistant(r.text, r.calls))
        /\ ~Overspent /\ pc' \in {"done", "closing"}
        /\ UNCHANGED <<configVars, round, batchVars, agentVars, viewVars>>
    BY <1>2 DEF LeaveLoop, Reply
  <2> QED
    BY <2>2, <2>3, <2>4 DEF Rests, Ended
<1>3. ASSUME Close
      PROVE  Rests
  <2>1. Assistant(TRUE, <<>>) \in Messages /\ Assistant(TRUE, <<>>).role = "assistant"
    BY AssistantParts DEF Assistant, CallLists
  <2> QED
    BY <1>3, <2>1 DEF Close, Rests, Ended
<1>4. ASSUME Fail \/ Stop \/ (Cancel /\ pc # "tools")
      PROVE  Rests
  BY <1>4 DEF Fail, Stop, Cancel, Rests, Ended
<1> QED
  BY <1>1, <1>2, <1>3, <1>4

LEMMA EnterKinds ==
  ASSUME NEW i \in Slots, phase[i] \in {"gates", "confirm"}, TypeInv, Enter(i)
  PROVE  WorkStep(i)
<1>0. phase \in [Slots -> {"none", "over", "cut"} \union Live]
  BY DEF TypeInv, TypeOK
<1>1. ASSUME Preview(i) \/ EditBlocked(i) \/ NobodyToAsk(i) \/ NoAgents(i)
      PROVE  WorkStep(i)
  <2>1. \E out \in Outs : Over(i, out)
    BY <1>1 DEF Preview, EditBlocked, NobodyToAsk, NoAgents, Outs
  <2>2. PICK out \in Outs : Over(i, out)
    BY <2>1
  <2>3. phase'[i] = "over"
    BY <1>0, <2>2 DEF Over
  <2>4. question' = question \ {<<"call", i>>} /\ UNCHANGED <<readFiles, unchangedByTasks>>
    BY <2>3 DEF Enter
  <2>5. UNCHANGED agentVars
    BY <1>1 DEF Preview, EditBlocked, NobodyToAsk, NoAgents
  <2>6. Finishes(i, out)
    BY <2>2, <2>4, <2>5 DEF Finishes, Live
  <2> QED
    BY <2>6 DEF WorkStep
<1>2. ASSUME AskUser(i)
      PROVE  WorkStep(i)
  <2>1. phase' = [phase EXCEPT ![i] = "ask"] /\ Kind(i) = "ask" /\ UNCHANGED <<queue, agentVars>>
    BY <1>2 DEF AskUser
  <2>2. phase'[i] = "ask"
    BY <1>0, <2>1
  <2>3. question' = (question \ {<<"call", i>>}) \union {<<"call", i>>}
        /\ UNCHANGED <<readFiles, unchangedByTasks>>
    BY <2>2 DEF Enter
  <2>4. Waits(i, "ask")
    BY <2>1, <2>3 DEF Waits
  <2> QED
    BY <2>4 DEF WorkStep
<1>3. ASSUME Execute(i)
      PROVE  WorkStep(i)
  <2>1. /\ phase' = [phase EXCEPT ![i] = "exec"] /\ UNCHANGED <<queue, agentVars>>
        /\ Kind(i) # "spawn" /\ (Kind(i) = "edit" => Calls[i].path \in readFiles)
    BY <1>3 DEF Execute
  <2>2. phase'[i] = "exec"
    BY <1>0, <2>1
  <2>3. question' = (question \ {<<"call", i>>}) \union {}
        /\ UNCHANGED <<readFiles, unchangedByTasks>>
    BY <2>2 DEF Enter
  <2>4. Waits(i, "exec")
    BY <2>1, <2>3 DEF Waits
  <2> QED
    BY <2>4 DEF WorkStep
<1>4. ASSUME SpawnAgents(i)
      PROVE  WorkStep(i)
  <2>1. phase'[i] = "exec"
    BY <1>0, <1>4 DEF SpawnAgents
  <2>2. question' = question \ {<<"call", i>>} /\ UNCHANGED <<readFiles, unchangedByTasks>>
    BY <2>1 DEF Enter
  <2> QED
    BY <1>4, <2>2 DEF Spawns, WorkStep
<1> QED
  BY <1>1, <1>2, <1>3, <1>4 DEF Enter

LEMMA WorkKinds ==
  ASSUME NEW i \in Slots, TypeInv, TaskStep(i)
  PROVE  phase[i] \in Live /\ WorkStep(i)
<1>1. CASE Refuse(i)
  <2>1. Finishes(i, "error")
    BY <1>1 DEF Refuse, Finishes, Live
  <2> QED
    BY <2>1 DEF Finishes, WorkStep, Outs
<1>2. CASE AskApproval(i)
  <2>1. Waits(i, "confirm")
    BY <1>2 DEF AskApproval, NeedsApproval, Waits
  <2> QED
    BY <2>1 DEF Waits, WorkStep, Live
<1>3. CASE PassGates(i) \/ Approve(i)
  <2>1. phase[i] \in {"gates", "confirm"} /\ Enter(i)
    BY <1>3 DEF PassGates, Approve
  <2> QED
    BY <2>1, EnterKinds DEF Live
<1>4. ASSUME NEW out \in Outs, Deny(i, out)
      PROVE  phase[i] \in Live /\ WorkStep(i)
  <2>1. Finishes(i, out)
    BY <1>4 DEF Deny, Finishes, Live
  <2> QED
    BY <2>1 DEF Finishes, WorkStep
<1>5. ASSUME NEW out \in Outs, Return(i, out)
      PROVE  phase[i] \in Live /\ WorkStep(i)
  <2>1. \/ readFiles' = readFiles
        \/ Kind(i) = "read" /\ out = "ok" /\ readFiles' = readFiles \union {Calls[i].path}
    BY <1>5 DEF Return, Tracked
  <2>2. Finishes(i, out)
    BY <1>5, <2>1 DEF Return, Finishes, Live
  <2> QED
    BY <2>2 DEF Finishes, WorkStep
<1>6. CASE ForwardEvent(i) \/ ForwardEnd(i)
  <2>1. phase[i] \in Live
    BY <1>6 DEF ForwardEvent, ForwardEnd, Forward, Live
  <2> QED
    BY <1>6, <2>1 DEF WorkStep
<1> QED
  BY <1>1, <1>2, <1>3, <1>4, <1>5, <1>6 DEF TaskStep, Outs

LEMMA CallsParts ==
  ASSUME TypeInv
  PROVE  /\ Len(msgs) \in Nat /\ Len(msgs) >= 1 /\ Last \in Messages
         /\ Calls \in CallLists /\ Len(Calls) \in Nat /\ 1..Len(Calls) \subseteq Slots
<1>1. msgs \in Seq(Messages) /\ msgs # <<>>
  BY DEF TypeInv
<1>2. Len(msgs) \in Nat /\ Len(msgs) >= 1 /\ msgs[Len(msgs)] \in Messages
  BY <1>1
<1>3. Calls \in CallLists
  BY <1>2 DEF Calls, Last, Messages
<1> QED
  BY <1>2, <1>3, CallParts DEF Last

(* A call at work is one of the batch, and tools run. *)
LEMMA LiveParts ==
  ASSUME TypeInv, IdleInv, BatchInv, NEW i \in Slots, phase[i] \in Live \union {"cut"}
  PROVE  /\ AtTools /\ i \in batch
         /\ phase[i] \in Live => pc = "tools"
         /\ phase[i] = "cut" => pc = "unwind"
<1>1. AtTools /\ (phase[i] \in Live => pc = "tools") /\ (phase[i] = "cut" => pc = "unwind")
  BY DEF IdleInv, AtTools, Live
<1>2. PICK m \in 1..Len(Calls) : At(m)
  BY <1>1 DEF BatchInv
<1>3. i \in Nat /\ m \in Nat /\ i >= 1 /\ Len(Calls) \in Nat
  BY CallsParts, CallParts
<1>4. CASE i < m
  <2>1. i \in 1..Len(Calls) /\ phase[i] = "over"
    BY <1>2, <1>3, <1>4 DEF At
  <2> QED
    BY <2>1 DEF Live
<1>5. CASE i >= m
  BY <1>1, <1>2, <1>5 DEF At, Live
<1> QED
  BY <1>3, <1>4, <1>5

LEMMA StepKinds ==
  ASSUME TypeInv, IdleInv, BatchInv, Next
  PROVE  \/ Rests
         \/ \E r \in Replies : CallTools(r)
         \/ ShowResult \/ \E what \in {"started", "spoke", "ended"} : ShowAgent(what)
         \/ TakeEnd \/ NextBatch \/ NextRound
         \/ \E i \in batch : pc = "tools" /\ phase[i] \in Live /\ WorkStep(i)
         \/ \E i \in batch : pc = "unwind" /\ CutStep(i)
         \/ \E a \in Agents : AgentStep(a)
         \/ Stops
<1>1. CASE LoopStep
  BY <1>1, RestsKinds DEF LoopStep
<1>2. ASSUME NEW i \in Slots, TaskStep(i)
      PROVE  i \in batch /\ pc = "tools" /\ phase[i] \in Live /\ WorkStep(i)
  BY <1>2, WorkKinds, LiveParts
<1>3. ASSUME NEW i \in Slots, CutStep(i)
      PROVE  i \in batch /\ pc = "unwind"
  BY <1>3, LiveParts DEF CutStep, CutAgents, Unwind
<1>4. CASE Cancel
  <2>1. CASE pc = "tools"
    BY <2>1, <1>4 DEF Cancel, Stops
  <2>2. CASE pc # "tools"
    BY <2>2, <1>4, RestsKinds
  <2> QED
    BY <2>1, <2>2
<1> QED
  BY <1>1, <1>2, <1>3, <1>4 DEF Next

-----------------------------------------------------------------------------
(* What a step leaves alone. *)

SameTurn == UNCHANGED <<configVars, msgs, round, used>>

LEMMA WorkParts ==
  ASSUME NEW i \in Slots, WorkStep(i)
  PROVE  /\ UNCHANGED <<configVars, turnVars, batch, done, results, viewVars>>
         /\ Calls' = Calls
  BY DEF WorkStep, Finishes, Waits, Spawns, ForwardEvent, ForwardEnd, unchangedByTasks, turnVars,
         configVars, viewVars, Calls, Last

LEMMA AgentParts ==
  ASSUME NEW a \in Agents, AgentStep(a)
  PROVE  /\ UNCHANGED <<configVars, turnVars, batch, phase, queue, done, results, readFiles,
                        viewVars>>
         /\ question' \subseteq question /\ Calls' = Calls
  BY DEF AgentStep, AgentSpeaks, AgentEnds, AgentUnwinds, Asks, unchangedByAgents, turnVars,
         configVars, viewVars, Calls, Last

LEMMA CutParts ==
  ASSUME NEW i \in Slots, CutStep(i)
  PROVE  /\ UNCHANGED <<configVars, turnVars, batch, queue, done, results, readFiles, viewVars>>
         /\ Calls' = Calls
  BY DEF CutStep, CutAgents, Unwind, unchangedByTasks, turnVars, configVars, viewVars, Calls, Last

LEMMA TakeParts ==
  ASSUME ShowResult \/ TakeEnd \/ \E what \in {"started", "spoke", "ended"} : ShowAgent(what)
  PROVE  /\ UNCHANGED <<configVars, turnVars, batch, phase, readFiles, question, agentVars>>
         /\ pc = "tools" /\ queue # <<>> /\ queue' = Tail(queue) /\ Calls' = Calls
  BY DEF ShowResult, TakeEnd, ShowAgent, Take, turnVars, Calls, Last

LEMMA CallToolsParts ==
  ASSUME TypeInv, NEW r \in Replies, CallTools(r)
  PROVE  /\ pc = "llm" /\ pc' = "tools" /\ r.calls # <<>> /\ r.calls \in CallLists
         /\ msgs' = Append(msgs, Assistant(r.text, r.calls))
         /\ msgs' \in Seq(Messages) /\ Len(msgs') = Len(msgs) + 1
         /\ Calls' = r.calls /\ 1 \in 1..Len(r.calls)
         /\ \A n \in 1..Len(msgs) : msgs'[n] = msgs[n]
         /\ msgs'[Len(msgs')] = Assistant(r.text, r.calls)
<1>1. pc = "llm" /\ pc' = "tools" /\ r.calls # <<>> /\ msgs' = Append(msgs, Assistant(r.text, r.calls))
  BY DEF CallTools, Reply
<1>2. r.text \in BOOLEAN /\ r.calls \in CallLists
  BY ToolLoopAssumption DEF CallLists
<1>3. Assistant(r.text, r.calls) \in Messages
  BY <1>2, AssistantParts
<1>4. msgs \in Seq(Messages)
  BY DEF TypeInv
<1>5. /\ msgs' \in Seq(Messages) /\ Len(msgs') = Len(msgs) + 1
      /\ \A n \in 1..Len(msgs) : msgs'[n] = msgs[n]
      /\ msgs'[Len(msgs')] = Assistant(r.text, r.calls)
  BY <1>1, <1>3, <1>4, AppendParts
<1>6. Calls' = r.calls
  BY <1>5 DEF Calls, Last, Assistant
<1>7. 1 \in 1..Len(r.calls)
  BY <1>1, <1>2, CallParts
<1> QED
  BY <1>1, <1>2, <1>5, <1>6, <1>7

-----------------------------------------------------------------------------
(* Rounds and budgets. *)

LEMMA RoundInit == Init => RoundInv
  BY ConstantParts DEF Init, RoundInv, AtTools, Calls, Last, User

LEMMA RoundStep ==
  ASSUME TypeInv, RoundInv, IdleInv, BatchInv, [Next]_vars
  PROVE  RoundInv'
<1>0. /\ round \in 1..MaxRounds /\ used \in 0..MaxRounds
      /\ limit \in Nat /\ budget \in Nat /\ Len(msgs) \in Nat
      /\ limit <= MaxRounds /\ MaxRounds \in Nat
  BY ConstantParts, CallsParts DEF TypeInv, TypeOK
<1>1. CASE Rests
  BY <1>0, <1>1 DEF Rests, RoundInv, AtTools, Ended, configVars, Overspent
<1>2. ASSUME NEW r \in Replies, CallTools(r)
      PROVE  RoundInv'
  <2>1. /\ UNCHANGED <<limit, budget, round>> /\ used' = used + 1
        /\ limit = 0 => round < MaxRounds
        /\ limit # 0 => round < limit
        /\ budget # 0 => used + 1 <= budget
    <3>1. UNCHANGED <<limit, budget, round>> /\ used' = used + 1 /\ r.calls # <<>>
          /\ ~Overspent /\ ~ShouldStopAfterTools /\ (limit = 0 /\ round >= MaxRounds => r.calls = <<>>)
      BY <1>2 DEF CallTools, Reply, configVars
    <3> QED
      BY <3>1, <1>0 DEF Overspent, ShouldStopAfterTools
  <2>2. pc = "llm" /\ pc' = "tools" /\ Len(msgs') = Len(msgs) + 1 /\ Calls' # <<>>
    BY <1>2, CallToolsParts
  <2>3. used = round - 1 /\ Len(msgs) = 2 * round - 1
    BY <2>2 DEF RoundInv
  <2> QED
    BY <1>0, <2>1, <2>2, <2>3 DEF RoundInv, AtTools
<1>3. CASE NextRound
  <2>1. /\ UNCHANGED <<limit, budget, used>> /\ round' = round + 1 /\ pc = "tools" /\ pc' = "llm"
        /\ msgs' = Append(msgs, Tool([k \in 1..Len(Calls) |-> Collected[k]]))
    BY <1>3 DEF NextRound, Take, configVars
  <2>2. used = round /\ Len(msgs) = 2 * round /\ round < MaxRounds /\ (limit # 0 => round < limit)
        /\ (budget # 0 => used <= budget)
    BY <2>1 DEF RoundInv, AtTools
  <2>3. Len(msgs') = Len(msgs) + 1 /\ msgs'[Len(msgs) + 1] = Tool([k \in 1..Len(Calls) |-> Collected[k]])
    BY <2>1 DEF TypeInv
  <2>4. Calls' = <<>>
    BY <2>3 DEF Calls, Last, Tool
  <2> QED
    BY <1>0, <2>1, <2>2, <2>3, <2>4 DEF RoundInv, AtTools
<1>4. CASE ShowResult \/ TakeEnd \/ \E what \in {"started", "spoke", "ended"} : ShowAgent(what)
  BY <1>4, TakeParts DEF RoundInv, AtTools, turnVars, configVars
<1>5. CASE NextBatch
  BY <1>5 DEF NextBatch, RoundInv, AtTools, turnVars, configVars, Calls, Last
<1>6. CASE \E i \in batch : WorkStep(i) \/ CutStep(i)
  <2>1. batch \subseteq Slots
    BY DEF TypeInv, TypeOK
  <2>2. UNCHANGED <<configVars, turnVars>> /\ Calls' = Calls
    BY <1>6, <2>1, WorkParts, CutParts
  <2> QED
    BY <2>2 DEF RoundInv, AtTools, turnVars, configVars
<1>7. CASE \E a \in Agents : AgentStep(a)
  BY <1>7, AgentParts DEF RoundInv, AtTools, turnVars, configVars
<1>8. CASE Stops
  BY <1>8 DEF Stops, RoundInv, AtTools, configVars, Calls, Last
<1>9. CASE UNCHANGED vars
  BY <1>9 DEF RoundInv, AtTools, vars, turnVars, configVars, Calls, Last
<1> QED
  BY <1>1, <1>2, <1>3, <1>4, <1>5, <1>6, <1>7, <1>8, <1>9, StepKinds

-----------------------------------------------------------------------------
(* The end of a call. *)

LEMMA QueueHead ==
  ASSUME TypeInv, queue # <<>>
  PROVE  /\ queue \in Seq(Events) /\ Head(queue) = queue[1] /\ queue[1] \in Events
         /\ Len(queue) \in Nat /\ Len(queue) >= 1
         /\ Tail(queue) \in Seq(Events) /\ Len(Tail(queue)) = Len(queue) - 1
         /\ \A k \in 1..Len(queue)-1 : Tail(queue)[k] = queue[k+1]
<1>1. queue \in Seq(Events)
  BY DEF TypeInv, Events
<1> QED
  BY <1>1, TailParts

LEMMA EndParts ==
  ASSUME TypeInv, QueueInv, Take("end"), NEW h, h = Head(queue)[1]
  PROVE  /\ h \in batch /\ h \in Slots /\ phase[h] = "over" /\ results[h].out = "none"
         /\ <<round, h>> \in shown
         /\ queue[1][1] = h /\ queue[1][2] = "end" /\ queue[1][3] \in Outs
         /\ Collected \in [Slots -> Results]
         /\ Collected[h] = [id |-> h, out |-> queue[1][3]]
         /\ \A j \in Slots : j # h => Collected[j] = results[j]
         /\ {i \in batch : Collected[i].out # "none"} = Taken \union {h}
         /\ Cardinality(Taken \union {h}) = done + 1
<1>1. pc = "tools" /\ queue # <<>> /\ Head(queue)[2] = "end"
  BY DEF Take
<1>2. /\ queue[1] \in Events /\ Head(queue) = queue[1] /\ Len(queue) \in Nat /\ Len(queue) >= 1
      /\ 1 \in 1..Len(queue)
  BY <1>1, QueueHead
<1>3. h = queue[1][1] /\ queue[1][2] = "end" /\ queue[1][3] \in Outs /\ h \in Slots
  BY <1>1, <1>2, EventParts
<1>4. IsEnd(1)
  BY <1>2, <1>3 DEF IsEnd
<1>5. h \in batch /\ phase[h] = "over" /\ results[h].out = "none"
  <2>1. \A k \in 1..Len(queue) : queue[k][1] \in batch
    BY <1>1 DEF QueueInv
  <2>2. \A k \in 1..Len(queue) :
          IsEnd(k) => phase[queue[k][1]] = "over" /\ results[queue[k][1]].out = "none"
    BY <1>1 DEF QueueInv
  <2> QED
    BY <1>2, <1>3, <1>4, <2>1, <2>2
<1>6. <<round, h>> \in shown
  <2>1. <<round, queue[1][1]>> \in shown \/ \E l \in 1..1-1 : IsResult(l) /\ queue[l][1] = queue[1][1]
    BY <1>1, <1>2, <1>4 DEF QueueInv
  <2> QED
    BY <2>1, <1>3
<1>7. results \in [Slots -> Results]
  BY DEF TypeInv
<1>8. Collected = [results EXCEPT ![h] = [id |-> h, out |-> queue[1][3]]]
  BY <1>2, <1>3 DEF Collected, IndexOf
<1>9. [id |-> h, out |-> queue[1][3]] \in Results
  BY <1>3 DEF Results
<1>10. /\ Collected \in [Slots -> Results]
       /\ Collected[h] = [id |-> h, out |-> queue[1][3]]
       /\ \A j \in Slots : j # h => Collected[j] = results[j]
  BY <1>3, <1>7, <1>8, <1>9
<1>11. Collected[h].out # "none"
  BY <1>3, <1>10 DEF Outs
<1>12. batch \subseteq Slots /\ IsFiniteSet(batch)
  BY DEF TypeInv, TypeOK
<1>13. {i \in batch : Collected[i].out # "none"} = Taken \union {h}
  BY <1>5, <1>10, <1>11, <1>12 DEF Taken
<1>14. Cardinality(Taken \union {h}) = done + 1
  <2>1. IsFiniteSet(Taken) /\ h \notin Taken
    BY <1>5, <1>12, FS_Subset DEF Taken
  <2>2. done = Cardinality(Taken)
    BY <1>1 DEF QueueInv
  <2> QED
    BY <2>1, <2>2, FS_AddElement
<1> QED
  BY <1>3, <1>5, <1>6, <1>10, <1>13, <1>14

(* With the last end of a batch every call of it is over and shown, and no   *)
(* other end waits.                                                          *)
LEMMA LastEndParts ==
  ASSUME TypeInv, QueueInv, Take("end"), done + 1 = Cardinality(batch)
  PROVE  /\ \A i \in batch : /\ Collected[i].out # "none" /\ Collected[i].id = i
                             /\ phase[i] = "over" /\ <<round, i>> \in shown
         /\ \A k \in 1..Len(queue) : IsEnd(k) => k = 1
<1> DEFINE h == Head(queue)[1]
<1>1. /\ h \in batch /\ h \in Slots /\ phase[h] = "over" /\ <<round, h>> \in shown
      /\ queue[1][1] = h /\ queue[1][3] \in Outs
      /\ Collected[h] = [id |-> h, out |-> queue[1][3]]
      /\ \A j \in Slots : j # h => Collected[j] = results[j]
      /\ {i \in batch : Collected[i].out # "none"} = Taken \union {h}
      /\ Cardinality(Taken \union {h}) = done + 1
      /\ queue[1][2] = "end"
  BY EndParts
<1>0. pc = "tools" /\ queue # <<>>
  BY DEF Take
<1>2. batch \subseteq Slots /\ IsFiniteSet(batch)
  BY DEF TypeInv, TypeOK
<1> HIDE DEF h
<1>3. Taken \union {h} = batch
  <2>1. Taken \union {h} \subseteq batch
    BY <1>1 DEF Taken
  <2> QED
    BY <2>1, <1>1, <1>2, FS_Subset
<1>4. \A i \in batch : i = h \/ results[i].out # "none"
  BY <1>3 DEF Taken
<1>5. \A i \in batch : /\ Collected[i].out # "none" /\ Collected[i].id = i
                       /\ phase[i] = "over" /\ <<round, i>> \in shown
  <2> SUFFICES ASSUME NEW i \in batch
               PROVE  /\ Collected[i].out # "none" /\ Collected[i].id = i
                      /\ phase[i] = "over" /\ <<round, i>> \in shown
    OBVIOUS
  <2>1. CASE i = h
    BY <2>1, <1>1 DEF Outs
  <2>2. CASE i # h
    <3>1. results[i].out # "none" /\ i \in Slots
      BY <2>2, <1>2, <1>4
    <3> QED
      BY <3>1, <2>2, <1>1, <1>0 DEF QueueInv
  <2> QED
    BY <2>1, <2>2
<1>6. ASSUME NEW k \in 1..Len(queue), IsEnd(k)
      PROVE  k = 1
  <2>1. queue[k][1] \in batch /\ results[queue[k][1]].out = "none"
    BY <1>0, <1>6 DEF QueueInv
  <2>2. queue[k][1] = h
    BY <2>1, <1>4
  <2>3. IsEnd(1) /\ 1 \in 1..Len(queue)
    BY <1>0, <1>1, QueueHead DEF IsEnd
  <2> QED
    BY <2>2, <2>3, <1>0, <1>1, <1>6 DEF QueueInv
<1> QED
  BY <1>5, <1>6

(* ... and so is every call before it, while the others have not begun. *)
LEMMA SweepParts ==
  ASSUME TypeInv, BatchInv, QueueInv, Take("end"), done + 1 = Cardinality(batch)
  PROVE  /\ Following \in Nat /\ 1 < Following /\ Following <= Len(Calls) + 1
         /\ \A i \in Slots : i < Following =>
              /\ Collected[i].out # "none" /\ Collected[i].id = i
              /\ phase[i] = "over" /\ <<round, i>> \in shown
         /\ \A i \in Slots : i >= Following => phase[i] = "none" /\ Collected[i] = NoResult
<1>0. pc = "tools" /\ AtTools
  BY DEF Take, AtTools
<1>1. PICK m \in 1..Len(Calls) : At(m)
  BY <1>0 DEF BatchInv
<1>2. Calls \in CallLists /\ Len(Calls) \in Nat /\ 1..Len(Calls) \subseteq Slots
  BY CallsParts
<1>3. batch = Batch(Calls, m)
  BY <1>1 DEF At
<1>4. /\ Following \in Nat /\ m < Following /\ Following <= Len(Calls) + 1
      /\ \A i \in Slots : i < Following <=> \E b \in batch : i <= b
      /\ \A i \in Slots : m <= i /\ i < Following => i \in batch
  BY <1>2, <1>3, FollowingParts
<1>5. Head(queue)[1] \in batch /\ \A j \in Slots : j # Head(queue)[1] => Collected[j] = results[j]
  BY EndParts
<1>6. \A i \in Slots : i \in Nat /\ i >= 1
  BY CallParts
<1>7. \A b \in batch : b \in Slots
  BY DEF TypeInv, TypeOK
<1>8. ASSUME NEW i \in Slots, i < Following
      PROVE  /\ Collected[i].out # "none" /\ Collected[i].id = i
             /\ phase[i] = "over" /\ <<round, i>> \in shown
  <2>1. CASE i \in batch
    BY <2>1, LastEndParts
  <2>2. CASE i \notin batch
    <3>1. i < m
      BY <2>2, <1>4, <1>6, <1>8
    <3>2. i \in 1..Len(Calls)
      BY <3>1, <1>2, <1>6
    <3>3. phase[i] = "over" /\ results[i].out # "none"
      BY <3>1, <3>2, <1>1 DEF At
    <3>4. Collected[i] = results[i]
      BY <2>2, <1>5
    <3>5. results[i].id = i /\ <<round, i>> \in shown
      BY <3>3, <1>0 DEF QueueInv
    <3> QED
      BY <3>3, <3>4, <3>5
  <2> QED
    BY <2>1, <2>2
<1>9. ASSUME NEW i \in Slots, i >= Following
      PROVE  phase[i] = "none" /\ Collected[i] = NoResult
  <2>1. i \notin batch
    BY <1>4, <1>6, <1>9
  <2>2. i >= m
    BY <1>4, <1>6, <1>9
  <2>3. phase[i] = "none" /\ results[i] = NoResult
    BY <2>1, <2>2, <1>1 DEF At
  <2> QED
    BY <2>1, <2>3, <1>5
<1> QED
  BY <1>4, <1>8, <1>9

-----------------------------------------------------------------------------
(* The begin of a batch: nothing of the calls from m on has happened yet. *)
Begins(cs, m) ==
  /\ cs = Calls' /\ StartBatch(cs, m)
  /\ pc' = "tools" /\ pc \in {"llm", "tools"}
  /\ results' \in [Slots -> Results]
  /\ \A i \in Slots :
       i < m => /\ results'[i].out # "none" /\ results'[i].id = i
                /\ phase[i] = "over" /\ <<round, i>> \in shown
  /\ \A i \in Slots : i >= m => phase[i] = "none" /\ results'[i] = NoResult
  /\ UNCHANGED <<configVars, round, readFiles, question, spoken, inner, shown>>

LEMMA BeginParts ==
  ASSUME TypeInv, IdleInv, BatchInv, QueueInv,
         NextBatch \/ \E r \in Replies : CallTools(r)
  PROVE  \E cs \in CallLists : \E m \in 1..Len(cs) : Begins(cs, m)
<1>0. results \in [Slots -> Results]
  BY DEF TypeInv
<1>1. ASSUME NEW r \in Replies, CallTools(r)
      PROVE  Begins(r.calls, 1) /\ r.calls \in CallLists /\ 1 \in 1..Len(r.calls)
  <2>1. pc = "llm" /\ pc' = "tools" /\ r.calls \in CallLists /\ Calls' = r.calls /\ 1 \in 1..Len(r.calls)
    BY <1>1, CallToolsParts
  <2>2. \A i \in Slots : phase[i] = "none" /\ results[i] = NoResult
    BY <2>1 DEF IdleInv
  <2>3. /\ StartBatch(r.calls, 1) /\ results' = results
        /\ UNCHANGED <<configVars, round, readFiles, question, spoken, inner, shown>>
    BY <1>1 DEF CallTools
  <2>4. \A i \in Slots : i \in Nat /\ i >= 1
    BY CallParts
  <2> QED
    BY <1>0, <2>1, <2>2, <2>3, <2>4 DEF Begins
<1>2. ASSUME NextBatch
      PROVE  Begins(Calls, Following) /\ Calls \in CallLists /\ Following \in 1..Len(Calls)
  <2>1. Take("end") /\ done + 1 = Cardinality(batch) /\ Following <= Len(Calls)
        /\ results' = Collected /\ StartBatch(Calls, Following)
        /\ UNCHANGED <<configVars, turnVars, readFiles, question, spoken, inner, shown>>
    BY <1>2 DEF NextBatch
  <2>2. /\ Following \in Nat /\ 1 < Following
        /\ \A i \in Slots : i < Following =>
             /\ Collected[i].out # "none" /\ Collected[i].id = i
             /\ phase[i] = "over" /\ <<round, i>> \in shown
        /\ \A i \in Slots : i >= Following => phase[i] = "none" /\ Collected[i] = NoResult
    BY <2>1, SweepParts
  <2>3. Collected \in [Slots -> Results]
    BY <2>1, EndParts
  <2>4. Calls \in CallLists /\ Len(Calls) \in Nat
    BY CallsParts
  <2>5. pc = "tools" /\ pc' = "tools" /\ Calls' = Calls /\ UNCHANGED round
    BY <2>1 DEF Take, turnVars, Calls, Last
  <2> QED
    BY <2>1, <2>2, <2>3, <2>4, <2>5 DEF Begins
<1> QED
  BY <1>1, <1>2

-----------------------------------------------------------------------------
(* Types. *)

Config == limit \in Limits /\ budget \in Budgets /\ mode \in Modes
          /\ pc \in {"llm", "tools", "closing", "unwind"} \union Ended
Counts == round \in 1..MaxRounds /\ used \in 0..MaxRounds
Session == msgs \in Seq(Messages) /\ msgs # <<>>
TheBatch == batch \subseteq Slots /\ IsFiniteSet(batch) /\ done \in 0..Cardinality(batch)
Phases == phase \in [Slots -> {"none", "over", "cut"} \union Live]
Queued == queue \in Seq(Events)
Taking == results \in [Slots -> Results]
AgentTypes ==
  /\ agent \in [Agents -> {"none", "run", "cut", "over"}]
  /\ spoken \in [Agents -> 0..MaxEvents]
  /\ inner \in Seq(Agents \X {"spoke", "ended"})
AgentView == agentShown \in [Agents -> {"none", "started", "spoke", "ended"}]
View == /\ question \subseteq {<<"call", i>> : i \in Slots} \union {<<"agent", a>> : a \in Agents}
        /\ shown \subseteq (1..MaxRounds) \X Slots

AllTypes ==
  /\ Config /\ Counts /\ Session /\ TheBatch /\ Phases /\ Queued /\ Taking
  /\ AgentTypes /\ AgentView /\ View

LEMMA TypesSplit == TypeInv <=> AllTypes
<1>1. TypeInv => AllTypes
  BY DEF TypeInv, TypeOK, AllTypes, Config, Counts, Session, TheBatch, Phases, Queued, Taking,
         AgentTypes, AgentView, View, Events
<1>2. Taking => \A i \in Slots : results[i].id \in {0} \union Slots
                                 /\ results[i].out \in {"none", "ok", "error"}
  BY DEF Taking, Results, Outs
<1>3. AllTypes => TypeInv
  BY <1>2 DEF TypeInv, TypeOK, AllTypes, Config, Counts, Session, TheBatch, Phases, Queued, Taking,
         AgentTypes, AgentView, View, Events
<1> QED
  BY <1>1, <1>3

LEMMA TypesInit == Init => TypeInv
<1> SUFFICES ASSUME Init
             PROVE  AllTypes
  BY TypesSplit
<1>1. Config /\ Counts /\ TheBatch /\ Phases
  <2>1. IsFiniteSet({}) /\ Cardinality({}) = 0
    BY FS_EmptySet
  <2> QED
    BY <2>1, ConstantParts DEF Init, Config, Counts, TheBatch, Phases
<1>2. Session
  <2>1. <<>> \in Seq(Results) /\ <<>> \in CallLists
    BY DEF CallLists
  <2>2. User \in Messages
    BY <2>1 DEF User, Messages
  <2>3. msgs = <<User>>
    BY DEF Init
  <2> QED
    BY <2>2, <2>3 DEF Session
<1>3. Queued /\ AgentTypes /\ AgentView /\ View
  BY ConstantParts DEF Init, Queued, AgentTypes, AgentView, View
<1>4. Taking
  <2>1. NoResult \in Results
    BY DEF NoResult, Results
  <2> QED
    BY <2>1 DEF Init, Taking
<1> QED
  BY <1>1, <1>2, <1>3, <1>4 DEF AllTypes

LEMMA TypesRest ==
  ASSUME TypeInv, RoundInv, Rests
  PROVE  TypeInv'
<1>0. AllTypes
  BY TypesSplit
<1>1. UNCHANGED <<configVars, round, batchVars, agentVars, viewVars>>
  BY DEF Rests
<1>2. Config'
  BY <1>0, <1>1 DEF AllTypes, Config, configVars, Rests, Ended
<1>3. Counts'
  BY <1>0, <1>1, ConstantParts DEF AllTypes, Counts, Rests, RoundInv
<1>4. Session'
  <2>1. msgs \in Seq(Messages) /\ msgs # <<>>
    BY <1>0 DEF AllTypes, Session
  <2>2. ASSUME NEW m \in Messages, msgs' = Append(msgs, m)
        PROVE  Session'
    BY <2>1, <2>2 DEF Session
  <2> QED
    BY <2>1, <2>2 DEF Rests, Session
<1>5. TheBatch' /\ Phases' /\ Queued' /\ Taking' /\ View'
  BY <1>0, <1>1 DEF AllTypes, TheBatch, Phases, Queued, Taking, View, batchVars, viewVars
<1>6. AgentTypes' /\ AgentView'
  BY <1>0, <1>1 DEF AllTypes, AgentTypes, AgentView, agentVars, viewVars
<1> QED
  BY <1>2, <1>3, <1>4, <1>5, <1>6, TypesSplit, PTL DEF AllTypes

LEMMA TypesBegin ==
  ASSUME TypeInv, RoundInv, IdleInv, BatchInv, QueueInv,
         NextBatch \/ \E r \in Replies : CallTools(r)
  PROVE  TypeInv'
<1>0. AllTypes
  BY TypesSplit
<1>10. PICK cs \in CallLists : \E m \in 1..Len(cs) : Begins(cs, m)
  BY BeginParts
<1>1. PICK m \in 1..Len(cs) : Begins(cs, m)
  BY <1>10
<1>2. Config'
  BY <1>0, <1>1 DEF AllTypes, Config, Begins, configVars
<1>3. Counts' /\ Session'
  <2>1. CASE NextBatch
    BY <2>1, <1>0 DEF NextBatch, turnVars, AllTypes, Counts, Session
  <2>2. ASSUME NEW r \in Replies, CallTools(r)
        PROVE  Counts' /\ Session'
    <3>1. msgs' \in Seq(Messages) /\ Len(msgs') = Len(msgs) + 1 /\ pc = "llm"
      BY <2>2, CallToolsParts
    <3>2. msgs' # <<>>
      BY <3>1, CallsParts
    <3>3. used = round - 1 /\ used' = used + 1 /\ round' = round
      BY <2>2, <3>1 DEF CallTools, Reply, RoundInv
    <3> QED
      BY <3>1, <3>2, <3>3, <1>0, ConstantParts DEF Counts, Session, AllTypes
  <2> QED
    BY <2>1, <2>2
<1>4. /\ batch' = Batch(cs, m) /\ queue' = <<>> /\ done' = 0
      /\ phase' = [i \in Slots |-> IF i \in Batch(cs, m) THEN "gates" ELSE phase[i]]
      /\ agent' = [a \in Agents |-> "none"]
      /\ agentShown' = [a \in Agents |-> "none"]
  BY <1>1 DEF Begins, StartBatch
<1>5. TheBatch'
  <2>1. Batch(cs, m) \subseteq Slots /\ IsFiniteSet(Batch(cs, m))
    BY BatchParts
  <2>2. Cardinality(Batch(cs, m)) \in Nat
    BY <2>1, FS_CardinalityType
  <2> QED
    BY <2>1, <2>2, <1>4 DEF TheBatch
<1>6. Phases'
  BY <1>0, <1>4 DEF AllTypes, Phases, Live
<1>7. Queued' /\ AgentView'
  BY <1>4 DEF Queued, AgentView
<1>8. Taking' /\ View' /\ AgentTypes'
  BY <1>0, <1>1, <1>4 DEF AllTypes, Taking, View, AgentTypes, Begins
<1> QED
  BY <1>2, <1>3, <1>5, <1>6, <1>7, <1>8, TypesSplit, PTL DEF AllTypes

LEMMA TypesTake ==
  ASSUME TypeInv, QueueInv,
         ShowResult \/ TakeEnd \/ \E what \in {"started", "spoke", "ended"} : ShowAgent(what)
  PROVE  TypeInv'
<1>0. AllTypes
  BY TypesSplit
<1>1. /\ UNCHANGED <<configVars, turnVars, batch, phase, readFiles, question, agentVars>>
      /\ pc = "tools" /\ queue # <<>> /\ queue' = Tail(queue)
  BY TakeParts
<1>2. Config' /\ Counts' /\ Session' /\ Phases' /\ AgentTypes'
  BY <1>0, <1>1 DEF AllTypes, Config, Counts, Session, Phases, AgentTypes, configVars, turnVars,
     agentVars
<1>3. Queued'
  BY <1>1, QueueHead DEF Queued
<1>4. queue[1] \in Events /\ Head(queue) = queue[1]
  BY <1>1, QueueHead
<1>5. TheBatch' /\ Taking' /\ AgentView' /\ View'
  <2>1. CASE ShowResult
    <3>1. queue[1][1] \in Slots
      BY <1>4, EventParts
    <3>2. <<round, queue[1][1]>> \in (1..MaxRounds) \X Slots
      BY <3>1, <1>0 DEF AllTypes, Counts
    <3>3. /\ shown' = shown \union {<<round, queue[1][1]>>} /\ question' = question
          /\ UNCHANGED <<batch, done, results, agentShown>>
      BY <2>1, <1>4 DEF ShowResult
    <3>4. View'
      BY <3>2, <3>3, <1>0 DEF AllTypes, View
    <3> QED
      BY <3>3, <3>4, <1>0 DEF AllTypes, TheBatch, Taking, AgentView
  <2>2. ASSUME NEW what \in {"started", "spoke", "ended"}, ShowAgent(what)
        PROVE  TheBatch' /\ Taking' /\ AgentView' /\ View'
    <3>1. queue[1][2] = what
      BY <2>2, <1>4 DEF ShowAgent, Take
    <3>2. queue[1][3] \in Agents
      BY <3>1, <1>4, EventParts
    <3>3. /\ agentShown' = [agentShown EXCEPT ![queue[1][3]] = what] /\ question' = question
          /\ UNCHANGED <<batch, done, results, shown>>
      BY <2>2, <1>4 DEF ShowAgent
    <3> QED
      BY <3>2, <3>3, <1>0 DEF AllTypes, TheBatch, Taking, AgentView, View
  <2>3. CASE TakeEnd
    <3>1. Take("end") /\ done + 1 < Cardinality(batch) /\ results' = Collected /\ done' = done + 1
          /\ UNCHANGED <<batch, question, viewVars>>
      BY <2>3 DEF TakeEnd
    <3>2. Collected \in [Slots -> Results]
      BY <3>1, EndParts
    <3>3. TheBatch'
      <4>1. Cardinality(batch) \in Nat
        BY <1>0, FS_CardinalityType DEF AllTypes, TheBatch
      <4> QED
        BY <4>1, <3>1, <1>0 DEF AllTypes, TheBatch
    <3> QED
      BY <3>1, <3>2, <3>3, <1>0 DEF AllTypes, Taking, AgentView, View, viewVars
  <2> QED
    BY <2>1, <2>2, <2>3
<1> QED
  BY <1>2, <1>3, <1>5, TypesSplit, PTL DEF AllTypes

(* The message of results that ends a round. *)
LEMMA ResultsParts ==
  ASSUME TypeInv, BatchInv, QueueInv, NextRound
  PROVE  /\ Take("end") /\ done + 1 = Cardinality(batch)
         /\ \A i \in 1..Len(Calls) :
              /\ i < Following /\ i \in Slots
              /\ Collected[i].out # "none" /\ Collected[i].id = i
              /\ phase[i] = "over" /\ <<round, i>> \in shown
         /\ \A i \in Slots : i \notin 1..Len(Calls) => phase[i] = "none"
         /\ \E m \in Messages :
              /\ m.role = "tool" /\ m.calls = <<>> /\ Len(m.results) = Len(Calls)
              /\ \A i \in 1..Len(Calls) : m.results[i] = Collected[i]
              /\ msgs' = Append(msgs, m)
<1>1. /\ Take("end") /\ done + 1 = Cardinality(batch) /\ Following > Len(Calls)
      /\ msgs' = Append(msgs, Tool([k \in 1..Len(Calls) |-> Collected[k]]))
  BY DEF NextRound
<1>2. /\ Following \in Nat /\ Following <= Len(Calls) + 1
      /\ \A i \in Slots : i < Following =>
           /\ Collected[i].out # "none" /\ Collected[i].id = i
           /\ phase[i] = "over" /\ <<round, i>> \in shown
      /\ \A i \in Slots : i >= Following => phase[i] = "none"
  BY <1>1, SweepParts
<1>3. Len(Calls) \in Nat /\ 1..Len(Calls) \subseteq Slots
  BY CallsParts
<1>4. \A i \in 1..Len(Calls) : i < Following /\ i \in Slots
  BY <1>1, <1>2, <1>3
<1>5. \A i \in Slots : i \notin 1..Len(Calls) => phase[i] = "none"
  <2>1. \A i \in Slots : i \in Nat /\ i >= 1
    BY CallParts
  <2> QED
    BY <2>1, <1>1, <1>2, <1>3
<1>6. Collected \in [Slots -> Results]
  BY <1>1, EndParts
<1> DEFINE rs == [k \in 1..Len(Calls) |-> Collected[k]]
<1>7. rs \in Seq(Results) /\ Len(rs) = Len(Calls) /\ \A i \in 1..Len(Calls) : rs[i] = Collected[i]
  BY <1>3, <1>6
<1> HIDE DEF rs
<1>8. Tool(rs) \in Messages /\ Tool(rs).role = "tool" /\ Tool(rs).calls = <<>>
      /\ Tool(rs).results = rs
  BY <1>7 DEF Tool, Messages, CallLists
<1>9. msgs' = Append(msgs, Tool(rs))
  BY <1>1 DEF rs
<1> QED
  BY <1>1, <1>2, <1>4, <1>5, <1>7, <1>8, <1>9

LEMMA TypesRound ==
  ASSUME TypeInv, RoundInv, BatchInv, QueueInv, NextRound
  PROVE  TypeInv'
<1>0. AllTypes
  BY TypesSplit
<1>1. /\ UNCHANGED <<configVars, used, question, agentVars, viewVars>>
      /\ round' = round + 1 /\ pc' = "llm" /\ pc = "tools" /\ batch' = {} /\ queue' = <<>> /\ done' = 0
      /\ phase' = [i \in Slots |-> IF phase[i] = "over" THEN "none" ELSE phase[i]]
      /\ results' = [i \in Slots |-> NoResult]
  BY DEF NextRound, Take
<1>2. Config' /\ AgentTypes' /\ AgentView' /\ View' /\ Queued'
  BY <1>0, <1>1 DEF AllTypes, Config, AgentTypes, AgentView, View, Queued, configVars, agentVars,
     viewVars
<1>3. Counts'
  <2>1. round < MaxRounds
    BY <1>1 DEF RoundInv, AtTools
  <2> QED
    BY <2>1, <1>0, <1>1, ConstantParts DEF AllTypes, Counts
<1>4. Session'
  <2>1. PICK m \in Messages : msgs' = Append(msgs, m)
    BY ResultsParts
  <2> QED
    BY <2>1, <1>0 DEF AllTypes, Session
<1>5. TheBatch'
  BY <1>1, FS_EmptySet DEF TheBatch
<1>6. Phases' /\ Taking'
  BY <1>0, <1>1 DEF AllTypes, Phases, Taking, NoResult, Results
<1> QED
  BY <1>2, <1>3, <1>4, <1>5, <1>6, TypesSplit, PTL DEF AllTypes

LEMMA TypesWork ==
  ASSUME TypeInv, NEW i \in Slots, WorkStep(i)
  PROVE  TypeInv'
<1>0. AllTypes
  BY TypesSplit
<1>1. UNCHANGED <<configVars, turnVars, batch, done, results, viewVars>>
  BY WorkParts
<1>2. Config' /\ Counts' /\ Session' /\ TheBatch' /\ Taking' /\ AgentView'
  BY <1>0, <1>1 DEF AllTypes, Config, Counts, Session, TheBatch, Taking, AgentView, configVars,
     turnVars, viewVars
<1>3. View'
  <2>1. question' \subseteq question \union {<<"call", i>>}
    BY DEF WorkStep, Finishes, Waits, Spawns, ForwardEvent, ForwardEnd
  <2> QED
    BY <2>1, <1>0, <1>1 DEF AllTypes, View, viewVars
<1>4. Phases' /\ Queued' /\ AgentTypes'
  <2>0. phase \in [Slots -> {"none", "over", "cut"} \union Live] /\ queue \in Seq(Events)
        /\ inner \in Seq(Agents \X {"spoke", "ended"})
    BY <1>0 DEF AllTypes, Phases, Queued, AgentTypes
  <2>1. ASSUME NEW out \in Outs, Finishes(i, out)
        PROVE  Phases' /\ Queued' /\ AgentTypes'
    <3>1. phase' = [phase EXCEPT ![i] = "over"] /\ queue' = queue \o Report(i, out)
          /\ UNCHANGED agentVars
      BY <2>1 DEF Finishes, Over
    <3>2. queue' \in Seq(Events)
      BY <2>0, <3>1, ReportParts, ConcatParts
    <3> QED
      BY <2>0, <3>1, <3>2, <1>0 DEF AllTypes, Phases, Queued, AgentTypes, agentVars
  <2>2. ASSUME NEW ph \in {"confirm", "ask", "exec"}, Waits(i, ph)
        PROVE  Phases' /\ Queued' /\ AgentTypes'
    BY <2>0, <2>2, <1>0 DEF Waits, AllTypes, Phases, Queued, AgentTypes, agentVars, Live
  <2>3. CASE Spawns(i)
    <3>1. PICK n \in Agents :
            /\ queue' = queue \o [a \in 1..n |-> <<i, "started", a>>]
            /\ agent' = [a \in Agents |-> IF a <= n THEN "run" ELSE "none"]
      BY <2>3 DEF Spawns, SpawnAgents
    <3>2. phase' = [phase EXCEPT ![i] = "exec"] /\ spoken' = [a \in Agents |-> 0] /\ inner' = <<>>
      BY <2>3 DEF Spawns, SpawnAgents
    <3>3. n \in Nat /\ \A a \in 1..n : <<i, "started", a>> \in Events
      BY ConstantParts DEF Events, AgentEvents, Agents
    <3>4. [a \in 1..n |-> <<i, "started", a>>] \in Seq(Events)
      BY <3>3
    <3>5. queue' \in Seq(Events)
      BY <2>0, <3>1, <3>4, ConcatParts
    <3>6. AgentTypes'
      BY <3>1, <3>2, ConstantParts DEF AgentTypes
    <3> QED
      BY <2>0, <3>2, <3>5, <3>6 DEF Phases, Queued, Live
  <2>4. CASE ForwardEvent(i) \/ ForwardEnd(i)
    <3>1. inner # <<>> /\ inner' = Tail(inner) /\ UNCHANGED <<agent, spoken>>
      BY <2>4 DEF ForwardEvent, ForwardEnd, Forward
    <3>2. Head(inner) \in Agents \X {"spoke", "ended"} /\ inner' \in Seq(Agents \X {"spoke", "ended"})
      BY <2>0, <3>1
    <3>3. <<i, "spoke", Head(inner)[1]>> \in Events /\ <<i, "ended", Head(inner)[1]>> \in Events
      BY <3>2 DEF Events, AgentEvents
    <3>4. \/ queue' = Append(queue, <<i, "spoke", Head(inner)[1]>>) /\ phase' = phase
          \/ queue' = Append(queue, <<i, "ended", Head(inner)[1]>>) /\ phase' = phase
          \/ /\ queue' = Append(queue, <<i, "ended", Head(inner)[1]>>) \o Report(i, "ok")
             /\ phase' = [phase EXCEPT ![i] = "over"]
      BY <2>4 DEF ForwardEvent, ForwardEnd
    <3>5. /\ Append(queue, <<i, "spoke", Head(inner)[1]>>) \in Seq(Events)
          /\ Append(queue, <<i, "ended", Head(inner)[1]>>) \in Seq(Events)
      BY <2>0, <3>3, AppendParts
    <3>6. Append(queue, <<i, "ended", Head(inner)[1]>>) \o Report(i, "ok") \in Seq(Events)
      BY <3>5, ReportParts, ConcatParts DEF Outs
    <3> QED
      BY <2>0, <3>1, <3>2, <3>4, <3>5, <3>6, <1>0 DEF AllTypes, Phases, Queued, AgentTypes
  <2> QED
    BY <2>1, <2>2, <2>3, <2>4 DEF WorkStep
<1> QED
  BY <1>2, <1>3, <1>4, TypesSplit, PTL DEF AllTypes

LEMMA TypesOthers ==
  ASSUME TypeInv, Stops \/ (\E i \in Slots : CutStep(i)) \/ (\E a \in Agents : AgentStep(a))
  PROVE  TypeInv'
<1>0. AllTypes
  BY TypesSplit
<1>1. CASE Stops
  <2>1. UNCHANGED <<configVars, msgs, round, used, batch, queue, done, results, question,
                    agentVars, viewVars>> /\ pc' = "unwind"
        /\ phase' = [i \in Slots |-> IF phase[i] \in Live THEN "cut" ELSE phase[i]]
    BY <1>1 DEF Stops
  <2>2. Config' /\ Counts' /\ Session' /\ TheBatch' /\ Queued' /\ Taking'
    BY <1>0, <2>1 DEF AllTypes, Config, Counts, Session, TheBatch, Queued, Taking, configVars
  <2>3. AgentTypes' /\ AgentView' /\ View'
    BY <1>0, <2>1 DEF AllTypes, AgentTypes, AgentView, View, agentVars, viewVars
  <2>4. Phases'
    BY <1>0, <2>1 DEF AllTypes, Phases
  <2> QED
    BY <2>2, <2>3, <2>4, TypesSplit, PTL DEF AllTypes
<1>2. ASSUME NEW i \in Slots, CutStep(i)
      PROVE  TypeInv'
  <2>1. UNCHANGED <<configVars, turnVars, batch, queue, done, results, viewVars>>
    BY <1>2, CutParts
  <2>2. Config' /\ Counts' /\ Session' /\ TheBatch' /\ Queued' /\ Taking'
    BY <1>0, <2>1 DEF AllTypes, Config, Counts, Session, TheBatch, Queued, Taking, configVars, turnVars
  <2>3. AgentView' /\ View'
    BY <1>0, <1>2, <2>1 DEF AllTypes, AgentView, View, viewVars, CutStep, CutAgents, Unwind
  <2>4. Phases' /\ AgentTypes'
    BY <1>0, <1>2 DEF AllTypes, AgentTypes, Phases, CutStep, CutAgents, Unwind, agentVars
  <2> QED
    BY <2>2, <2>3, <2>4, TypesSplit, PTL DEF AllTypes
<1>3. ASSUME NEW a \in Agents, AgentStep(a)
      PROVE  TypeInv'
  <2>1. UNCHANGED <<configVars, turnVars, batch, phase, queue, done, results, viewVars>>
        /\ question' \subseteq question
    BY <1>3, AgentParts
  <2>2. Config' /\ Counts' /\ Session' /\ TheBatch' /\ Queued' /\ Taking' /\ Phases'
    BY <1>0, <2>1 DEF AllTypes, Config, Counts, Session, TheBatch, Queued, Taking, Phases,
       configVars, turnVars
  <2>3. AgentView' /\ View'
    BY <1>0, <2>1 DEF AllTypes, AgentView, View, viewVars
  <2>4. <<a, "spoke">> \in Agents \X {"spoke", "ended"} /\ <<a, "ended">> \in Agents \X {"spoke", "ended"}
    OBVIOUS
  <2>5. inner' \in Seq(Agents \X {"spoke", "ended"})
    <3>1. inner \in Seq(Agents \X {"spoke", "ended"})
      BY <1>0 DEF AllTypes, AgentTypes
    <3>2. inner' = Append(inner, <<a, "spoke">>) \/ inner' = Append(inner, <<a, "ended">>)
      BY <1>3 DEF AgentStep, AgentSpeaks, AgentEnds, AgentUnwinds
    <3>3. /\ Append(inner, <<a, "spoke">>) \in Seq(Agents \X {"spoke", "ended"})
          /\ Append(inner, <<a, "ended">>) \in Seq(Agents \X {"spoke", "ended"})
      BY <2>4, <3>1, AppendParts
    <3> QED
      BY <3>2, <3>3
  <2>6. agent' \in [Agents -> {"none", "run", "cut", "over"}] /\ spoken' \in [Agents -> 0..MaxEvents]
    <3>1. /\ agent \in [Agents -> {"none", "run", "cut", "over"}] /\ spoken \in [Agents -> 0..MaxEvents]
          /\ MaxEvents \in Nat
      BY <1>0, ConstantParts DEF AllTypes, AgentTypes
    <3>2. \/ /\ spoken[a] < MaxEvents /\ spoken' = [spoken EXCEPT ![a] = @ + 1] /\ agent' = agent
          \/ agent' = [agent EXCEPT ![a] = "over"] /\ spoken' = spoken
      BY <1>3 DEF AgentStep, AgentSpeaks, AgentEnds, AgentUnwinds
    <3> QED
      BY <3>1, <3>2
  <2> QED
    <3>1. AgentTypes'
      BY <2>5, <2>6 DEF AgentTypes
    <3> QED
      BY <2>2, <2>3, <3>1, TypesSplit, PTL DEF AllTypes
<1> QED
  BY <1>1, <1>2, <1>3

LEMMA TypesStep ==
  ASSUME TypeInv, RoundInv, IdleInv, BatchInv, QueueInv, [Next]_vars
  PROVE  TypeInv'
<1>1. batch \subseteq Slots
  BY DEF TypeInv, TypeOK
<1>2. CASE UNCHANGED vars
  BY <1>2 DEF vars, configVars, turnVars, batchVars, agentVars, viewVars, TypeInv, TypeOK
<1> QED
  BY <1>1, <1>2, StepKinds, TypesRest, TypesBegin, TypesTake, TypesRound, TypesWork, TypesOthers

-----------------------------------------------------------------------------
(* Which tasks exist, and which batch they belong to. *)

LEMMA PhaseMoves ==
  ASSUME TypeInv, NEW i \in Slots, WorkStep(i) \/ CutStep(i)
  PROVE  \/ phase' = phase
         \/ \E ph \in {"confirm", "ask", "exec", "over"} :
              /\ phase' = [phase EXCEPT ![i] = ph]
              /\ CutStep(i) => ph = "over"
<1>1. ASSUME WorkStep(i)
      PROVE  \/ phase' = phase
             \/ \E ph \in {"confirm", "ask", "exec", "over"} :
                  phase' = [phase EXCEPT ![i] = ph] /\ phase[i] \in Live
  BY <1>1 DEF WorkStep, Finishes, Over, Waits, Spawns, SpawnAgents, ForwardEvent, ForwardEnd,
     Forward, Live
<1>2. ASSUME CutStep(i)
      PROVE  phase[i] = "cut" /\ (phase' = phase \/ phase' = [phase EXCEPT ![i] = "over"])
  BY <1>2 DEF CutStep, CutAgents, Unwind
<1>3. phase[i] \in Live => phase[i] # "cut"
  BY DEF Live
<1>4. ASSUME WorkStep(i), ~CutStep(i)
      PROVE  \/ phase' = phase
             \/ \E ph \in {"confirm", "ask", "exec", "over"} :
                  /\ phase' = [phase EXCEPT ![i] = ph]
                  /\ CutStep(i) => ph = "over"
  BY <1>1, <1>4
<1> QED
  BY <1>2, <1>4

LEMMA IdleInit == Init => IdleInv
  BY DEF Init, IdleInv, AtTools

LEMMA IdleStep ==
  ASSUME TypeInv, RoundInv, IdleInv, BatchInv, QueueInv, [Next]_vars
  PROVE  IdleInv'
<1>0. phase \in [Slots -> {"none", "over", "cut"} \union Live] /\ batch \subseteq Slots
  BY DEF TypeInv, TypeOK
<1>1. CASE Rests
  <2>1. \A i \in Slots : phase[i] \in {"none", "over"}
    BY <1>0, <1>1 DEF Rests, IdleInv, AtTools
  <2>2. phase' = phase /\ pc' \in Ended \union {"closing"}
    BY <1>1 DEF Rests, batchVars
  <2> QED
    BY <2>1, <2>2 DEF IdleInv, AtTools, Ended
<1>2. CASE NextBatch \/ \E r \in Replies : CallTools(r)
  <2>1. PICK cs \in CallLists : \E m \in 1..Len(cs) : Begins(cs, m)
    BY <1>2, BeginParts
  <2>2. PICK m \in 1..Len(cs) : Begins(cs, m)
    BY <2>1
  <2>3. pc' = "tools" /\ pc # "unwind"
        /\ phase' = [i \in Slots |-> IF i \in Batch(cs, m) THEN "gates" ELSE phase[i]]
    BY <2>2 DEF Begins, StartBatch
  <2> QED
    BY <2>3 DEF IdleInv, AtTools
<1>3. CASE NextRound
  <2>1. /\ pc = "tools" /\ pc' = "llm" /\ batch' = {} /\ queue' = <<>> /\ done' = 0
        /\ phase' = [i \in Slots |-> IF phase[i] = "over" THEN "none" ELSE phase[i]]
        /\ results' = [i \in Slots |-> NoResult]
    BY <1>3 DEF NextRound, Take
  <2>2. \A i \in Slots : phase[i] \in {"none", "over"}
    BY <1>3, ResultsParts
  <2> QED
    BY <2>1, <2>2 DEF IdleInv, AtTools
<1>4. CASE ShowResult \/ TakeEnd \/ \E what \in {"started", "spoke", "ended"} : ShowAgent(what)
  <2>1. pc' = "tools" /\ pc = "tools" /\ phase' = phase
    BY <1>4, TakeParts DEF turnVars
  <2> QED
    BY <2>1 DEF IdleInv, AtTools
<1>5. ASSUME NEW i \in batch, WorkStep(i), pc = "tools"
      PROVE  IdleInv'
  <2>1. pc' = "tools"
    BY <1>5, <1>0, WorkParts DEF turnVars
  <2>2. \A j \in Slots : phase'[j] # "cut"
    <3>1. \A j \in Slots : phase[j] # "cut"
      BY <1>5 DEF IdleInv
    <3> QED
      BY <3>1, <1>0, <1>5, PhaseMoves
  <2> QED
    BY <2>1, <2>2 DEF IdleInv, AtTools
<1>6. ASSUME NEW i \in batch, CutStep(i), pc = "unwind"
      PROVE  IdleInv'
  <2>1. pc' = "unwind"
    BY <1>6, <1>0, CutParts DEF turnVars
  <2>2. \A j \in Slots : phase'[j] \notin Live
    <3>1. \A j \in Slots : phase[j] \notin Live
      BY <1>6 DEF IdleInv
    <3> QED
      BY <3>1, <1>0, <1>6 DEF CutStep, CutAgents, Unwind, Live
  <2> QED
    BY <2>1, <2>2 DEF IdleInv, AtTools
<1>7. ASSUME NEW a \in Agents, AgentStep(a)
      PROVE  IdleInv'
  <2>1. UNCHANGED <<pc, batch, phase, queue, done, results>>
    BY <1>7, AgentParts DEF turnVars
  <2> QED
    BY <2>1 DEF IdleInv, AtTools
<1>8. CASE Stops
  BY <1>8 DEF Stops, IdleInv, AtTools, Live
<1>9. CASE UNCHANGED vars
  BY <1>9 DEF vars, turnVars, batchVars, IdleInv, AtTools
<1> QED
  BY <1>1, <1>2, <1>3, <1>4, <1>5, <1>6, <1>7, <1>8, <1>9, StepKinds

LEMMA BatchInit == Init => BatchInv
  BY DEF Init, BatchInv, AtTools

LEMMA BatchStep ==
  ASSUME TypeInv, RoundInv, IdleInv, BatchInv, QueueInv, [Next]_vars
  PROVE  BatchInv'
<1>0. phase \in [Slots -> {"none", "over", "cut"} \union Live] /\ batch \subseteq Slots
  BY DEF TypeInv, TypeOK
<1>c. Calls \in CallLists /\ Len(Calls) \in Nat /\ 1..Len(Calls) \subseteq Slots
  BY CallsParts
<1>1. CASE Rests \/ NextRound
  BY <1>1 DEF Rests, NextRound, BatchInv, AtTools, Ended
<1>2. CASE NextBatch \/ \E r \in Replies : CallTools(r)
  <2>1. PICK cs \in CallLists : \E m \in 1..Len(cs) : Begins(cs, m)
    BY <1>2, BeginParts
  <2>2. PICK m \in 1..Len(cs) : Begins(cs, m)
    BY <2>1
  <2>3. /\ Calls' = cs /\ batch' = Batch(cs, m)
        /\ phase' = [i \in Slots |-> IF i \in Batch(cs, m) THEN "gates" ELSE phase[i]]
        /\ \A i \in Slots : i < m => results'[i].out # "none" /\ phase[i] = "over"
        /\ \A i \in Slots : i >= m => phase[i] = "none" /\ results'[i] = NoResult
    BY <2>2 DEF Begins, StartBatch
  <2>4. Len(cs) \in Nat /\ 1..Len(cs) \subseteq Slots
    BY CallParts
  <2>5. Batch(cs, m) \subseteq m..Len(cs) /\ Batch(cs, m) \subseteq Slots
    BY BatchParts
  <2>6. \A i \in 1..Len(cs) : i < m => phase'[i] = "over" /\ results'[i].out # "none"
    BY <2>3, <2>4, <2>5
  <2>7. \A i \in Slots \ batch' : i >= m => phase'[i] = "none" /\ results'[i] = NoResult
    BY <2>3
  <2>8. \A i \in batch' : phase'[i] # "none"
    BY <2>3, <2>5
  <2>9. At(m)'
    BY <2>3, <2>6, <2>7, <2>8 DEF At
  <2> QED
    BY <2>3, <2>9 DEF BatchInv
<1>3. ASSUME UNCHANGED <<batch, phase>>, Calls' = Calls, AtTools' => AtTools,
             \A i \in Slots : i \notin batch => results'[i] = results[i],
             \A i \in Slots : results[i].out # "none" => results'[i].out # "none"
      PROVE  BatchInv'
  <2> SUFFICES ASSUME AtTools'
               PROVE  \E m \in 1..Len(Calls) : At(m)'
    BY <1>3 DEF BatchInv
  <2>1. PICK m \in 1..Len(Calls) : At(m)
    BY <1>3 DEF BatchInv
  <2>2. At(m)'
    BY <2>1, <1>3, <1>c DEF At
  <2> QED
    BY <2>2
<1>4. CASE ShowResult \/ TakeEnd \/ \E what \in {"started", "spoke", "ended"} : ShowAgent(what)
  <2>1. UNCHANGED <<pc, batch, phase>> /\ Calls' = Calls
    BY <1>4, TakeParts DEF turnVars
  <2>2. CASE TakeEnd
    <3>1. Take("end") /\ results' = Collected
      BY <2>2 DEF TakeEnd
    <3>2. /\ Head(queue)[1] \in batch /\ results[Head(queue)[1]].out = "none"
          /\ \A j \in Slots : j # Head(queue)[1] => Collected[j] = results[j]
      BY <3>1, EndParts
    <3>3. \A i \in Slots : i \notin batch => results'[i] = results[i]
      BY <3>1, <3>2
    <3>4. \A i \in Slots : results[i].out # "none" => results'[i].out # "none"
      BY <3>1, <3>2
    <3>5. AtTools' => AtTools
      BY <2>1 DEF AtTools
    <3> QED
      BY <2>1, <3>3, <3>4, <3>5, <1>3
  <2>3. CASE ~TakeEnd
    <3>1. results' = results
      BY <1>4, <2>3 DEF ShowResult, ShowAgent
    <3>2. AtTools' => AtTools
      BY <2>1 DEF AtTools
    <3> QED
      BY <2>1, <3>1, <3>2, <1>3
  <2> QED
    BY <2>2, <2>3
<1>5. ASSUME NEW i \in batch, WorkStep(i) \/ CutStep(i)
      PROVE  BatchInv'
  <2>1. UNCHANGED <<pc, batch, results>> /\ Calls' = Calls
    BY <1>5, <1>0, WorkParts, CutParts DEF turnVars
  <2> SUFFICES ASSUME AtTools'
               PROVE  \E m \in 1..Len(Calls) : At(m)'
    BY <2>1 DEF BatchInv
  <2>2. PICK m \in 1..Len(Calls) : At(m)
    BY <2>1 DEF BatchInv, AtTools
  <2>3. batch \subseteq m..Len(Calls)
    BY <2>2, <1>c, BatchParts DEF At
  <2>4. /\ \A j \in Slots : j # i => phase'[j] = phase[j]
        /\ phase'[i] # "none"
    <3>1. phase[i] # "none" /\ i \in Slots
      BY <2>2, <1>0 DEF At
    <3> QED
      BY <3>1, <1>0, <1>5, PhaseMoves
  <2>5. At(m)'
    <3>1. \A j \in 1..Len(Calls) : j < m => j \in Slots /\ j # i
      BY <2>3, <1>c
    <3> QED
      BY <3>1, <2>1, <2>2, <2>4, <1>0 DEF At
  <2> QED
    BY <2>5
<1>6. ASSUME NEW a \in Agents, AgentStep(a)
      PROVE  BatchInv'
  <2>1. UNCHANGED <<pc, batch, phase, results>> /\ Calls' = Calls
    BY <1>6, AgentParts DEF turnVars
  <2>2. AtTools' => AtTools
    BY <2>1 DEF AtTools
  <2> QED
    BY <2>1, <2>2, <1>3
<1>7. CASE Stops
  <2>1. /\ UNCHANGED <<batch, results, msgs>> /\ AtTools
        /\ phase' = [i \in Slots |-> IF phase[i] \in Live THEN "cut" ELSE phase[i]]
    BY <1>7 DEF Stops, AtTools
  <2>2. PICK m \in 1..Len(Calls) : At(m)
    BY <2>1 DEF BatchInv
  <2>3. Calls' = Calls
    BY <2>1 DEF Calls, Last
  <2>4. At(m)'
    BY <2>1, <2>2, <2>3, <1>0, <1>c DEF At, Live
  <2> QED
    BY <2>3, <2>4 DEF BatchInv
<1>8. CASE UNCHANGED vars
  <2>1. UNCHANGED <<pc, msgs, batch, phase, results>>
    BY <1>8 DEF vars, turnVars, batchVars
  <2>2. Calls' = Calls /\ (AtTools' => AtTools)
    BY <2>1 DEF Calls, Last, AtTools
  <2> QED
    BY <2>1, <2>2, <1>3
<1> QED
  BY <1>1, <1>2, <1>4, <1>5, <1>6, <1>7, <1>8, StepKinds

-----------------------------------------------------------------------------
(* What the consumer has taken and shown. *)

(* What the task of call i adds to the queue: an end after a result, once it *)
(* is over.                                                                  *)
Grows(i) ==
  /\ Len(queue') \in Nat /\ Len(queue) <= Len(queue')
  /\ \A k \in 1..Len(queue) : queue'[k] = queue[k]
  /\ \A k \in Len(queue)+1..Len(queue') :
       /\ queue'[k][1] = i
       /\ queue'[k][2] \in {"result", "end"} => phase'[i] = "over"
       /\ queue'[k][2] = "end" =>
            k = Len(queue') /\ k - 1 > Len(queue) /\ queue'[k-1][2] = "result"

LEMMA GrowParts ==
  ASSUME TypeInv, NEW i \in Slots, WorkStep(i)
  PROVE  Grows(i)
<1>0. phase \in [Slots -> {"none", "over", "cut"} \union Live] /\ queue \in Seq(Events)
      /\ inner \in Seq(Agents \X {"spoke", "ended"}) /\ Len(queue) \in Nat
  BY DEF TypeInv, TypeOK, Events
<1>1. ASSUME NEW q \in Seq(Events), NEW out \in Outs, queue' = q \o Report(i, out),
             phase' = [phase EXCEPT ![i] = "over"], q = queue \/ \E e \in Events :
               q = Append(queue, e) /\ e[1] = i /\ e[2] = "ended"
      PROVE  Grows(i)
  <2>1. /\ Len(queue') = Len(q) + 2 /\ Len(q) \in Nat
        /\ \A k \in 1..Len(q) : queue'[k] = q[k]
        /\ queue'[Len(q) + 1] = <<i, "result", out>> /\ queue'[Len(q) + 2] = <<i, "end", out>>
    BY <1>1, ReportAdded
  <2>2. phase'[i] = "over"
    BY <1>0, <1>1
  <2>3. CASE q = queue
    <3>0. Len(queue) \in Nat /\ Len(queue') = Len(queue) + 2
      BY <1>0, <2>1, <2>3
    <3>1. \A k \in Len(queue)+1..Len(queue') : k = Len(queue) + 1 \/ k = Len(queue) + 2
      BY <3>0
    <3> QED
      BY <1>0, <2>1, <2>2, <2>3, <3>1 DEF Grows
  <2>4. ASSUME NEW e \in Events, q = Append(queue, e), e[1] = i, e[2] = "ended"
        PROVE  Grows(i)
    <3>1. Len(q) = Len(queue) + 1 /\ q[Len(queue) + 1] = e /\ \A k \in 1..Len(queue) : q[k] = queue[k]
      BY <1>0, <2>4, AppendParts
    <3>2. \A k \in Len(queue)+1..Len(queue') :
            k = Len(queue) + 1 \/ k = Len(queue) + 2 \/ k = Len(queue) + 3
      <4>1. Len(queue) \in Nat /\ Len(queue') = Len(queue) + 3
        BY <1>0, <2>1, <3>1
      <4> QED
        BY <4>1
    <3>3. queue'[Len(queue) + 1] = e /\ queue'[Len(queue) + 2] = <<i, "result", out>>
          /\ queue'[Len(queue) + 3] = <<i, "end", out>> /\ Len(queue') = Len(queue) + 3
      BY <1>0, <2>1, <3>1
    <3>4. \A k \in 1..Len(queue) : queue'[k] = queue[k]
      BY <1>0, <2>1, <3>1
    <3> QED
      BY <1>0, <2>2, <2>4, <3>2, <3>3, <3>4 DEF Grows
  <2> QED
    BY <2>3, <2>4, <1>1
<1>2. ASSUME NEW e \in Events, queue' = Append(queue, e), e[1] = i,
             e[2] \in {"spoke", "ended"}
      PROVE  Grows(i)
  BY <1>0, <1>2, AppendParts DEF Grows
<1>3. ASSUME NEW out \in Outs, Finishes(i, out)
      PROVE  Grows(i)
  BY <1>0, <1>1, <1>3 DEF Finishes, Over
<1>4. ASSUME NEW ph \in {"confirm", "ask", "exec"}, Waits(i, ph)
      PROVE  Grows(i)
  BY <1>0, <1>4 DEF Waits, Grows
<1>5. CASE Spawns(i)
  <2>1. PICK n \in Agents : queue' = queue \o [a \in 1..n |-> <<i, "started", a>>]
    BY <1>5 DEF Spawns, SpawnAgents
  <2>2. n \in Nat /\ \A a \in 1..n : <<i, "started", a>> \in Events
    BY ConstantParts DEF Events, AgentEvents, Agents
  <2> DEFINE st == [a \in 1..n |-> <<i, "started", a>>]
  <2>3. st \in Seq(Events) /\ Len(st) = n /\ \A a \in 1..n : st[a] = <<i, "started", a>>
    BY <2>2
  <2>6. queue' = queue \o st
    BY <2>1
  <2> HIDE DEF st
  <2>4. /\ Len(queue') = Len(queue) + n
        /\ \A k \in 1..Len(queue) : queue'[k] = queue[k]
        /\ \A k \in 1..n : queue'[Len(queue) + k] = <<i, "started", k>>
    <3>1. /\ Len(queue \o st) = Len(queue) + Len(st)
          /\ \A k \in 1..Len(queue) : (queue \o st)[k] = queue[k]
          /\ \A k \in 1..Len(st) : (queue \o st)[Len(queue) + k] = st[k]
      <4>1. queue \in Seq(Events) /\ st \in Seq(Events)
        BY <1>0, <2>3
      <4> QED
        BY <4>1, ConcatParts
    <3> QED
      BY <2>3, <2>6, <3>1
  <2>5. \A k \in Len(queue)+1..Len(queue') : queue'[k] = <<i, "started", k - Len(queue)>>
    <3> SUFFICES ASSUME NEW k \in Len(queue)+1..Len(queue')
                 PROVE  queue'[k] = <<i, "started", k - Len(queue)>>
      OBVIOUS
    <3>1. k - Len(queue) \in 1..n /\ k = Len(queue) + (k - Len(queue))
      BY <1>0, <2>2, <2>4
    <3> QED
      BY <3>1, <2>4
  <2> QED
    BY <1>0, <2>2, <2>4, <2>5 DEF Grows
<1>6. CASE ForwardEvent(i) \/ ForwardEnd(i)
  <2>1. inner # <<>>
    BY <1>6 DEF ForwardEvent, ForwardEnd, Forward
  <2>2. Head(inner) \in Agents \X {"spoke", "ended"}
    BY <1>0, <2>1
  <2>3. <<i, "spoke", Head(inner)[1]>> \in Events /\ <<i, "ended", Head(inner)[1]>> \in Events
    BY <2>2 DEF Events, AgentEvents
  <2>4. \/ queue' = Append(queue, <<i, "spoke", Head(inner)[1]>>)
        \/ queue' = Append(queue, <<i, "ended", Head(inner)[1]>>)
        \/ /\ queue' = Append(queue, <<i, "ended", Head(inner)[1]>>) \o Report(i, "ok")
           /\ phase' = [phase EXCEPT ![i] = "over"]
    BY <1>6 DEF ForwardEvent, ForwardEnd
  <2>5. Append(queue, <<i, "ended", Head(inner)[1]>>) \in Seq(Events) /\ "ok" \in Outs
    BY <1>0, <2>3, AppendParts DEF Outs
  <2> QED
    BY <2>3, <2>4, <2>5, <1>1, <1>2
<1> QED
  BY <1>3, <1>4, <1>5, <1>6 DEF WorkStep

LEMMA ShownInit == Init => ShownInv
  BY DEF Init, ShownInv

LEMMA ShownStep ==
  ASSUME TypeInv, RoundInv, IdleInv, BatchInv, QueueInv, ShownInv, [Next]_vars
  PROVE  ShownInv'
<1>0. /\ phase \in [Slots -> {"none", "over", "cut"} \union Live] /\ batch \subseteq Slots
      /\ round \in Nat /\ \A e \in shown : e[1] \in Nat
  BY ConstantParts DEF TypeInv, TypeOK
<1>1. CASE Rests
  <2>1. UNCHANGED <<shown, round>> /\ pc' \notin {"llm", "tools"}
    BY <1>1 DEF Rests, viewVars, Ended
  <2> QED
    BY <2>1 DEF ShownInv
<1>2. CASE NextBatch \/ \E r \in Replies : CallTools(r)
  <2>1. PICK cs \in CallLists : \E m \in 1..Len(cs) : Begins(cs, m)
    BY <1>2, BeginParts
  <2>2. PICK m \in 1..Len(cs) : Begins(cs, m)
    BY <2>1
  <2>3. /\ pc' = "tools" /\ pc \in {"llm", "tools"} /\ UNCHANGED <<shown, round>>
        /\ phase' = [i \in Slots |-> IF i \in Batch(cs, m) THEN "gates" ELSE phase[i]]
        /\ \A i \in Slots : i >= m => phase[i] = "none"
    BY <2>2 DEF Begins, StartBatch
  <2>4. \A i \in Batch(cs, m) : i \in Slots /\ phase[i] = "none"
    BY <2>3, BatchParts
  <2>5. ASSUME NEW i \in Slots, <<round, i>> \in shown
        PROVE  phase'[i] = "over"
    <3>1. pc # "llm"
      BY <2>5, <1>0 DEF ShownInv
    <3>2. phase[i] = "over"
      BY <2>3, <2>5, <3>1 DEF ShownInv
    <3> QED
      BY <2>3, <2>4, <3>2
  <2> QED
    BY <2>3, <2>5 DEF ShownInv
<1>3. CASE NextRound
  <2>1. round' = round + 1 /\ pc' = "llm" /\ shown' = shown
    BY <1>3 DEF NextRound, viewVars
  <2> QED
    BY <2>1, <1>0 DEF ShownInv
<1>4. CASE ShowResult
  <2>1. /\ pc = "tools" /\ pc' = "tools" /\ queue # <<>> /\ UNCHANGED <<round, phase>>
        /\ shown' = shown \union {<<round, Head(queue)[1]>>} /\ Head(queue)[2] = "result"
    BY <1>4 DEF ShowResult, Take, turnVars
  <2>2. Head(queue) = queue[1] /\ 1 \in 1..Len(queue)
    BY <2>1, QueueHead
  <2>3. phase[Head(queue)[1]] = "over"
    BY <2>1, <2>2 DEF QueueInv, IsResult
  <2> QED
    BY <2>1, <2>3, <1>0 DEF ShownInv
<1>5. CASE TakeEnd \/ \E what \in {"started", "spoke", "ended"} : ShowAgent(what)
  <2>1. UNCHANGED <<shown, round, pc, phase>>
    BY <1>5, TakeParts DEF TakeEnd, ShowAgent, viewVars, turnVars
  <2> QED
    BY <2>1 DEF ShownInv
<1>6. ASSUME NEW i \in batch, (pc = "tools" /\ phase[i] \in Live /\ WorkStep(i))
                              \/ (pc = "unwind" /\ CutStep(i))
      PROVE  ShownInv'
  <2>1. UNCHANGED <<shown, round, pc>>
    BY <1>6, <1>0, WorkParts, CutParts DEF turnVars, viewVars
  <2>2. pc = "tools" => \A j \in Slots : phase[j] = "over" => phase'[j] = "over"
    BY <1>0, <1>6, PhaseMoves DEF Live
  <2> QED
    BY <2>1, <2>2 DEF ShownInv
<1>7. CASE \E a \in Agents : AgentStep(a)
  <2>1. UNCHANGED <<shown, round, pc, phase>>
    BY <1>7, AgentParts DEF turnVars, viewVars
  <2> QED
    BY <2>1 DEF ShownInv
<1>8. CASE Stops
  BY <1>8 DEF Stops, ShownInv, viewVars
<1>9. CASE UNCHANGED vars
  BY <1>9 DEF vars, turnVars, viewVars, batchVars, ShownInv
<1> QED
  BY <1>1, <1>2, <1>3, <1>4, <1>5, <1>6, <1>7, <1>8, <1>9, StepKinds

LEMMA QueueInit == Init => QueueInv
  BY DEF Init, QueueInv

(* An end that waits in the queue. *)
EndWaits(k) ==
  /\ phase[queue[k][1]] = "over" /\ results[queue[k][1]].out = "none"
  /\ \A l \in 1..Len(queue) : IsEnd(l) /\ queue[l][1] = queue[k][1] => l = k
  /\ \/ <<round, queue[k][1]>> \in shown
     \/ \E l \in 1..k-1 : IsResult(l) /\ queue[l][1] = queue[k][1]

LEMMA QueueParts ==
  QueueInv <=>
    (pc = "tools" =>
      /\ done = Cardinality(Taken)
      /\ \A i \in Slots : results[i].out # "none" =>
           results[i].id = i /\ phase[i] = "over" /\ <<round, i>> \in shown
      /\ \A k \in 1..Len(queue) : queue[k][1] \in batch
      /\ \A k \in 1..Len(queue) : IsResult(k) => phase[queue[k][1]] = "over"
      /\ \A k \in 1..Len(queue) : IsEnd(k) => EndWaits(k))
  BY DEF QueueInv, EndWaits

LEMMA QueueBegin ==
  ASSUME TypeInv, RoundInv, IdleInv, BatchInv, QueueInv, ShownInv,
         NextBatch \/ \E r \in Replies : CallTools(r)
  PROVE  QueueInv'
<1>1. PICK cs \in CallLists : \E m \in 1..Len(cs) : Begins(cs, m)
  BY BeginParts
<1>2. PICK m \in 1..Len(cs) : Begins(cs, m)
  BY <1>1
<1>3. /\ batch' = Batch(cs, m) /\ queue' = <<>> /\ done' = 0 /\ UNCHANGED <<round, shown>>
      /\ phase' = [i \in Slots |-> IF i \in Batch(cs, m) THEN "gates" ELSE phase[i]]
      /\ \A i \in Slots : i < m => /\ results'[i].out # "none" /\ results'[i].id = i
                                   /\ phase[i] = "over" /\ <<round, i>> \in shown
      /\ \A i \in Slots : i >= m => phase[i] = "none" /\ results'[i] = NoResult
  BY <1>2 DEF Begins, StartBatch
<1>4. Batch(cs, m) \subseteq m..Len(cs) /\ Batch(cs, m) \subseteq Slots
  BY BatchParts
<1>5. NoResult.out = "none" /\ m \in Nat /\ \A i \in Slots : i \in Nat
  BY CallParts DEF NoResult
<1>6. Taken' = {}
  <2>1. \A i \in batch' : results'[i].out = "none"
    BY <1>3, <1>4, <1>5
  <2> QED
    BY <2>1 DEF Taken
<1>7. done' = Cardinality(Taken')
  BY <1>3, <1>6, FS_EmptySet
<1>8. ASSUME NEW i \in Slots, results'[i].out # "none"
      PROVE  results'[i].id = i /\ phase'[i] = "over" /\ <<round', i>> \in shown'
  <2>1. i < m
    BY <1>3, <1>5, <1>8
  <2>2. i \notin Batch(cs, m)
    BY <2>1, <1>4, <1>5
  <2> QED
    BY <2>1, <2>2, <1>3
<1>9. Len(queue') = 0
  BY <1>3
<1> QED
  BY <1>7, <1>8, <1>9 DEF QueueInv

LEMMA QueueWork ==
  ASSUME TypeInv, QueueInv, NEW i \in batch, pc = "tools", phase[i] \in Live, WorkStep(i)
  PROVE  QueueInv'
<1>0. /\ phase \in [Slots -> {"none", "over", "cut"} \union Live] /\ batch \subseteq Slots
      /\ queue \in Seq(Events) /\ Len(queue) \in Nat
  BY DEF TypeInv, TypeOK, Events
<1>1. UNCHANGED <<round, batch, done, results, shown>>
  BY <1>0, WorkParts DEF turnVars, viewVars
<1>2. \A j \in Slots : j # i => phase'[j] = phase[j]
  BY <1>0, PhaseMoves
<1>3. phase[i] # "over" /\ results[i].out = "none"
  BY <1>0 DEF Live, QueueInv
<1>4. \A k \in 1..Len(queue) : queue[k][1] = i => ~IsEnd(k) /\ ~IsResult(k)
  BY <1>3 DEF QueueInv
<1>5. Grows(i)
  BY <1>0, GrowParts
<1>6. \A k \in 1..Len(queue') : k \in 1..Len(queue) \/ k \in Len(queue)+1..Len(queue')
  BY <1>0, <1>5 DEF Grows
<1>7. \A k \in 1..Len(queue) : /\ k \in 1..Len(queue') /\ queue'[k] = queue[k]
                               /\ IsEnd(k)' <=> IsEnd(k)
                               /\ IsResult(k)' <=> IsResult(k)
  BY <1>0, <1>5 DEF Grows, IsEnd, IsResult
<1>8. \A k \in Len(queue)+1..Len(queue') :
        /\ queue'[k][1] = i
        /\ IsEnd(k)' \/ IsResult(k)' => phase'[i] = "over"
        /\ IsEnd(k)' => /\ k = Len(queue') /\ k - 1 \in Len(queue)+1..Len(queue')
                        /\ IsResult(k - 1)'
  <2> SUFFICES ASSUME NEW k \in Len(queue)+1..Len(queue')
               PROVE  /\ queue'[k][1] = i
                      /\ IsEnd(k)' \/ IsResult(k)' => phase'[i] = "over"
                      /\ IsEnd(k)' => /\ k = Len(queue') /\ k - 1 \in Len(queue)+1..Len(queue')
                                      /\ IsResult(k - 1)'
    OBVIOUS
  <2>1. /\ queue'[k][1] = i
        /\ queue'[k][2] \in {"result", "end"} => phase'[i] = "over"
        /\ queue'[k][2] = "end" =>
             k = Len(queue') /\ k - 1 > Len(queue) /\ queue'[k-1][2] = "result"
    BY <1>5 DEF Grows
  <2>2. IsEnd(k)' => queue'[k][2] = "end"
    BY DEF IsEnd
  <2>3. IsResult(k)' => queue'[k][2] = "result"
    BY DEF IsResult
  <2>4. ASSUME k = Len(queue'), k - 1 > Len(queue), queue'[k-1][2] = "result"
        PROVE  k - 1 \in Len(queue)+1..Len(queue') /\ IsResult(k - 1)'
    BY <2>4, <1>0, <1>5 DEF IsResult, Grows
  <2> QED
    BY <2>1, <2>2, <2>3, <2>4
<1>9. Taken' = Taken
  BY <1>1 DEF Taken
<1>10. \A j \in Slots : results[j].out # "none" =>
         results[j].id = j /\ phase'[j] = "over" /\ <<round, j>> \in shown
  BY <1>2, <1>3 DEF QueueInv
<1>11. \A k \in 1..Len(queue') : queue'[k][1] \in batch
  BY <1>6, <1>7, <1>8 DEF QueueInv
<1>12. \A k \in 1..Len(queue') : IsResult(k)' => phase'[queue'[k][1]] = "over"
  <2>1. ASSUME NEW k \in 1..Len(queue), IsResult(k)'
        PROVE  phase'[queue'[k][1]] = "over"
    <3>1. IsResult(k) /\ queue[k][1] # i
      BY <2>1, <1>4, <1>7
    <3>2. phase[queue[k][1]] = "over" /\ queue[k][1] \in Slots
      BY <3>1, <1>0 DEF QueueInv
    <3> QED
      BY <3>1, <3>2, <1>2, <1>7
  <2> QED
    BY <2>1, <1>6, <1>8
<1>13. ASSUME NEW k \in 1..Len(queue), IsEnd(k)'
       PROVE  EndWaits(k)'
  <2>1. IsEnd(k) /\ queue[k][1] # i /\ queue'[k] = queue[k]
    BY <1>13, <1>4, <1>7
  <2>2. /\ phase[queue[k][1]] = "over" /\ results[queue[k][1]].out = "none"
        /\ \A l \in 1..Len(queue) : IsEnd(l) /\ queue[l][1] = queue[k][1] => l = k
        /\ \/ <<round, queue[k][1]>> \in shown
           \/ \E l \in 1..k-1 : IsResult(l) /\ queue[l][1] = queue[k][1]
        /\ queue[k][1] \in Slots
    BY <2>1, <1>0 DEF QueueInv
  <2>3. \A l \in 1..Len(queue') : IsEnd(l)' /\ queue'[l][1] = queue'[k][1] => l = k
    BY <2>1, <2>2, <1>6, <1>7, <1>8
  <2>4. \A l \in 1..k-1 : l \in 1..Len(queue)
    BY <1>0
  <2>5. phase'[queue'[k][1]] = "over" /\ results'[queue'[k][1]].out = "none"
    BY <2>1, <2>2, <1>1, <1>2
  <2>6. \/ <<round', queue'[k][1]>> \in shown'
        \/ \E l \in 1..k-1 : IsResult(l)' /\ queue'[l][1] = queue'[k][1]
    BY <2>1, <2>2, <2>4, <1>1, <1>7
  <2> QED
    BY <2>3, <2>5, <2>6 DEF EndWaits
<1>14. ASSUME NEW k \in Len(queue)+1..Len(queue'), IsEnd(k)'
       PROVE  EndWaits(k)'
  <2>1. /\ queue'[k][1] = i /\ phase'[i] = "over" /\ k = Len(queue')
        /\ k - 1 \in Len(queue)+1..Len(queue') /\ IsResult(k - 1)' /\ queue'[k-1][1] = i
    BY <1>14, <1>8
  <2>2. \A l \in 1..Len(queue') : IsEnd(l)' /\ queue'[l][1] = queue'[k][1] => l = k
    BY <2>1, <1>4, <1>6, <1>7, <1>8
  <2>3. k - 1 \in 1..k-1
    BY <2>1, <1>0
  <2>4. phase'[queue'[k][1]] = "over" /\ results'[queue'[k][1]].out = "none"
    BY <2>1, <1>1, <1>3
  <2>5. \E l \in 1..k-1 : IsResult(l)' /\ queue'[l][1] = queue'[k][1]
    BY <2>1, <2>3
  <2> QED
    BY <2>2, <2>4, <2>5 DEF EndWaits
<1>15. \A k \in 1..Len(queue') : IsEnd(k)' => EndWaits(k)'
  BY <1>6, <1>13, <1>14
<1>16. done' = Cardinality(Taken')
  BY <1>1, <1>9 DEF QueueInv
<1> QED
  BY <1>1, <1>10, <1>11, <1>12, <1>15, <1>16 DEF QueueInv, EndWaits

LEMMA QueueTake ==
  ASSUME TypeInv, QueueInv,
         ShowResult \/ TakeEnd \/ \E what \in {"started", "spoke", "ended"} : ShowAgent(what)
  PROVE  QueueInv'
<1>1. /\ UNCHANGED <<pc, round, batch, phase>> /\ pc = "tools" /\ queue # <<>>
      /\ queue' = Tail(queue)
  BY TakeParts DEF turnVars
<1>2. /\ queue[1] \in Events /\ Head(queue) = queue[1] /\ Len(queue) \in Nat /\ Len(queue) >= 1
      /\ Len(queue') = Len(queue) - 1 /\ \A k \in 1..Len(queue)-1 : queue'[k] = queue[k+1]
  BY <1>1, QueueHead
<1>3. \A k \in 1..Len(queue') : /\ k + 1 \in 1..Len(queue) /\ queue'[k] = queue[k+1]
                                /\ IsEnd(k)' <=> IsEnd(k+1)
                                /\ IsResult(k)' <=> IsResult(k+1)
  BY <1>2 DEF IsEnd, IsResult
<1>4. batch \subseteq Slots /\ IsFiniteSet(batch)
  BY DEF TypeInv, TypeOK
<1>5. shown \subseteq shown'
  BY DEF ShowResult, TakeEnd, ShowAgent, viewVars
<1>6. \A k \in 1..Len(queue') : queue'[k][1] \in batch
  BY <1>1, <1>3 DEF QueueInv
<1>7. \A k \in 1..Len(queue') : IsResult(k)' => phase'[queue'[k][1]] = "over"
  BY <1>1, <1>3 DEF QueueInv
<1>8. IsResult(1) => <<round, queue[1][1]>> \in shown'
  <2>1. ASSUME IsResult(1)
        PROVE  ShowResult
    <3>1. queue[1][2] = "result"
      BY <2>1 DEF IsResult
    <3>2. ~TakeEnd /\ ~\E what \in {"started", "spoke", "ended"} : ShowAgent(what)
      BY <1>2, <3>1 DEF TakeEnd, ShowAgent, Take
    <3> QED
      BY <3>2
  <2> QED
    BY <2>1, <1>2 DEF ShowResult
<1>9. ASSUME NEW k \in 1..Len(queue'), IsEnd(k)'
      PROVE  /\ phase'[queue'[k][1]] = "over" /\ results[queue'[k][1]].out = "none"
             /\ \A l \in 1..Len(queue') : IsEnd(l)' /\ queue'[l][1] = queue'[k][1] => l = k
             /\ \/ <<round', queue'[k][1]>> \in shown'
                \/ \E l \in 1..k-1 : IsResult(l)' /\ queue'[l][1] = queue'[k][1]
  <2>1. IsEnd(k+1) /\ k + 1 \in 1..Len(queue) /\ queue'[k] = queue[k+1]
    BY <1>3, <1>9
  <2>2. EndWaits(k+1)
    BY <2>1, <1>1, QueueParts
  <2>3. \A l \in 1..Len(queue') : IsEnd(l)' /\ queue'[l][1] = queue'[k][1] => l = k
    <3> SUFFICES ASSUME NEW l \in 1..Len(queue'), IsEnd(l)', queue'[l][1] = queue'[k][1]
                 PROVE  l = k
      OBVIOUS
    <3>1. IsEnd(l+1) /\ l + 1 \in 1..Len(queue) /\ queue[l+1][1] = queue[k+1][1]
      BY <1>3, <2>1
    <3>2. l + 1 = k + 1
      BY <3>1, <2>2 DEF EndWaits
    <3> QED
      BY <3>2
  <2>4. \/ <<round', queue'[k][1]>> \in shown'
        \/ \E l \in 1..k-1 : IsResult(l)' /\ queue'[l][1] = queue'[k][1]
    <3>1. CASE <<round, queue[k+1][1]>> \in shown
      BY <3>1, <1>1, <1>5, <2>1
    <3>2. ASSUME NEW l \in 1..(k+1)-1, IsResult(l), queue[l][1] = queue[k+1][1]
          PROVE  \/ <<round', queue'[k][1]>> \in shown'
                 \/ \E j \in 1..k-1 : IsResult(j)' /\ queue'[j][1] = queue'[k][1]
      <4>1. CASE l = 1
        BY <4>1, <3>2, <1>1, <1>8, <2>1
      <4>2. CASE l # 1
        <5>1. l - 1 \in 1..k-1 /\ l - 1 \in 1..Len(queue') /\ (l - 1) + 1 = l
          BY <4>2, <1>2
        <5>2. IsResult(l-1)' /\ queue'[l-1] = queue[l]
          BY <5>1, <3>2, <1>3
        <5> QED
          BY <5>1, <5>2, <3>2, <2>1
      <4> QED
        BY <4>1, <4>2
    <3> QED
      BY <3>1, <3>2, <2>2 DEF EndWaits
  <2>5. phase'[queue'[k][1]] = "over" /\ results[queue'[k][1]].out = "none"
    BY <2>1, <2>2, <1>1 DEF EndWaits
  <2> QED
    BY <2>3, <2>4, <2>5
<1>10. CASE ~TakeEnd
  <2>1. UNCHANGED <<results, done>>
    BY <1>10 DEF ShowResult, ShowAgent
  <2>2. Taken' = Taken /\ done' = Cardinality(Taken')
    BY <2>1, <1>1 DEF Taken, QueueInv
  <2>3. \A i \in Slots : results'[i].out # "none" =>
          results'[i].id = i /\ phase'[i] = "over" /\ <<round', i>> \in shown'
    BY <2>1, <1>1, <1>5 DEF QueueInv
  <2>4. \A k \in 1..Len(queue') : IsEnd(k)' => EndWaits(k)'
    BY <1>9, <2>1 DEF EndWaits
  <2> QED
    BY <1>1, <1>6, <1>7, <2>2, <2>3, <2>4 DEF QueueInv, EndWaits
<1>11. CASE TakeEnd
  <2> DEFINE h == queue[1][1]
  <2>1. Take("end") /\ results' = Collected /\ done' = done + 1
    BY <1>11 DEF TakeEnd
  <2>2. /\ h \in batch /\ h \in Slots /\ phase[h] = "over" /\ <<round, h>> \in shown
        /\ queue[1][2] = "end" /\ queue[1][3] \in Outs
        /\ Collected[h] = [id |-> h, out |-> queue[1][3]]
        /\ \A j \in Slots : j # h => Collected[j] = results[j]
        /\ {i \in batch : Collected[i].out # "none"} = Taken \union {h}
        /\ Cardinality(Taken \union {h}) = done + 1
    BY <2>1, <1>2, EndParts
  <2> HIDE DEF h
  <2>3. Taken' = Taken \union {h}
    BY <1>1, <2>1, <2>2 DEF Taken
  <2>4. done' = Cardinality(Taken')
    BY <2>1, <2>2, <2>3
  <2>5. \A i \in Slots : results'[i].out # "none" =>
          results'[i].id = i /\ phase'[i] = "over" /\ <<round', i>> \in shown'
    <3> SUFFICES ASSUME NEW i \in Slots, results'[i].out # "none"
                 PROVE  results'[i].id = i /\ phase'[i] = "over" /\ <<round', i>> \in shown'
      OBVIOUS
    <3>1. CASE i = h
      BY <3>1, <1>1, <1>5, <2>1, <2>2
    <3>2. CASE i # h
      BY <3>2, <1>1, <1>5, <2>1, <2>2 DEF QueueInv
    <3> QED
      BY <3>1, <3>2
  <2>6. IsEnd(1) /\ 1 \in 1..Len(queue)
    BY <1>2, <2>2 DEF IsEnd
  <2>7. \A k \in 1..Len(queue') : IsEnd(k)' => EndWaits(k)'
    <3> SUFFICES ASSUME NEW k \in 1..Len(queue'), IsEnd(k)'
                 PROVE  EndWaits(k)'
      OBVIOUS
    <3>1. IsEnd(k+1) /\ k + 1 \in 1..Len(queue) /\ queue'[k] = queue[k+1] /\ k + 1 # 1
      BY <1>3, <1>2
    <3>2. EndWaits(k+1)
      BY <3>1, <1>1, QueueParts
    <3>3. queue'[k][1] # h
      BY <3>1, <3>2, <2>6 DEF EndWaits, h
    <3>4. queue'[k][1] \in Slots
      BY <1>4, <1>6
    <3>5. results'[queue'[k][1]].out = "none"
      BY <3>3, <3>4, <2>1, <2>2, <1>9
    <3> QED
      BY <3>5, <1>9 DEF EndWaits
  <2> QED
    BY <1>1, <1>6, <1>7, <2>4, <2>5, <2>7 DEF QueueInv, EndWaits
<1> QED
  BY <1>10, <1>11

LEMMA QueueStep ==
  ASSUME TypeInv, RoundInv, IdleInv, BatchInv, QueueInv, ShownInv, [Next]_vars
  PROVE  QueueInv'
<1>1. CASE Rests \/ NextRound \/ Stops
  BY <1>1 DEF Rests, NextRound, Stops, Ended, QueueInv
<1>2. ASSUME NEW i \in batch, CutStep(i), pc = "unwind"
      PROVE  QueueInv'
  <2>1. pc' = "unwind"
    BY <1>2, CutParts DEF TypeInv, TypeOK, turnVars
  <2> QED
    BY <2>1 DEF QueueInv
<1>3. CASE (\E a \in Agents : AgentStep(a)) \/ UNCHANGED vars
  <2>1. UNCHANGED <<pc, round, batch, phase, queue, done, results, shown>>
    BY <1>3, AgentParts DEF vars, turnVars, batchVars, viewVars
  <2> QED
    BY <2>1 DEF QueueInv, IsEnd, IsResult, Taken
<1> QED
  BY <1>1, <1>2, <1>3, QueueBegin, QueueTake, QueueWork, StepKinds

-----------------------------------------------------------------------------
(* Questions and sub-agents. *)

(* Who asks, writes or starts sub-agents is alone in its batch. *)
LEMMA AloneParts ==
  ASSUME TypeInv, BatchInv, AtTools, NEW i \in batch, Kind(i) \notin {"lookup", "reference"}
  PROVE  batch = {i}
<1>1. PICK m \in 1..Len(Calls) : At(m)
  BY DEF BatchInv
<1>2. Calls \in CallLists /\ batch = Batch(Calls, m)
  BY <1>1, CallsParts DEF At
<1>3. ~Safe(Calls[i])
  BY DEF Safe, Kind
<1> QED
  BY <1>2, <1>3, UnsafeAlone

LEMMA NoQuestions ==
  ASSUME QuestionInv, \A i \in Slots : phase[i] \in {"none", "over"}
  PROVE  question = {}
  BY DEF QuestionInv, Asking

(* The phases at the end of a batch and where no task lives. *)
LEMMA CalmParts ==
  ASSUME TypeInv, IdleInv, BatchInv, QueueInv,
         Rests \/ NextRound \/ NextBatch \/ \E r \in Replies : CallTools(r)
  PROVE  \A i \in Slots : phase[i] \in {"none", "over"}
<1>0. phase \in [Slots -> {"none", "over", "cut"} \union Live]
  BY DEF TypeInv, TypeOK
<1>1. CASE Rests
  BY <1>0, <1>1 DEF Rests, IdleInv, AtTools
<1>2. CASE NextRound
  BY <1>2, ResultsParts
<1>3. CASE NextBatch \/ \E r \in Replies : CallTools(r)
  <2>1. PICK cs \in CallLists : \E m \in 1..Len(cs) : Begins(cs, m)
    BY <1>3, BeginParts
  <2>2. PICK m \in 1..Len(cs) : Begins(cs, m)
    BY <2>1
  <2>3. \A i \in Slots : (i < m => phase[i] = "over") /\ (i >= m => phase[i] = "none")
    BY <2>2 DEF Begins
  <2>4. \A i \in Slots : i < m \/ i >= m
    BY CallParts
  <2> QED
    BY <2>3, <2>4
<1> QED
  BY <1>1, <1>2, <1>3

LEMMA QuestionInit == Init => QuestionInv
  BY DEF Init, QuestionInv

LEMMA QuestionStep ==
  ASSUME TypeInv, IdleInv, BatchInv, QueueInv, QuestionInv, [Next]_vars
  PROVE  QuestionInv'
<1>0. /\ phase \in [Slots -> {"none", "over", "cut"} \union Live] /\ batch \subseteq Slots
  BY DEF TypeInv, TypeOK
<1>1. CASE Rests \/ NextRound \/ NextBatch \/ \E r \in Replies : CallTools(r)
  <2>1. question = {}
    BY <1>1, CalmParts, NoQuestions
  <2>2. question' = question
    BY <1>1 DEF Rests, batchVars, NextRound, NextBatch, CallTools
  <2> QED
    BY <2>1, <2>2 DEF QuestionInv
<1>2. ASSUME question' \subseteq question, UNCHANGED <<batch, phase>>
      PROVE  QuestionInv'
  BY <1>2 DEF QuestionInv, Asking
<1>3. CASE ShowResult \/ TakeEnd \/ \E what \in {"started", "spoke", "ended"} : ShowAgent(what)
  <2>1. UNCHANGED <<batch, phase, question>>
    BY <1>3, TakeParts
  <2> QED
    BY <2>1, <1>2
<1>4. CASE \E a \in Agents : AgentStep(a)
  <2>1. UNCHANGED <<batch, phase>> /\ question' \subseteq question
    BY <1>4, AgentParts
  <2> QED
    BY <2>1, <1>2
<1>5. ASSUME NEW i \in batch
      PROVE  question = {} \/ (question = {<<"call", i>>} /\ Asking(i))
  BY <1>5 DEF QuestionInv, Asking
<1>6. ASSUME NEW i \in batch, pc = "tools", phase[i] \in Live, WorkStep(i)
      PROVE  QuestionInv'
  <2>1. batch' = batch /\ i \in Slots
    BY <1>6, <1>0, WorkParts
  <2>2. CASE \E out \in Outs : Finishes(i, out)
    <3>1. question' = {}
      BY <2>2, <1>5 DEF Finishes, Asking
    <3> QED
      BY <3>1 DEF QuestionInv
  <2>3. ASSUME NEW ph \in {"confirm", "ask"}, Waits(i, ph)
        PROVE  QuestionInv'
    <3>1. Kind(i) = ph /\ phase' = [phase EXCEPT ![i] = ph]
          /\ question' = (question \ {<<"call", i>>}) \union {<<"call", i>>}
      BY <2>3 DEF Waits
    <3>2. batch = {i}
      BY <3>1, <1>6, AloneParts DEF AtTools
    <3>3. question' = {<<"call", i>>}
      BY <3>1, <1>5
    <3> QED
      BY <1>0, <2>1, <3>1, <3>2, <3>3 DEF QuestionInv, Asking
  <2>4. CASE Waits(i, "exec") \/ Spawns(i)
    <3>1. question' = question \ {<<"call", i>>}
      BY <2>4 DEF Waits, Spawns
    <3>2. question' = {}
      BY <3>1, <1>5
    <3> QED
      BY <3>2 DEF QuestionInv
  <2>5. CASE ForwardEvent(i) \/ ForwardEnd(i)
    <3>1. phase[i] = "exec" /\ question' = question
      BY <2>5 DEF ForwardEvent, ForwardEnd, Forward
    <3>2. question' = {}
      BY <3>1, <1>5 DEF Asking
    <3> QED
      BY <3>2 DEF QuestionInv
  <2> QED
    BY <1>6, <2>2, <2>3, <2>4, <2>5 DEF WorkStep
<1>7. ASSUME NEW i \in batch, CutStep(i)
      PROVE  QuestionInv'
  <2>1. batch' = batch
    BY <1>7, <1>0, CutParts
  <2>2. CASE CutAgents(i)
    BY <2>1, <2>2, <1>2 DEF CutAgents
  <2>3. CASE Unwind(i)
    <3>1. question' = {}
      BY <2>3, <1>5 DEF Unwind
    <3> QED
      BY <3>1 DEF QuestionInv
  <2> QED
    BY <1>7, <2>2, <2>3 DEF CutStep
<1>8. CASE Stops
  BY <1>0, <1>8 DEF Stops, QuestionInv, Asking, Live
<1>9. CASE UNCHANGED vars
  BY <1>9 DEF vars, batchVars, QuestionInv, Asking
<1> QED
  BY <1>1, <1>3, <1>4, <1>6, <1>7, <1>8, <1>9, StepKinds

LEMMA AgentsInit == Init => AgentsInv
  BY DEF Init, AgentsInv, AtTools

(* Before its tools start, no sub-agent of a batch exists. *)
LEMMA NoAgentsBefore ==
  ASSUME AgentsInv, AtTools, NEW i \in batch,
         phase[i] \in {"gates", "confirm", "ask"} \/ Kind(i) # "spawn"
  PROVE  \A a \in Agents : agent[a] = "none"
  BY DEF AgentsInv, Spawner

(* The last end that spawn_agents forwards is that of the last sub-agent. *)
LEMMA ForwardParts ==
  ASSUME TypeInv, IdleInv, BatchInv, AgentsInv, InnerInv,
         NEW i \in batch, pc = "tools", Forward(i)
  PROVE  /\ Spawner(i) /\ phase[i] = "exec" /\ i \in Slots
         /\ Len(inner) \in Nat /\ Len(inner) >= 1 /\ Head(inner) = inner[1]
         /\ inner[1] \in Agents \X {"spoke", "ended"} /\ inner[1][1] \in Agents
         /\ inner' \in Seq(Agents \X {"spoke", "ended"}) /\ Len(inner') = Len(inner) - 1
         /\ \A k \in 1..Len(inner)-1 : inner'[k] = inner[k+1]
         /\ agent[inner[1][1]] # "none" /\ ~AtEnd(inner[1][1])
         /\ inner[1][2] = "ended" => agent[inner[1][1]] = "over"
<1>0. inner \in Seq(Agents \X {"spoke", "ended"}) /\ batch \subseteq Slots
  BY DEF TypeInv, TypeOK
<1>1. phase[i] = "exec" /\ Kind(i) = "spawn" /\ inner # <<>> /\ inner' = Tail(inner)
  BY DEF Forward
<1>2. Spawner(i) /\ i \in Slots
  BY <1>0, <1>1, AloneParts DEF AtTools, Spawner
<1>3. /\ Len(inner) \in Nat /\ Len(inner) >= 1 /\ Head(inner) = inner[1]
      /\ inner[1] \in Agents \X {"spoke", "ended"}
      /\ inner' \in Seq(Agents \X {"spoke", "ended"}) /\ Len(inner') = Len(inner) - 1
      /\ \A k \in 1..Len(inner)-1 : inner'[k] = inner[k+1]
  BY <1>0, <1>1, TailParts
<1>4. inner[1][1] \in Agents /\ 1 \in 1..Len(inner) /\ inner[1] = <<inner[1][1], inner[1][2]>>
  BY <1>3
<1> DEFINE a == inner[1][1]
<1>5. a \in Agents /\ inner[1][1] = a /\ (inner[1][2] = "ended" => inner[1] = <<a, "ended">>)
  BY <1>4
<1> HIDE DEF a
<1>6. /\ agent[a] # "over" => \A k \in 1..Len(inner) : inner[k] # <<a, "ended">>
      /\ agent[a] = "none" \/ AtEnd(a) => \A k \in 1..Len(inner) : inner[k][1] # a
  BY <1>1, <1>2, <1>5 DEF InnerInv
<1>7. agent[a] # "none" /\ ~AtEnd(a) /\ (inner[1][2] = "ended" => agent[a] = "over")
  BY <1>4, <1>5, <1>6
<1> QED
  BY <1>1, <1>2, <1>3, <1>4, <1>7 DEF a

LEMMA AgentsStep ==
  ASSUME TypeInv, IdleInv, BatchInv, QueueInv, AgentsInv, InnerInv, [Next]_vars
  PROVE  AgentsInv'
<1>0. /\ phase \in [Slots -> {"none", "over", "cut"} \union Live] /\ batch \subseteq Slots
      /\ agent \in [Agents -> {"none", "run", "cut", "over"}]
  BY DEF TypeInv, TypeOK
<1>1. CASE Rests \/ NextRound
  <2>1. \A i \in Slots : phase[i] \in {"none", "over"}
    BY <1>1, CalmParts
  <2>2. \A a \in Agents : agent[a] \in {"none", "over"}
    BY <1>0, <2>1 DEF AgentsInv
  <2>3. agent' = agent /\ ~AtTools'
    BY <1>1 DEF Rests, NextRound, agentVars, AtTools, Ended
  <2> QED
    BY <2>2, <2>3 DEF AgentsInv, AtTools
<1>2. CASE NextBatch \/ \E r \in Replies : CallTools(r)
  <2>1. agent' = [a \in Agents |-> "none"]
    BY <1>2 DEF NextBatch, CallTools, StartBatch
  <2> QED
    BY <2>1 DEF AgentsInv
<1>3. ASSUME UNCHANGED <<pc, batch, phase, agent>>, Calls' = Calls
      PROVE  AgentsInv'
  BY <1>3 DEF AgentsInv, AtTools, Spawner, Kind
<1>4. CASE ShowResult \/ TakeEnd \/ \E what \in {"started", "spoke", "ended"} : ShowAgent(what)
  <2>1. UNCHANGED <<pc, batch, phase, agent>> /\ Calls' = Calls
    BY <1>4, TakeParts DEF turnVars, agentVars
  <2> QED
    BY <2>1, <1>3
<1>5. ASSUME NEW i \in batch, pc = "tools", phase[i] \in Live, WorkStep(i)
      PROVE  AgentsInv'
  <2>1. UNCHANGED <<pc, batch>> /\ i \in Slots /\ Calls' = Calls /\ AtTools
    BY <1>5, <1>0, WorkParts DEF turnVars, AtTools
  <2>2. CASE (\E out \in Outs : Finishes(i, out)) \/ \E ph \in {"confirm", "ask", "exec"} : Waits(i, ph)
    <3>1. phase[i] \in {"gates", "confirm", "ask"} \/ Kind(i) # "spawn"
      BY <2>2 DEF Finishes, Waits
    <3>2. \A a \in Agents : agent[a] = "none"
      BY <2>1, <3>1, NoAgentsBefore
    <3>3. agent' = agent
      BY <2>2 DEF Finishes, Waits, agentVars
    <3> QED
      BY <3>2, <3>3 DEF AgentsInv
  <2>3. CASE Spawns(i)
    <3>1. phase' = [phase EXCEPT ![i] = "exec"] /\ Kind(i) = "spawn"
          /\ \A a \in Agents : agent'[a] \in {"none", "run"}
      BY <2>3 DEF Spawns, SpawnAgents
    <3>2. batch = {i}
      BY <2>1, <3>1, AloneParts
    <3>3. Spawner(i)' /\ phase'[i] = "exec"
      BY <1>0, <2>1, <3>1, <3>2 DEF Spawner, Kind
    <3>4. pc' = "tools"
      BY <1>5, <2>1
    <3> QED
      BY <2>1, <3>1, <3>3, <3>4 DEF AgentsInv, AtTools
  <2>4. CASE ForwardEvent(i)
    BY <2>1, <2>4, <1>3 DEF ForwardEvent
  <2>5. CASE ForwardEnd(i)
    <3>1. Forward(i) /\ Head(inner)[2] = "ended" /\ agent' = agent
      BY <2>5 DEF ForwardEnd
    <3>2. Spawner(i) /\ Head(inner) = inner[1] /\ inner[1][1] \in Agents /\ agent[inner[1][1]] = "over"
      BY <1>5, <3>1, ForwardParts
    <3>3. CASE phase' = phase
      BY <2>1, <3>1, <3>3, <1>3
    <3>4. CASE AllForwarded /\ phase' = [phase EXCEPT ![i] = "over"]
      <4>1. \A a \in Agents : agent[a] \in {"none", "over"}
        BY <3>2, <3>4 DEF AllForwarded
      <4>2. Spawner(i)' /\ phase'[i] = "over"
        BY <1>0, <2>1, <3>2, <3>4 DEF Spawner, Kind
      <4> QED
        BY <2>1, <3>1, <4>1, <4>2 DEF AgentsInv, AtTools
    <3> QED
      BY <2>5, <3>3, <3>4 DEF ForwardEnd
  <2> QED
    BY <1>5, <2>2, <2>3, <2>4, <2>5 DEF WorkStep
<1>6. ASSUME NEW i \in batch, pc = "unwind", CutStep(i)
      PROVE  AgentsInv'
  <2>1. UNCHANGED <<pc, batch>> /\ i \in Slots /\ Calls' = Calls /\ AtTools /\ pc' = "unwind"
    BY <1>6, <1>0, CutParts DEF turnVars, AtTools
  <2>2. CASE CutAgents(i)
    <3>1. /\ phase' = phase /\ agent' = [a \in Agents |-> IF agent[a] = "run" THEN "cut" ELSE agent[a]]
      BY <2>2 DEF CutAgents, unchangedByTasks
    <3>2. \A a \in Agents : /\ agent'[a] # "none" => agent[a] # "none"
                            /\ agent'[a] # "over" => agent[a] # "over"
      BY <3>1
    <3> QED
      BY <2>1, <3>1, <3>2 DEF AgentsInv, AtTools, Spawner, Kind
  <2>3. CASE Unwind(i)
    <3>1. /\ phase' = [phase EXCEPT ![i] = "over"] /\ agent' = agent
          /\ Kind(i) = "spawn" => ~AgentsAtWork
      BY <2>3 DEF Unwind, agentVars
    <3>2. ASSUME NEW a \in Agents, agent[a] # "none"
          PROVE  Spawner(i) /\ agent[a] = "over"
      <4>1. Spawner(i)
        BY <2>1, <3>2 DEF AgentsInv, Spawner
      <4>2. agent[a] \notin {"run", "cut"}
        BY <3>1, <4>1 DEF Spawner, AgentsAtWork
      <4>3. agent[a] \in {"none", "run", "cut", "over"}
        BY <1>0
      <4> QED
        BY <3>2, <4>1, <4>2, <4>3
    <3>3. phase'[i] = "over" /\ (Spawner(i) => Spawner(i)')
      BY <1>0, <2>1, <3>1 DEF Spawner, Kind
    <3> QED
      BY <2>1, <3>1, <3>2, <3>3 DEF AgentsInv, AtTools
  <2> QED
    BY <1>6, <2>2, <2>3 DEF CutStep
<1>7. ASSUME NEW a \in Agents, AgentStep(a)
      PROVE  AgentsInv'
  <2>1. UNCHANGED <<pc, batch, phase>> /\ Calls' = Calls
    BY <1>7, AgentParts DEF turnVars
  <2>2. agent' = agent \/ (agent[a] # "none" /\ agent' = [agent EXCEPT ![a] = "over"])
    BY <1>7 DEF AgentStep, AgentSpeaks, AgentEnds, AgentUnwinds
  <2>3. \A b \in Agents : /\ agent'[b] # "none" => agent[b] # "none"
                          /\ agent'[b] # "over" => agent[b] # "over"
                          /\ agent'[b] = "over" \/ agent'[b] = agent[b]
    BY <1>0, <2>2
  <2> QED
    BY <2>1, <2>3 DEF AgentsInv, AtTools, Spawner, Kind
<1>8. CASE Stops
  <2>1. /\ UNCHANGED <<batch, agent>> /\ Calls' = Calls /\ AtTools /\ pc' = "unwind"
        /\ phase' = [i \in Slots |-> IF phase[i] \in Live THEN "cut" ELSE phase[i]]
    BY <1>8 DEF Stops, agentVars, AtTools, Calls, Last
  <2>2. \A i \in Slots : /\ phase[i] \in {"exec", "cut"} => phase'[i] = "cut"
                         /\ phase[i] = "over" => phase'[i] = "over"
    BY <2>1 DEF Live
  <2> QED
    BY <2>1, <2>2 DEF AgentsInv, AtTools, Spawner, Kind
<1>9. CASE UNCHANGED vars
  <2>1. UNCHANGED <<pc, batch, phase, agent>> /\ Calls' = Calls
    BY <1>9 DEF vars, turnVars, batchVars, agentVars, Calls, Last
  <2> QED
    BY <2>1, <1>3
<1> QED
  BY <1>1, <1>2, <1>4, <1>5, <1>6, <1>7, <1>8, <1>9, StepKinds

-----------------------------------------------------------------------------
(* What sub-agents put. *)

LEMMA FinishShape ==
  ASSUME TypeInv, NEW i \in Slots, NEW out \in Outs, Finishes(i, out)
  PROVE  \A k \in Len(queue)+1..Len(queue') : queue'[k][2] \in {"result", "end"}
<1>1. queue \in Seq(Events) /\ Len(queue) \in Nat
  BY DEF TypeInv, Events
<1>2. queue' = queue \o Report(i, out)
  BY DEF Finishes, Over
<1>6. /\ Len(queue') = Len(queue) + 2
      /\ queue'[Len(queue) + 1][2] = "result" /\ queue'[Len(queue) + 2][2] = "end"
  BY <1>1, <1>2, ReportAdded
<1>7. \A k \in Len(queue)+1..Len(queue') : k = Len(queue) + 1 \/ k = Len(queue) + 2
  <2>1. Len(queue) \in Nat /\ Len(queue') = Len(queue) + 2
    BY <1>1, <1>6
  <2> QED
    BY <2>1
<1> QED
  BY <1>6, <1>7

LEMMA SpawnShape ==
  ASSUME TypeInv, NEW i \in Slots, Spawns(i)
  PROVE  /\ \A k \in Len(queue)+1..Len(queue') :
              queue'[k][2] = "started" /\ queue'[k][3] \in Agents /\ agent'[queue'[k][3]] = "run"
         /\ inner' = <<>> /\ Kind(i) = "spawn" /\ phase' = [phase EXCEPT ![i] = "exec"]
         /\ \A a \in Agents : agent'[a] \in {"none", "run"}
         /\ phase[i] \in {"gates", "confirm"}
<1>0. queue \in Seq(Events) /\ Len(queue) \in Nat
  BY DEF TypeInv, Events
<1>1. PICK n \in Agents :
        /\ queue' = queue \o [a \in 1..n |-> <<i, "started", a>>]
        /\ agent' = [a \in Agents |-> IF a <= n THEN "run" ELSE "none"]
  BY DEF Spawns, SpawnAgents
<1>2. n \in Nat /\ \A a \in 1..n : <<i, "started", a>> \in Events /\ a \in Agents /\ a <= n
  <2>1. n \in Nat /\ n <= MaxAgents /\ MaxAgents \in Nat
    BY ConstantParts DEF Agents
  <2>2. \A a \in 1..n : a \in Agents /\ a <= n
    BY <2>1 DEF Agents
  <2> QED
    BY <2>1, <2>2 DEF Events, AgentEvents
<1> DEFINE st == [a \in 1..n |-> <<i, "started", a>>]
<1>3. st \in Seq(Events) /\ Len(st) = n /\ \A a \in 1..n : st[a] = <<i, "started", a>>
  BY <1>2
<1>4. queue' = queue \o st
  BY <1>1
<1> HIDE DEF st
<1>5. /\ Len(queue \o st) = Len(queue) + Len(st)
      /\ \A k \in 1..Len(st) : (queue \o st)[Len(queue) + k] = st[k]
  <2>1. queue \in Seq(Events) /\ st \in Seq(Events)
    BY <1>0, <1>3
  <2> QED
    BY <2>1, ConcatParts
<1>6. ASSUME NEW k \in Len(queue)+1..Len(queue')
      PROVE  queue'[k][2] = "started" /\ queue'[k][3] \in Agents /\ agent'[queue'[k][3]] = "run"
  <2>0. Len(queue') = Len(queue) + n /\ Len(queue) \in Nat /\ n \in Nat
    BY <1>0, <1>2, <1>3, <1>4, <1>5
  <2>1. k - Len(queue) \in 1..n /\ k = Len(queue) + (k - Len(queue))
    BY <2>0
  <2>2. queue'[k] = <<i, "started", k - Len(queue)>>
    BY <2>1, <1>3, <1>4, <1>5
  <2>3. k - Len(queue) \in Agents /\ k - Len(queue) <= n
    BY <2>1, <1>2
  <2> QED
    BY <2>2, <2>3, <1>1
<1>7. inner' = <<>> /\ Kind(i) = "spawn" /\ phase' = [phase EXCEPT ![i] = "exec"]
      /\ phase[i] \in {"gates", "confirm"}
  BY DEF Spawns, SpawnAgents
<1>8. \A a \in Agents : agent'[a] \in {"none", "run"}
  BY <1>1
<1> QED
  BY <1>6, <1>7, <1>8

LEMMA ForwardShape ==
  ASSUME TypeInv, NEW i \in Slots, ForwardEvent(i) \/ ForwardEnd(i)
  PROVE  /\ Len(queue) + 1 \in 1..Len(queue')
         /\ queue'[Len(queue) + 1] = <<i, inner[1][2], inner[1][1]>>
         /\ \A k \in Len(queue)+1..Len(queue') :
              k # Len(queue) + 1 => queue'[k][2] \in {"result", "end"} /\ phase'[i] = "over"
         /\ inner[1][2] = "ended" => ForwardEnd(i)
         /\ inner[1][2] = "spoke" => ForwardEvent(i)
         /\ inner[1] \in Agents \X {"spoke", "ended"}
         /\ UNCHANGED <<agent, agentShown>> /\ Forward(i)
         /\ phase' = phase \/ (AllForwarded /\ phase' = [phase EXCEPT ![i] = "over"])
<1>0. queue \in Seq(Events) /\ Len(queue) \in Nat /\ inner \in Seq(Agents \X {"spoke", "ended"})
      /\ phase \in [Slots -> {"none", "over", "cut"} \union Live]
  BY DEF TypeInv, TypeOK, Events
<1>1. inner # <<>> /\ Forward(i)
  BY DEF ForwardEvent, ForwardEnd, Forward
<1>2. Head(inner) = inner[1] /\ inner[1] \in Agents \X {"spoke", "ended"}
  BY <1>0, <1>1, TailParts
<1>3. /\ inner[1][2] = "ended" => ForwardEnd(i)
      /\ inner[1][2] = "spoke" => ForwardEvent(i)
  BY <1>2 DEF ForwardEvent, ForwardEnd
<1>4. UNCHANGED <<agent, agentShown>>
      /\ (phase' = phase \/ (AllForwarded /\ phase' = [phase EXCEPT ![i] = "over"]))
  BY DEF ForwardEvent, ForwardEnd, unchangedByTasks, viewVars
<1> DEFINE e == <<i, inner[1][2], inner[1][1]>>
           q == Append(queue, e)
<1>5. e \in Events
  BY <1>2 DEF Events, AgentEvents
<1> HIDE DEF e
<1>6. q \in Seq(Events) /\ Len(q) = Len(queue) + 1 /\ q[Len(queue) + 1] = e
  BY <1>0, <1>5, AppendParts
<1>7. \/ queue' = q
      \/ queue' = q \o Report(i, "ok") /\ phase' = [phase EXCEPT ![i] = "over"]
  BY <1>2 DEF ForwardEvent, ForwardEnd, e
<1> HIDE DEF q
<1>8. CASE queue' = q
  <2>1. Len(queue) + 1 \in 1..Len(queue') /\ \A k \in Len(queue)+1..Len(queue') : k = Len(queue) + 1
    <3>1. Len(queue) \in Nat /\ Len(queue') = Len(queue) + 1
      BY <1>0, <1>6, <1>8
    <3> QED
      BY <3>1
  <2> QED
    BY <2>1, <1>1, <1>2, <1>3, <1>4, <1>6, <1>8 DEF e
<1>9. CASE queue' = q \o Report(i, "ok") /\ phase' = [phase EXCEPT ![i] = "over"]
  <2>1. "ok" \in Outs
    BY DEF Outs
  <2>2. /\ Len(queue') = Len(q) + 2 /\ \A k \in 1..Len(q) : queue'[k] = q[k]
        /\ queue'[Len(q) + 1] = <<i, "result", "ok">> /\ queue'[Len(q) + 2] = <<i, "end", "ok">>
    BY <1>6, <1>9, <2>1, ReportAdded
  <2>3. /\ Len(queue) \in Nat /\ Len(q) = Len(queue) + 1
        /\ Len(queue) + 1 \in 1..Len(q)
        /\ (Len(queue) + 1) + 1 = Len(queue) + 2 /\ (Len(queue) + 1) + 2 = Len(queue) + 3
    BY <1>0, <1>6
  <2>7. /\ Len(queue') = Len(queue) + 3 /\ queue'[Len(queue) + 1] = e
        /\ queue'[Len(queue) + 2][2] = "result" /\ queue'[Len(queue) + 3][2] = "end"
    BY <1>6, <2>2, <2>3
  <2>8. /\ Len(queue) + 1 \in 1..Len(queue')
        /\ \A k \in Len(queue)+1..Len(queue') :
             k = Len(queue) + 1 \/ k = Len(queue) + 2 \/ k = Len(queue) + 3
    <3>1. Len(queue) \in Nat /\ Len(queue') = Len(queue) + 3
      BY <1>0, <2>7
    <3> QED
      BY <3>1
  <2>9. phase'[i] = "over"
    BY <1>0, <1>9
  <2> QED
    BY <2>7, <2>8, <2>9, <1>1, <1>2, <1>3, <1>4 DEF e
<1> QED
  BY <1>7, <1>8, <1>9

(* What a call adds of a sub-agent that has not ended; its end comes last.   *)
LEMMA WorkNews ==
  ASSUME TypeInv, IdleInv, BatchInv, AgentsInv, OutboxInv, InnerInv,
         NEW i \in batch, pc = "tools", phase[i] \in Live, WorkStep(i)
  PROVE  /\ \A b \in Agents : \A k \in Len(queue)+1..Len(queue') : IsOf(k, b)' =>
              /\ agent'[b] # "none" /\ ~AtEnd(b)
              /\ EndOf(k, b)' => \A l \in Len(queue)+1..Len(queue') : IsOf(l, b)' => l <= k
         /\ \A b \in Agents : agent'[b] = "none" => agent[b] = "none"
         /\ agentShown' = agentShown
<1>0. batch \subseteq Slots /\ i \in Slots /\ AtTools
  BY DEF TypeInv, TypeOK, AtTools
<1>1. agentShown' = agentShown
  BY <1>0, WorkParts DEF viewVars
<1>2. ASSUME NEW out \in Outs, Finishes(i, out)
      PROVE  /\ \A b \in Agents : \A k \in Len(queue)+1..Len(queue') : ~IsOf(k, b)'
             /\ agent' = agent
  BY <1>0, <1>2, FinishShape DEF IsOf, Finishes, agentVars
<1>3. ASSUME NEW ph \in {"confirm", "ask", "exec"}, Waits(i, ph)
      PROVE  /\ \A b \in Agents : \A k \in Len(queue)+1..Len(queue') : ~IsOf(k, b)'
             /\ agent' = agent
  <2>1. queue' = queue /\ agent' = agent
    BY <1>3 DEF Waits, agentVars
  <2>2. \A k \in Len(queue)+1..Len(queue') : k \notin 1..Len(queue')
    <3>1. Len(queue) \in Nat
      BY DEF TypeInv
    <3> QED
      BY <2>1, <3>1
  <2> QED
    BY <2>1, <2>2 DEF IsOf
<1>4. CASE Spawns(i)
  <2>1. \A a \in Agents : agent[a] = "none"
    <3>1. phase[i] \in {"gates", "confirm", "ask"}
      BY <1>0, <1>4, SpawnShape
    <3> QED
      BY <1>0, <3>1, NoAgentsBefore
  <2>2. \A b \in Agents : ~AtEnd(b)
    BY <2>1 DEF OutboxInv, AtEnd, EndOf, IsOf
  <2>3. \A k \in Len(queue)+1..Len(queue') :
          queue'[k][2] = "started" /\ queue'[k][3] \in Agents /\ agent'[queue'[k][3]] = "run"
    BY <1>0, <1>4, SpawnShape
  <2> QED
    BY <1>1, <2>1, <2>2, <2>3 DEF IsOf, EndOf
<1>5. CASE ForwardEvent(i) \/ ForwardEnd(i)
  <2>1. /\ \A k \in Len(queue)+1..Len(queue') : k # Len(queue) + 1 => queue'[k][2] \in {"result", "end"}
        /\ queue'[Len(queue) + 1] = <<i, inner[1][2], inner[1][1]>>
        /\ agent' = agent /\ Forward(i)
    BY <1>0, <1>5, ForwardShape
  <2>2. agent[inner[1][1]] # "none" /\ ~AtEnd(inner[1][1])
    BY <2>1, ForwardParts
  <2>3. \A b \in Agents : \A k \in Len(queue)+1..Len(queue') :
          IsOf(k, b)' => k = Len(queue) + 1 /\ b = inner[1][1]
    BY <2>1 DEF IsOf
  <2>4. Len(queue) + 1 <= Len(queue) + 1
    <3>1. Len(queue) \in Nat
      BY DEF TypeInv
    <3> QED
      BY <3>1
  <2> QED
    BY <1>1, <2>1, <2>2, <2>3, <2>4
<1> QED
  BY <1>1, <1>2, <1>3, <1>4, <1>5 DEF WorkStep

(* What a step of the consumer leaves of it. *)
LEMMA TakeNews ==
  ASSUME TypeInv, OutboxInv,
         ShowResult \/ TakeEnd \/ \E what \in {"started", "spoke", "ended"} : ShowAgent(what)
  PROVE  /\ Len(queue') \in Nat /\ Len(queue) \in Nat /\ Len(queue) = Len(queue') + 1
         /\ \A k \in 1..Len(queue') : k + 1 \in 1..Len(queue) /\ queue'[k] = queue[k+1]
         /\ \A b \in Agents : \A k \in 1..Len(queue') :
              /\ IsOf(k, b)' <=> IsOf(k+1, b)
              /\ EndOf(k, b)' <=> EndOf(k+1, b)
         /\ \A b \in Agents : agentShown'[b] = "ended" <=> agentShown[b] = "ended" \/ EndOf(1, b)
         /\ \A b \in Agents : agentShown[b] = "none" /\ ~IsOf(1, b) => agentShown'[b] = "none"
         /\ \A b \in Agents : AtEnd(b)' <=> AtEnd(b)
<1>1. pc = "tools" /\ queue # <<>> /\ queue' = Tail(queue)
  BY TakeParts
<1>2. /\ queue[1] \in Events /\ Head(queue) = queue[1] /\ Len(queue) \in Nat /\ Len(queue) >= 1
      /\ Len(queue') = Len(queue) - 1 /\ \A k \in 1..Len(queue)-1 : queue'[k] = queue[k+1]
  BY <1>1, QueueHead
<1>3. /\ Len(queue') \in Nat /\ Len(queue) \in Nat /\ Len(queue) = Len(queue') + 1
      /\ \A k \in 1..Len(queue') : k + 1 \in 1..Len(queue) /\ queue'[k] = queue[k+1]
  BY <1>2
<1>4. \A b \in Agents : \A k \in 1..Len(queue') :
        /\ IsOf(k, b)' <=> IsOf(k+1, b)
        /\ EndOf(k, b)' <=> EndOf(k+1, b)
  BY <1>3 DEF IsOf, EndOf
<1>5. /\ \A b \in Agents : agentShown'[b] = "ended" <=> agentShown[b] = "ended" \/ EndOf(1, b)
      /\ \A b \in Agents : agentShown[b] = "none" /\ ~IsOf(1, b) => agentShown'[b] = "none"
  <2>0. 1 \in 1..Len(queue)
    BY <1>2
  <2>1. CASE ShowResult \/ TakeEnd
    <3>1. agentShown' = agentShown /\ queue[1][2] \in {"result", "end"}
      BY <2>1, <1>2 DEF ShowResult, TakeEnd, Take, viewVars
    <3> QED
      BY <3>1 DEF EndOf, IsOf
  <2>2. ASSUME NEW what \in {"started", "spoke", "ended"}, ShowAgent(what)
        PROVE  /\ \A b \in Agents : agentShown'[b] = "ended" <=> agentShown[b] = "ended" \/ EndOf(1, b)
               /\ \A b \in Agents : agentShown[b] = "none" /\ ~IsOf(1, b) => agentShown'[b] = "none"
    <3>1. agentShown' = [agentShown EXCEPT ![queue[1][3]] = what] /\ queue[1][2] = what
      BY <2>2, <1>2 DEF ShowAgent, Take
    <3>2. queue[1][3] \in Agents
      BY <3>1, <1>2, EventParts
    <3>3. agentShown \in [Agents -> {"none", "started", "spoke", "ended"}]
      BY DEF TypeInv, TypeOK
    <3>4. IsOf(1, queue[1][3])
      BY <2>0, <3>1 DEF IsOf
    <3>5. agentShown[queue[1][3]] # "ended"
      BY <1>1, <2>0, <3>2, <3>4 DEF OutboxInv
    <3>6. \A b \in Agents : b # queue[1][3] => agentShown'[b] = agentShown[b] /\ ~IsOf(1, b) /\ ~EndOf(1, b)
      BY <3>1, <3>2, <3>3 DEF IsOf, EndOf
    <3>7. agentShown'[queue[1][3]] = what /\ (EndOf(1, queue[1][3]) <=> what = "ended")
      BY <2>0, <3>1, <3>2, <3>3 DEF EndOf
    <3> QED
      BY <3>4, <3>5, <3>6, <3>7
  <2> QED
    BY <2>1, <2>2
<1>6. ASSUME NEW b \in Agents
      PROVE  AtEnd(b)' <=> AtEnd(b)
  <2>1. ASSUME AtEnd(b)
        PROVE  AtEnd(b)'
    <3>1. CASE agentShown[b] = "ended" \/ EndOf(1, b)
      BY <3>1, <1>5 DEF AtEnd
    <3>2. ASSUME NEW k \in 1..Len(queue), EndOf(k, b), k # 1
          PROVE  AtEnd(b)'
      <4>1. k - 1 \in 1..Len(queue') /\ (k - 1) + 1 = k
        BY <1>3, <3>2
      <4>2. EndOf(k-1, b)'
        BY <4>1, <3>2, <1>4
      <4> QED
        BY <4>1, <4>2 DEF AtEnd
    <3> QED
      BY <2>1, <3>1, <3>2 DEF AtEnd
  <2>2. ASSUME AtEnd(b)'
        PROVE  AtEnd(b)
    <3>1. CASE agentShown'[b] = "ended"
      <4>1. 1 \in 1..Len(queue)
        BY <1>2
      <4> QED
        BY <3>1, <4>1, <1>5 DEF AtEnd
    <3>2. ASSUME NEW k \in 1..Len(queue'), EndOf(k, b)'
          PROVE  AtEnd(b)
      BY <3>2, <1>3, <1>4 DEF AtEnd
    <3> QED
      BY <2>2, <3>1, <3>2 DEF AtEnd
  <2> QED
    BY <2>1, <2>2
<1> QED
  BY <1>3, <1>4, <1>5, <1>6

LEMMA OutboxInit == Init => OutboxInv
  BY DEF Init, OutboxInv

LEMMA OutboxStep ==
  ASSUME TypeInv, IdleInv, BatchInv, QueueInv, AgentsInv, OutboxInv, InnerInv, [Next]_vars
  PROVE  OutboxInv'
<1>0. batch \subseteq Slots /\ Len(queue) \in Nat
  BY DEF TypeInv, TypeOK
<1>1. CASE Rests \/ NextRound \/ Stops
  BY <1>1 DEF Rests, NextRound, Stops, Ended, OutboxInv
<1>2. CASE NextBatch \/ \E r \in Replies : CallTools(r)
  <2>1. queue' = <<>> /\ agentShown' = [a \in Agents |-> "none"]
    BY <1>2 DEF NextBatch, CallTools, StartBatch
  <2> QED
    BY <2>1 DEF OutboxInv
<1>3. CASE ShowResult \/ TakeEnd \/ \E what \in {"started", "spoke", "ended"} : ShowAgent(what)
  <2>0. UNCHANGED agent /\ pc = "tools"
    BY <1>3, TakeParts DEF agentVars
  <2> SUFFICES ASSUME NEW b \in Agents
               PROVE  /\ agent'[b] = "none" => agentShown'[b] = "none" /\ \A k \in 1..Len(queue') : ~IsOf(k, b)'
                      /\ agentShown'[b] = "ended" => \A k \in 1..Len(queue') : ~IsOf(k, b)'
                      /\ \A k, l \in 1..Len(queue') : EndOf(k, b)' /\ IsOf(l, b)' => l <= k
    BY DEF OutboxInv
  <2>1. /\ Len(queue') \in Nat /\ Len(queue) = Len(queue') + 1
        /\ \A k \in 1..Len(queue') : /\ k + 1 \in 1..Len(queue)
                                     /\ IsOf(k, b)' <=> IsOf(k+1, b)
                                     /\ EndOf(k, b)' <=> EndOf(k+1, b)
        /\ agentShown'[b] = "ended" <=> agentShown[b] = "ended" \/ EndOf(1, b)
        /\ agentShown[b] = "none" /\ ~IsOf(1, b) => agentShown'[b] = "none"
        /\ 1 \in 1..Len(queue)
    BY <1>3, TakeNews
  <2>2. /\ agent[b] = "none" => agentShown[b] = "none" /\ \A k \in 1..Len(queue) : ~IsOf(k, b)
        /\ agentShown[b] = "ended" => \A k \in 1..Len(queue) : ~IsOf(k, b)
        /\ \A k, l \in 1..Len(queue) : EndOf(k, b) /\ IsOf(l, b) => l <= k
    BY <2>0 DEF OutboxInv
  <2>3. ASSUME EndOf(1, b), NEW k \in 1..Len(queue'), IsOf(k, b)'
        PROVE  FALSE
    <3>1. k + 1 <= 1
      BY <2>1, <2>2, <2>3
    <3> QED
      BY <3>1, <2>1
  <2>4. \A k, l \in 1..Len(queue') : EndOf(k, b)' /\ IsOf(l, b)' => l + 1 <= k + 1
    BY <2>1, <2>2
  <2> QED
    BY <2>0, <2>1, <2>2, <2>3, <2>4
<1>4. ASSUME NEW i \in batch, pc = "tools", phase[i] \in Live, WorkStep(i)
      PROVE  OutboxInv'
  <2> SUFFICES ASSUME NEW b \in Agents
               PROVE  /\ agent'[b] = "none" => agentShown'[b] = "none" /\ \A k \in 1..Len(queue') : ~IsOf(k, b)'
                      /\ agentShown'[b] = "ended" => \A k \in 1..Len(queue') : ~IsOf(k, b)'
                      /\ \A k, l \in 1..Len(queue') : EndOf(k, b)' /\ IsOf(l, b)' => l <= k
    BY DEF OutboxInv
  <2>1. /\ \A k \in Len(queue)+1..Len(queue') : IsOf(k, b)' =>
             /\ agent'[b] # "none" /\ ~AtEnd(b)
             /\ EndOf(k, b)' => \A l \in Len(queue)+1..Len(queue') : IsOf(l, b)' => l <= k
        /\ agent'[b] = "none" => agent[b] = "none"
        /\ agentShown' = agentShown
    BY <1>4, WorkNews
  <2>2. Grows(i)
    BY <1>0, <1>4, GrowParts
  <2>3. \A k \in 1..Len(queue) : (IsOf(k, b)' <=> IsOf(k, b)) /\ (EndOf(k, b)' <=> EndOf(k, b))
    BY <1>0, <2>2 DEF Grows, IsOf, EndOf
  <2>4. \A k \in 1..Len(queue') : k \in 1..Len(queue) \/ k \in Len(queue)+1..Len(queue')
    BY <1>0, <2>2 DEF Grows
  <2>5. /\ agent[b] = "none" => agentShown[b] = "none" /\ \A k \in 1..Len(queue) : ~IsOf(k, b)
        /\ agentShown[b] = "ended" => \A k \in 1..Len(queue) : ~IsOf(k, b)
        /\ \A k, l \in 1..Len(queue) : EndOf(k, b) /\ IsOf(l, b) => l <= k
    BY <1>4 DEF OutboxInv
  <2>6. ASSUME NEW k \in 1..Len(queue'), NEW l \in 1..Len(queue'), EndOf(k, b)', IsOf(l, b)'
        PROVE  l <= k
    <3>1. CASE k \in 1..Len(queue) /\ l \in 1..Len(queue)
      BY <3>1, <2>3, <2>5, <2>6
    <3>2. CASE k \in 1..Len(queue) /\ l \in Len(queue)+1..Len(queue')
      <4>1. AtEnd(b)
        BY <3>2, <2>3, <2>6 DEF AtEnd
      <4> QED
        BY <4>1, <3>2, <2>1, <2>6
    <3>3. CASE k \in Len(queue)+1..Len(queue') /\ l \in 1..Len(queue)
      BY <3>3, <1>0
    <3>4. CASE k \in Len(queue)+1..Len(queue') /\ l \in Len(queue)+1..Len(queue')
      <4>1. IsOf(k, b)'
        BY <2>6 DEF IsOf, EndOf
      <4> QED
        BY <4>1, <3>4, <2>1, <2>6
    <3> QED
      BY <3>1, <3>2, <3>3, <3>4, <2>4
  <2>7. agentShown[b] = "ended" => AtEnd(b)
    BY DEF AtEnd
  <2> QED
    BY <2>1, <2>3, <2>4, <2>5, <2>6, <2>7
<1>5. ASSUME NEW i \in batch, CutStep(i), pc = "unwind"
      PROVE  OutboxInv'
  <2>1. pc' = "unwind"
    BY <1>5, <1>0, CutParts DEF turnVars
  <2> QED
    BY <2>1 DEF OutboxInv
<1>6. ASSUME NEW a \in Agents, AgentStep(a)
      PROVE  OutboxInv'
  <2>1. UNCHANGED <<pc, queue, agentShown>>
    BY <1>6, AgentParts DEF turnVars, viewVars
  <2>2. \A b \in Agents : agent'[b] = "none" => agent[b] = "none"
    BY <1>6 DEF AgentStep, AgentSpeaks, AgentEnds, AgentUnwinds, TypeInv, TypeOK
  <2> QED
    BY <2>1, <2>2 DEF OutboxInv, IsOf, EndOf
<1>7. CASE UNCHANGED vars
  BY <1>7 DEF vars, turnVars, batchVars, agentVars, viewVars, OutboxInv, IsOf, EndOf
<1> QED
  BY <1>1, <1>2, <1>3, <1>4, <1>5, <1>6, <1>7, StepKinds

LEMMA InnerInit == Init => InnerInv
  BY DEF Init, InnerInv

(* InnerInv for one sub-agent. *)
Outgoing(a) ==
  /\ agent[a] # "over" => ~AtEnd(a) /\ \A k \in 1..Len(inner) : inner[k] # <<a, "ended">>
  /\ agent[a] = "none" \/ AtEnd(a) => \A k \in 1..Len(inner) : inner[k][1] # a
  /\ agent[a] = "over" => AtEnd(a) \/ \E k \in 1..Len(inner) : inner[k] = <<a, "ended">>
  /\ \A k, l \in 1..Len(inner) : inner[k] = <<a, "ended">> /\ inner[l][1] = a => l <= k

LEMMA InnerParts ==
  InnerInv <=> (pc = "tools" => \A i \in Slots : Spawner(i) /\ phase[i] = "exec" =>
                  \A a \in Agents : Outgoing(a))
  BY DEF InnerInv, Outgoing

LEMMA InnerForward ==
  ASSUME TypeInv, IdleInv, BatchInv, AgentsInv, OutboxInv, InnerInv,
         NEW i \in batch, pc = "tools", ForwardEvent(i) \/ ForwardEnd(i), phase' = phase
  PROVE  InnerInv'
<1>0. batch \subseteq Slots /\ Len(queue) \in Nat /\ i \in Slots /\ pc' = pc /\ batch' = batch /\ Calls' = Calls
  <2>1. WorkStep(i)
    BY DEF WorkStep
  <2> QED
    BY <2>1, WorkParts DEF TypeInv, TypeOK, turnVars
<1>1. /\ Len(queue) + 1 \in 1..Len(queue')
      /\ queue'[Len(queue) + 1] = <<i, inner[1][2], inner[1][1]>>
      /\ \A k \in Len(queue)+1..Len(queue') : k # Len(queue) + 1 => queue'[k][2] \in {"result", "end"}
      /\ inner[1] \in Agents \X {"spoke", "ended"}
      /\ UNCHANGED <<agent, agentShown>> /\ Forward(i)
  BY <1>0, ForwardShape
<1>2. /\ Spawner(i) /\ phase[i] = "exec"
      /\ Len(inner) \in Nat /\ Len(inner) >= 1 /\ inner[1][1] \in Agents
      /\ Len(inner') = Len(inner) - 1
      /\ \A k \in 1..Len(inner)-1 : inner'[k] = inner[k+1]
      /\ ~AtEnd(inner[1][1])
      /\ inner[1][2] = "ended" => agent[inner[1][1]] = "over"
  BY <1>1, ForwardParts
<1>3. Grows(i)
  <2>1. WorkStep(i)
    BY DEF WorkStep
  <2> QED
    BY <1>0, <2>1, GrowParts
<1> SUFFICES ASSUME NEW b \in Agents
             PROVE  Outgoing(b)'
  <2>1. \A j \in Slots : Spawner(j)' => j = i
    BY <1>0, <1>2 DEF Spawner
  <2> QED
    BY <2>1 DEF InnerInv, Outgoing
<1>4. Outgoing(b)
  BY <1>0, <1>2, InnerParts
<1>5. \A k \in 1..Len(queue') : \/ k \in 1..Len(queue) /\ queue'[k] = queue[k]
                                \/ k = Len(queue) + 1
                                \/ queue'[k][2] \in {"result", "end"}
  BY <1>0, <1>1, <1>3 DEF Grows
<1>6. AtEnd(b)' <=> AtEnd(b) \/ inner[1] = <<b, "ended">>
  <2>1. ASSUME AtEnd(b)
        PROVE  AtEnd(b)'
    <3>1. ASSUME NEW k \in 1..Len(queue), EndOf(k, b)
          PROVE  k \in 1..Len(queue') /\ EndOf(k, b)'
      BY <1>0, <1>3, <3>1 DEF Grows, EndOf
    <3> QED
      BY <2>1, <3>1, <1>1 DEF AtEnd
  <2>2. ASSUME inner[1] = <<b, "ended">>
        PROVE  AtEnd(b)'
    <3>1. PICK k : k = Len(queue) + 1
      OBVIOUS
    <3>2. EndOf(k, b)'
      BY <2>2, <3>1, <1>1 DEF EndOf
    <3> QED
      BY <3>1, <3>2, <1>1 DEF AtEnd
  <2>3. ASSUME AtEnd(b)', ~AtEnd(b)
        PROVE  inner[1] = <<b, "ended">>
    <3>1. PICK k \in 1..Len(queue') : EndOf(k, b)'
      BY <2>3, <1>1 DEF AtEnd
    <3>2. queue'[k][2] = "ended" /\ queue'[k][3] = b
      BY <3>1 DEF EndOf
    <3>3. ~(k \in 1..Len(queue) /\ queue'[k] = queue[k])
      BY <2>3, <3>2 DEF AtEnd, EndOf
    <3>4. k = Len(queue) + 1
      BY <3>2, <3>3, <1>5
    <3>5. inner[1][2] = "ended" /\ inner[1][1] = b
      BY <3>2, <3>4, <1>1
    <3> QED
      BY <3>5, <1>1
  <2> QED
    BY <2>1, <2>2, <2>3
<1>7. \A k \in 1..Len(inner') : k + 1 \in 1..Len(inner) /\ inner'[k] = inner[k+1] /\ k \in Nat
  BY <1>2
<1>8. 1 \in 1..Len(inner)
  BY <1>2
<1>9. agent'[b] # "over" => ~AtEnd(b)' /\ \A k \in 1..Len(inner') : inner'[k] # <<b, "ended">>
  BY <1>1, <1>4, <1>6, <1>7, <1>8 DEF Outgoing
<1>10. agent'[b] = "none" \/ AtEnd(b)' => \A k \in 1..Len(inner') : inner'[k][1] # b
  <2>1. CASE agent[b] = "none" \/ AtEnd(b)
    BY <2>1, <1>4, <1>7 DEF Outgoing
  <2>2. ASSUME inner[1] = <<b, "ended">>, NEW k \in 1..Len(inner'), inner'[k][1] = b
        PROVE  FALSE
    <3>1. k + 1 <= 1
      BY <2>2, <1>4, <1>7, <1>8 DEF Outgoing
    <3> QED
      BY <3>1, <1>7
  <2> QED
    BY <2>1, <2>2, <1>1, <1>6
<1>11. agent'[b] = "over" => AtEnd(b)' \/ \E k \in 1..Len(inner') : inner'[k] = <<b, "ended">>
  <2> SUFFICES ASSUME agent[b] = "over", ~AtEnd(b)'
               PROVE  \E k \in 1..Len(inner') : inner'[k] = <<b, "ended">>
    BY <1>1
  <2>1. PICK k \in 1..Len(inner) : inner[k] = <<b, "ended">>
    BY <1>4, <1>6 DEF Outgoing
  <2>2. k # 1
    BY <2>1, <1>6
  <2>3. k - 1 \in 1..Len(inner') /\ (k - 1) + 1 = k
    BY <2>2, <1>2
  <2>4. inner'[k-1] = <<b, "ended">>
    BY <2>1, <2>3, <1>7
  <2> QED
    BY <2>3, <2>4
<1>12. \A k, l \in 1..Len(inner') : inner'[k] = <<b, "ended">> /\ inner'[l][1] = b => l <= k
  <2>1. \A k, l \in 1..Len(inner') : inner'[k] = <<b, "ended">> /\ inner'[l][1] = b => l + 1 <= k + 1
    BY <1>4, <1>7 DEF Outgoing
  <2> QED
    BY <2>1, <1>7
<1> QED
  BY <1>9, <1>10, <1>11, <1>12 DEF Outgoing

LEMMA InnerWork ==
  ASSUME TypeInv, IdleInv, BatchInv, AgentsInv, OutboxInv, InnerInv,
         NEW i \in batch, pc = "tools", phase[i] \in Live, WorkStep(i)
  PROVE  InnerInv'
<1>0. batch \subseteq Slots /\ i \in Slots /\ pc' = pc /\ batch' = batch /\ Calls' = Calls
      /\ AtTools /\ phase \in [Slots -> {"none", "over", "cut"} \union Live]
  BY WorkParts DEF TypeInv, TypeOK, turnVars, AtTools
<1>1. \A j \in Slots : Spawner(j)' => j = i
  BY <1>0 DEF Spawner
<1>2. ASSUME ~(Kind(i) = "spawn" /\ phase'[i] = "exec")
      PROVE  InnerInv'
  <2>1. \A j \in Slots : ~(Spawner(j)' /\ phase'[j] = "exec")
    BY <1>0, <1>1, <1>2 DEF Spawner, Kind
  <2> QED
    BY <2>1 DEF InnerInv
<1>3. ASSUME NEW out \in Outs, Finishes(i, out)
      PROVE  InnerInv'
  <2>1. phase'[i] = "over"
    BY <1>0, <1>3 DEF Finishes, Over
  <2> QED
    BY <2>1, <1>2
<1>4. ASSUME NEW ph \in {"confirm", "ask", "exec"}, Waits(i, ph)
      PROVE  InnerInv'
  <2>1. Kind(i) # "spawn"
    BY <1>4 DEF Waits
  <2> QED
    BY <2>1, <1>2
<1>5. CASE Spawns(i)
  <2>1. inner' = <<>> /\ \A a \in Agents : agent'[a] \in {"none", "run"}
    BY <1>0, <1>5, SpawnShape
  <2>2. \A a \in Agents : agent[a] = "none"
    <3>1. phase[i] \in {"gates", "confirm", "ask"}
      BY <1>0, <1>5, SpawnShape
    <3> QED
      BY <1>0, <3>1, NoAgentsBefore
  <2>3. ASSUME NEW a \in Agents
        PROVE  ~AtEnd(a)'
    <3>1. agentShown'[a] = "none"
      BY <2>2, <1>0, <1>5, WorkParts DEF OutboxInv, viewVars
    <3>2. ASSUME NEW k \in 1..Len(queue'), EndOf(k, a)'
          PROVE  FALSE
      <4>1. CASE k \in 1..Len(queue)
        <5>1. queue'[k] = queue[k]
          BY <4>1, <1>0, GrowParts DEF Grows
        <5>2. IsOf(k, a)
          BY <3>2, <4>1, <5>1 DEF IsOf, EndOf
        <5> QED
          BY <4>1, <5>2, <2>2 DEF OutboxInv
      <4>2. CASE k \in Len(queue)+1..Len(queue')
        <5>1. queue'[k][2] = "started"
          BY <4>2, <1>0, <1>5, SpawnShape
        <5> QED
          BY <5>1, <3>2 DEF EndOf
      <4>3. Len(queue) \in Nat
        BY DEF TypeInv
      <4> QED
        BY <4>1, <4>2, <4>3
    <3> QED
      BY <3>1, <3>2 DEF AtEnd
  <2>4. \A a \in Agents : Outgoing(a)'
    BY <2>1, <2>3 DEF Outgoing
  <2> QED
    BY <2>4 DEF InnerInv, Outgoing
<1>6. CASE ForwardEvent(i) \/ ForwardEnd(i)
  <2>1. phase' = phase \/ phase' = [phase EXCEPT ![i] = "over"]
    BY <1>0, <1>6, ForwardShape
  <2>2. CASE phase' = phase
    BY <2>2, <1>6, InnerForward
  <2>3. CASE phase' = [phase EXCEPT ![i] = "over"]
    <3>1. phase'[i] = "over"
      BY <2>3, <1>0
    <3> QED
      BY <3>1, <1>2
  <2> QED
    BY <2>1, <2>2, <2>3
<1> QED
  BY <1>3, <1>4, <1>5, <1>6 DEF WorkStep

LEMMA InnerAgents ==
  ASSUME TypeInv, AgentsInv, InnerInv, NEW a \in Agents, AgentStep(a)
  PROVE  InnerInv'
<1>1. UNCHANGED <<pc, batch, phase, queue, agentShown>> /\ Calls' = Calls
  BY AgentParts DEF turnVars, viewVars
<1>2. agent \in [Agents -> {"none", "run", "cut", "over"}] /\ inner \in Seq(Agents \X {"spoke", "ended"})
  BY DEF TypeInv, TypeOK
<1> SUFFICES ASSUME pc = "tools", NEW i \in Slots, Spawner(i), phase[i] = "exec", NEW b \in Agents
             PROVE  Outgoing(b)'
  BY <1>1 DEF InnerInv, Outgoing, Spawner, Kind
<1>3. Outgoing(b) /\ Outgoing(a)
  BY InnerParts
<1>4. AtEnd(b)' <=> AtEnd(b)
  BY <1>1 DEF AtEnd, EndOf
<1>5. agent[a] = "run"
  BY DEF AgentsInv, AgentStep, AgentSpeaks, AgentEnds, AgentUnwinds
<1>6. \/ agent' = agent /\ inner' = Append(inner, <<a, "spoke">>)
      \/ agent' = [agent EXCEPT ![a] = "over"] /\ inner' = Append(inner, <<a, "ended">>)
  BY DEF AgentStep, AgentSpeaks, AgentEnds, AgentUnwinds
<1>7. Len(inner) \in Nat /\ \A e : e \in Agents \X {"spoke", "ended"} =>
        /\ Len(Append(inner, e)) = Len(inner) + 1 /\ Append(inner, e)[Len(inner) + 1] = e
        /\ \A k \in 1..Len(inner) : Append(inner, e)[k] = inner[k]
  BY <1>2, AppendParts
<1>8. CASE agent' = agent /\ inner' = Append(inner, <<a, "spoke">>)
  <2>1. /\ Len(inner') = Len(inner) + 1 /\ inner'[Len(inner) + 1] = <<a, "spoke">>
        /\ \A k \in 1..Len(inner) : inner'[k] = inner[k]
    BY <1>7, <1>8
  <2>2. \A k \in 1..Len(inner') : k \in 1..Len(inner) \/ k = Len(inner) + 1
    BY <1>7, <2>1
  <2>3. \A k \in 1..Len(inner) : k \in 1..Len(inner')
    BY <1>7, <2>1
  <2>4. <<a, "spoke">> # <<b, "ended">> /\ <<a, "spoke">>[1] = a
    OBVIOUS
  <2>5. agent'[b] # "over" => ~AtEnd(b)' /\ \A k \in 1..Len(inner') : inner'[k] # <<b, "ended">>
    BY <1>3, <1>4, <1>8, <2>1, <2>2, <2>4 DEF Outgoing
  <2>6. agent'[b] = "none" \/ AtEnd(b)' => \A k \in 1..Len(inner') : inner'[k][1] # b
    <3>1. agent[b] = "none" \/ AtEnd(b) => b # a
      BY <1>3, <1>5 DEF Outgoing
    <3> QED
      BY <3>1, <1>3, <1>4, <1>8, <2>1, <2>2, <2>4 DEF Outgoing
  <2>7. agent'[b] = "over" => AtEnd(b)' \/ \E k \in 1..Len(inner') : inner'[k] = <<b, "ended">>
    BY <1>3, <1>4, <1>8, <2>1, <2>3 DEF Outgoing
  <2>8. ASSUME NEW k \in 1..Len(inner'), NEW l \in 1..Len(inner'),
               inner'[k] = <<b, "ended">>, inner'[l][1] = b
        PROVE  l <= k
    <3>1. k \in 1..Len(inner) /\ inner[k] = <<b, "ended">>
      BY <2>1, <2>2, <2>4, <2>8
    <3>2. b # a
      BY <3>1, <1>3, <1>5 DEF Outgoing
    <3>3. l \in 1..Len(inner) /\ inner[l][1] = b
      BY <3>2, <2>1, <2>2, <2>4, <2>8
    <3> QED
      BY <3>1, <3>3, <1>3 DEF Outgoing
  <2> QED
    BY <2>5, <2>6, <2>7, <2>8 DEF Outgoing
<1>9. CASE agent' = [agent EXCEPT ![a] = "over"] /\ inner' = Append(inner, <<a, "ended">>)
  <2>1. /\ Len(inner') = Len(inner) + 1 /\ inner'[Len(inner) + 1] = <<a, "ended">>
        /\ \A k \in 1..Len(inner) : inner'[k] = inner[k]
    BY <1>7, <1>9
  <2>2. \A k \in 1..Len(inner') : k \in 1..Len(inner) \/ k = Len(inner) + 1
    BY <1>7, <2>1
  <2>3. (\A k \in 1..Len(inner) : k \in 1..Len(inner')) /\ Len(inner) + 1 \in 1..Len(inner')
    BY <1>7, <2>1
  <2>4. agent'[a] = "over" /\ (b # a => agent'[b] = agent[b])
    BY <1>2, <1>9
  <2>5. agent'[b] # "over" => ~AtEnd(b)' /\ \A k \in 1..Len(inner') : inner'[k] # <<b, "ended">>
    <3>1. <<a, "ended">> = <<b, "ended">> => a = b
      OBVIOUS
    <3> QED
      BY <3>1, <1>3, <1>4, <2>1, <2>2, <2>4 DEF Outgoing
  <2>6. agent'[b] = "none" \/ AtEnd(b)' => \A k \in 1..Len(inner') : inner'[k][1] # b
    <3>1. AtEnd(b) => b # a
      BY <1>3, <1>5 DEF Outgoing
    <3>2. agent'[b] = "none" => b # a /\ agent[b] = "none"
      BY <2>4
    <3>3. <<a, "ended">>[1] = a
      OBVIOUS
    <3> QED
      BY <3>1, <3>2, <3>3, <1>3, <1>4, <2>1, <2>2 DEF Outgoing
  <2>7. agent'[b] = "over" => AtEnd(b)' \/ \E k \in 1..Len(inner') : inner'[k] = <<b, "ended">>
    BY <1>3, <1>4, <2>1, <2>3, <2>4 DEF Outgoing
  <2>8. ASSUME NEW k \in 1..Len(inner'), NEW l \in 1..Len(inner'),
               inner'[k] = <<b, "ended">>, inner'[l][1] = b
        PROVE  l <= k
    <3>1. CASE b = a
      <4>1. k = Len(inner) + 1
        BY <3>1, <1>3, <1>5, <2>1, <2>2, <2>8 DEF Outgoing
      <4> QED
        BY <4>1, <1>7, <2>1
    <3>2. CASE b # a
      <4>1. k \in 1..Len(inner) /\ l \in 1..Len(inner)
        BY <3>2, <2>1, <2>2, <2>8
      <4> QED
        BY <4>1, <2>1, <2>8, <1>3 DEF Outgoing
    <3> QED
      BY <3>1, <3>2
  <2> QED
    BY <2>5, <2>6, <2>7, <2>8 DEF Outgoing
<1> QED
  BY <1>6, <1>8, <1>9

LEMMA InnerStep ==
  ASSUME TypeInv, IdleInv, BatchInv, QueueInv, AgentsInv, OutboxInv, InnerInv, [Next]_vars
  PROVE  InnerInv'
<1>0. batch \subseteq Slots /\ phase \in [Slots -> {"none", "over", "cut"} \union Live]
  BY DEF TypeInv, TypeOK
<1>1. CASE Rests \/ NextRound \/ Stops
  BY <1>1 DEF Rests, NextRound, Stops, Ended, InnerInv
<1>2. CASE NextBatch \/ \E r \in Replies : CallTools(r)
  <2>1. \E B : batch' = B /\ phase' = [i \in Slots |-> IF i \in B THEN "gates" ELSE phase[i]]
    BY <1>2 DEF NextBatch, CallTools, StartBatch
  <2>2. \A i \in Slots : Spawner(i)' => phase'[i] = "gates"
    BY <2>1 DEF Spawner
  <2> QED
    BY <2>2 DEF InnerInv
<1>3. CASE ShowResult \/ TakeEnd \/ \E what \in {"started", "spoke", "ended"} : ShowAgent(what)
  <2>1. UNCHANGED <<pc, batch, phase, agent, inner>> /\ Calls' = Calls
    BY <1>3, TakeParts DEF turnVars, agentVars
  <2>2. \A b \in Agents : AtEnd(b)' <=> AtEnd(b)
    BY <1>3, TakeNews
  <2>3. \A b \in Agents : Outgoing(b) => Outgoing(b)'
    BY <2>1, <2>2 DEF Outgoing
  <2>4. \A i \in Slots : Spawner(i)' /\ phase'[i] = "exec" => Spawner(i) /\ phase[i] = "exec"
    BY <2>1 DEF Spawner, Kind
  <2>5. pc' = "tools" => \A i \in Slots : Spawner(i)' /\ phase'[i] = "exec" =>
          \A b \in Agents : Outgoing(b)'
    BY <2>1, <2>3, <2>4, InnerParts
  <2> QED
    BY <2>5 DEF InnerInv, Outgoing
<1>4. ASSUME NEW i \in batch, CutStep(i), pc = "unwind"
      PROVE  InnerInv'
  <2>1. pc' = "unwind"
    BY <1>4, <1>0, CutParts DEF turnVars
  <2> QED
    BY <2>1 DEF InnerInv
<1>5. CASE UNCHANGED vars
  <2>1. UNCHANGED <<pc, batch, phase, queue, agent, inner, agentShown>> /\ Calls' = Calls
    BY <1>5 DEF vars, turnVars, batchVars, agentVars, viewVars, Calls, Last
  <2>2. \A b \in Agents : AtEnd(b)' <=> AtEnd(b)
    BY <2>1 DEF AtEnd, EndOf
  <2> QED
    BY <2>1, <2>2 DEF InnerInv, Spawner, Kind
<1> QED
  BY <1>1, <1>2, <1>3, <1>4, <1>5, InnerWork, InnerAgents, StepKinds

LEMMA ReportInit == Init => ReportInv
  BY DEF Init, ReportInv

(* ReportInv for one sub-agent. *)
Reported(i, a) ==
  agent[a] # "none" =>
    /\ <<round, i>> \in shown => agentShown[a] = "ended"
    /\ \A k \in 1..Len(queue) : IsResult(k) =>
         agentShown[a] = "ended" \/ \E l \in 1..k-1 : EndOf(l, a)

LEMMA ReportedParts ==
  ReportInv <=> (pc = "tools" => \A i \in Slots : Spawner(i) => \A a \in Agents : Reported(i, a))
  BY DEF ReportInv, Reported

LEMMA ReportTake ==
  ASSUME TypeInv, OutboxInv, ReportInv,
         ShowResult \/ TakeEnd \/ \E what \in {"started", "spoke", "ended"} : ShowAgent(what)
  PROVE  ReportInv'
<1>1. UNCHANGED <<pc, round, batch, agent>> /\ Calls' = Calls /\ pc = "tools" /\ queue # <<>>
  BY TakeParts DEF turnVars, agentVars
<1>2. /\ Len(queue') \in Nat /\ Len(queue) \in Nat /\ Len(queue) = Len(queue') + 1
      /\ \A k \in 1..Len(queue') : k + 1 \in 1..Len(queue) /\ queue'[k] = queue[k+1]
      /\ \A b \in Agents : \A k \in 1..Len(queue') : EndOf(k, b)' <=> EndOf(k+1, b)
      /\ \A b \in Agents : agentShown'[b] = "ended" <=> agentShown[b] = "ended" \/ EndOf(1, b)
  BY TakeNews
<1>3. Head(queue) = queue[1] /\ 1 \in 1..Len(queue)
  BY <1>1, <1>2, QueueHead
<1>4. ASSUME NEW i \in Slots, Spawner(i), NEW a \in Agents, Reported(i, a)
      PROVE  Reported(i, a)'
  <2> SUFFICES ASSUME agent[a] # "none"
               PROVE  /\ <<round, i>> \in shown' => agentShown'[a] = "ended"
                      /\ \A k \in 1..Len(queue') : IsResult(k)' =>
                           agentShown'[a] = "ended" \/ \E l \in 1..k-1 : EndOf(l, a)'
    BY <1>1 DEF Reported
  <2>1. ASSUME <<round, i>> \in shown'
        PROVE  agentShown'[a] = "ended"
    <3>1. CASE <<round, i>> \in shown
      BY <3>1, <1>2, <1>4 DEF Reported
    <3>2. CASE <<round, i>> \notin shown
      <4>1. ShowResult
        BY <2>1, <3>2 DEF ShowAgent, TakeEnd, viewVars
      <4>2. IsResult(1)
        BY <4>1, <1>3 DEF ShowResult, Take, IsResult
      <4>3. agentShown[a] = "ended" \/ \E l \in 1..1-1 : EndOf(l, a)
        BY <4>2, <1>3, <1>4 DEF Reported
      <4>4. \A l : l \notin 1..1-1
        OBVIOUS
      <4> QED
        BY <4>3, <4>4, <1>2
    <3> QED
      BY <3>1, <3>2
  <2>2. ASSUME NEW k \in 1..Len(queue'), IsResult(k)'
        PROVE  agentShown'[a] = "ended" \/ \E l \in 1..k-1 : EndOf(l, a)'
    <3>1. k + 1 \in 1..Len(queue) /\ k \in Nat
      BY <1>2
    <3>2. IsResult(k+1)
      BY <2>2, <3>1, <1>2 DEF IsResult
    <3>3. agentShown[a] = "ended" \/ \E l \in 1..(k+1)-1 : EndOf(l, a)
      BY <3>1, <3>2, <1>4 DEF Reported
    <3>4. ASSUME NEW l \in 1..(k+1)-1, EndOf(l, a), l # 1
          PROVE  \E j \in 1..k-1 : EndOf(j, a)'
      <4>1. PICK j \in 1..k-1 : l = j + 1
        BY <3>1, <3>4
      <4>2. j \in 1..Len(queue')
        BY <3>1, <1>2
      <4> QED
        BY <3>4, <4>1, <4>2, <1>2
    <3> QED
      BY <3>3, <3>4, <1>2
  <2> QED
    BY <2>1, <2>2
<1>5. \A i \in Slots : Spawner(i)' => Spawner(i)
  BY <1>1 DEF Spawner, Kind
<1>6. pc' = "tools" => \A i \in Slots : Spawner(i)' => \A a \in Agents : Reported(i, a)'
  BY <1>1, <1>4, <1>5, ReportedParts
<1> QED
  BY <1>6 DEF ReportInv, Reported

LEMMA ReportWork ==
  ASSUME TypeInv, IdleInv, BatchInv, QueueInv, ShownInv, AgentsInv, OutboxInv, InnerInv, ReportInv,
         NEW i \in batch, pc = "tools", phase[i] \in Live, WorkStep(i)
  PROVE  ReportInv'
<1>0. batch \subseteq Slots /\ i \in Slots /\ AtTools /\ Calls' = Calls
      /\ UNCHANGED <<pc, round, batch, shown, agentShown>> /\ Len(queue) \in Nat
      /\ phase \in [Slots -> {"none", "over", "cut"} \union Live]
  BY WorkParts DEF TypeInv, TypeOK, turnVars, viewVars, AtTools
<1>1. \A j \in Slots : Spawner(j)' => j = i /\ Spawner(i)
  BY <1>0 DEF Spawner, Kind
<1>2. Grows(i)
  BY <1>0, GrowParts
<1>3. <<round, i>> \notin shown
  BY <1>0 DEF ShownInv, Live
<1>4. \A k \in 1..Len(queue') : k \in 1..Len(queue) \/ k \in Len(queue)+1..Len(queue')
  BY <1>0
<1>5. Spawner(i) => \A k \in 1..Len(queue) : queue[k][2] # "result"
  BY DEF Spawner, QueueInv, IsResult, Live
<1>6. ASSUME phase'[i] # "over" \/ \A k \in Len(queue)+1..Len(queue') : queue'[k][2] # "result"
      PROVE  ReportInv'
  <2>1. \A k \in Len(queue)+1..Len(queue') : queue'[k][2] # "result"
    BY <1>2, <1>6 DEF Grows
  <2>2. Spawner(i) => \A k \in 1..Len(queue') : ~IsResult(k)'
    BY <1>2, <1>4, <1>5, <2>1 DEF Grows, IsResult
  <2> QED
    BY <1>0, <1>1, <1>3, <2>2 DEF ReportInv
<1>7. ASSUME \A a \in Agents : agent'[a] = "none"
      PROVE  ReportInv'
  BY <1>7 DEF ReportInv
<1>8. CASE (\E out \in Outs : Finishes(i, out)) \/ \E ph \in {"confirm", "ask", "exec"} : Waits(i, ph)
  <2>1. phase[i] \in {"gates", "confirm", "ask"} \/ Kind(i) # "spawn"
    BY <1>8 DEF Finishes, Waits
  <2>2. \A a \in Agents : agent[a] = "none"
    BY <1>0, <2>1, NoAgentsBefore
  <2>3. agent' = agent
    BY <1>8 DEF Finishes, Waits, agentVars
  <2> QED
    BY <2>2, <2>3, <1>7
<1>9. CASE Spawns(i)
  <2>1. phase' = [phase EXCEPT ![i] = "exec"]
    BY <1>0, <1>9, SpawnShape
  <2>2. phase'[i] # "over"
    BY <2>1, <1>0
  <2> QED
    BY <2>2, <1>6
<1>10. CASE ForwardEvent(i) \/ ForwardEnd(i)
  <2>1. /\ Len(queue) + 1 \in 1..Len(queue')
        /\ queue'[Len(queue) + 1] = <<i, inner[1][2], inner[1][1]>>
        /\ inner[1] \in Agents \X {"spoke", "ended"}
        /\ agent' = agent /\ Forward(i)
        /\ phase' = phase \/ (AllForwarded /\ phase' = [phase EXCEPT ![i] = "over"])
    BY <1>0, <1>10, ForwardShape
  <2>2. Spawner(i) /\ phase[i] = "exec" /\ Head(inner) = inner[1] /\ Len(inner) >= 1
    BY <2>1, ForwardParts
  <2>3. CASE phase' = phase
    <3>1. phase'[i] # "over"
      BY <2>2, <2>3
    <3> QED
      BY <3>1, <1>6
  <2>4. CASE AllForwarded /\ phase' = [phase EXCEPT ![i] = "over"]
    <3>1. inner[1][2] = "ended"
      <4>1. CASE ForwardEvent(i)
        <5>1. phase' = phase
          BY <4>1 DEF ForwardEvent
        <5>2. phase'[i] = "over"
          BY <2>4, <1>0
        <5> QED
          BY <5>1, <5>2, <2>2
      <4>2. CASE ForwardEnd(i)
        BY <4>2, <2>2 DEF ForwardEnd
      <4> QED
        BY <1>10, <4>1, <4>2
    <3>2. ASSUME NEW a \in Agents, agent[a] # "none", a # inner[1][1]
          PROVE  AtEnd(a)
      <4>1. agent[a] = "over" /\ \A k \in 1..Len(inner) : inner[k] # <<a, "ended">>
        BY <3>2, <2>2, <2>4 DEF AllForwarded
      <4>2. Outgoing(a)
        BY <2>2, <1>0, InnerParts
      <4> QED
        BY <4>1, <4>2 DEF Outgoing
    <3>3. ASSUME NEW a \in Agents, agent[a] # "none", agentShown[a] # "ended"
          PROVE  \E l \in 1..Len(queue)+1 : EndOf(l, a)'
      <4>1. CASE a = inner[1][1]
        <5>1. PICK k : k = Len(queue) + 1
          OBVIOUS
        <5>2. EndOf(k, a)'
          BY <4>1, <5>1, <3>1, <2>1 DEF EndOf
        <5>3. k \in 1..Len(queue)+1
          BY <5>1, <1>0
        <5> QED
          BY <5>2, <5>3
      <4>2. CASE a # inner[1][1]
        <5>1. PICK k \in 1..Len(queue) : EndOf(k, a)
          BY <4>2, <3>2, <3>3 DEF AtEnd
        <5>2. k \in 1..Len(queue') /\ k \in 1..Len(queue)+1
          BY <1>0, <2>1
        <5>3. EndOf(k, a)'
          BY <5>1, <5>2, <1>2 DEF EndOf, Grows
        <5> QED
          BY <5>2, <5>3
      <4> QED
        BY <4>1, <4>2
    <3>4. ASSUME NEW k \in 1..Len(queue'), IsResult(k)'
          PROVE  k \in Nat /\ Len(queue) + 1 <= k - 1
      <4>1. queue'[k][2] = "result"
        BY <3>4 DEF IsResult
      <4>2. k \notin 1..Len(queue)
        BY <4>1, <1>2, <1>5, <2>2 DEF Grows
      <4>3. k # Len(queue) + 1
        BY <4>1, <3>1, <2>1
      <4> QED
        BY <4>2, <4>3, <1>0
    <3>5. ASSUME NEW a \in Agents
          PROVE  Reported(i, a)'
      <4>1. ASSUME agent[a] # "none", agentShown[a] # "ended", NEW k \in 1..Len(queue'), IsResult(k)'
            PROVE  \E l \in 1..k-1 : EndOf(l, a)'
        <5>1. PICK l \in 1..Len(queue)+1 : EndOf(l, a)'
          BY <4>1, <3>3
        <5>2. l \in 1..k-1
          BY <4>1, <3>4, <1>0
        <5> QED
          BY <5>1, <5>2
      <4> QED
        BY <4>1, <1>0, <1>3, <2>1 DEF Reported
    <3> QED
      BY <3>5, <1>1 DEF ReportInv, Reported
  <2> QED
    BY <2>1, <2>3, <2>4
<1> QED
  BY <1>8, <1>9, <1>10 DEF WorkStep

LEMMA ReportStep ==
  ASSUME TypeInv, IdleInv, BatchInv, QueueInv, ShownInv, AgentsInv, OutboxInv, InnerInv, ReportInv,
         [Next]_vars
  PROVE  ReportInv'
<1>0. batch \subseteq Slots
  BY DEF TypeInv, TypeOK
<1>1. CASE Rests \/ NextRound \/ Stops
  BY <1>1 DEF Rests, NextRound, Stops, Ended, ReportInv
<1>2. CASE NextBatch \/ \E r \in Replies : CallTools(r)
  <2>1. agent' = [a \in Agents |-> "none"]
    BY <1>2 DEF NextBatch, CallTools, StartBatch
  <2> QED
    BY <2>1 DEF ReportInv
<1>3. ASSUME NEW i \in batch, CutStep(i), pc = "unwind"
      PROVE  ReportInv'
  <2>1. pc' = "unwind"
    BY <1>3, <1>0, CutParts DEF turnVars
  <2> QED
    BY <2>1 DEF ReportInv
<1>4. ASSUME NEW a \in Agents, AgentStep(a)
      PROVE  ReportInv'
  <2>1. UNCHANGED <<pc, round, batch, queue, shown, agentShown>> /\ Calls' = Calls
    BY <1>4, AgentParts DEF turnVars, viewVars
  <2>2. agent \in [Agents -> {"none", "run", "cut", "over"}]
    BY DEF TypeInv, TypeOK
  <2>3. \A b \in Agents : agent'[b] # "none" => agent[b] # "none"
    BY <1>4, <2>2 DEF AgentStep, AgentSpeaks, AgentEnds, AgentUnwinds
  <2> QED
    BY <2>1, <2>3 DEF ReportInv, Spawner, Kind, IsResult, EndOf
<1>5. CASE UNCHANGED vars
  <2>1. UNCHANGED <<pc, round, batch, queue, agent, shown, agentShown>> /\ Calls' = Calls
    BY <1>5 DEF vars, turnVars, batchVars, agentVars, viewVars, Calls, Last
  <2> QED
    BY <2>1 DEF ReportInv, IsResult, EndOf, Spawner, Kind
<1> QED
  BY <1>1, <1>2, <1>3, <1>4, <1>5, ReportTake, ReportWork, StepKinds

-----------------------------------------------------------------------------
(* Files that were read. *)

(* The two places of WasRead: the messages and the round at work. *)
InSession(x) ==
  \E n \in 1..Len(msgs)-1, k \in Slots :
    /\ k <= Len(msgs[n].calls)
    /\ msgs[n].calls[k].kind = "read" /\ msgs[n].calls[k].path = x
    /\ msgs[n+1].role = "tool" /\ msgs[n+1].results[k].out = "ok"

InRound(x, rs) ==
  \E k \in 1..Len(Calls) : Calls[k].kind = "read" /\ Calls[k].path = x /\ rs[k].out = "ok"

LEMMA ReadSplit == \A x : WasRead(x) <=> InSession(x) \/ InRound(x, results)
  BY DEF WasRead, InSession, InRound

LEMMA ReadInit == Init => ReadInv
  BY DEF Init, ReadInv, EditsFollowReads

LEMMA SessionGrows ==
  ASSUME TypeInv, NEW m \in Messages, msgs' = Append(msgs, m), NEW x, InSession(x)
  PROVE  InSession(x)'
<1>1. /\ Len(msgs) \in Nat /\ Len(msgs') = Len(msgs) + 1
      /\ \A n \in 1..Len(msgs) : msgs'[n] = msgs[n]
  <2>1. msgs \in Seq(Messages)
    BY DEF TypeInv
  <2> QED
    BY <2>1, AppendParts
<1>2. PICK n \in 1..Len(msgs)-1, k \in Slots :
        /\ k <= Len(msgs[n].calls)
        /\ msgs[n].calls[k].kind = "read" /\ msgs[n].calls[k].path = x
        /\ msgs[n+1].role = "tool" /\ msgs[n+1].results[k].out = "ok"
  BY DEF InSession
<1>3. n \in 1..Len(msgs')-1 /\ n \in 1..Len(msgs) /\ n + 1 \in 1..Len(msgs)
  BY <1>1
<1>4. msgs'[n] = msgs[n] /\ msgs'[n+1] = msgs[n+1]
  BY <1>1, <1>3
<1> QED
  BY <1>2, <1>3, <1>4 DEF InSession

(* A read whose end is taken counts, as those that were taken before. *)
LEMMA TakenReads ==
  ASSUME TypeInv, BatchInv, QueueInv, Take("end"), NEW x
  PROVE  \/ InRound(x, results)
         \/ /\ IsEnd(1) /\ queue[1][3] = "ok"
            /\ Calls[queue[1][1]].kind = "read" /\ Calls[queue[1][1]].path = x
         => InRound(x, Collected)
<1>1. PICK h : h = Head(queue)[1]
  OBVIOUS
<1>2. /\ h \in batch /\ h \in Slots /\ results[h].out = "none" /\ queue[1][1] = h
      /\ Collected[h] = [id |-> h, out |-> queue[1][3]]
      /\ \A j \in Slots : j # h => Collected[j] = results[j]
  BY <1>1, EndParts
<1>3. Calls \in CallLists /\ 1..Len(Calls) \subseteq Slots
  BY CallsParts
<1>4. CASE InRound(x, results)
  BY <1>2, <1>3, <1>4 DEF InRound
<1>5. CASE /\ IsEnd(1) /\ queue[1][3] = "ok"
           /\ Calls[queue[1][1]].kind = "read" /\ Calls[queue[1][1]].path = x
  <2>1. PICK m \in 1..Len(Calls) : batch = Batch(Calls, m)
    BY DEF BatchInv, AtTools, At, Take
  <2>2. Batch(Calls, m) \subseteq m..Len(Calls)
    BY <1>3, BatchParts
  <2>3. h \in 1..Len(Calls)
    BY <1>2, <2>1, <2>2
  <2>4. Collected[h].out = "ok"
    BY <1>2, <1>5
  <2> QED
    BY <1>2, <1>5, <2>3, <2>4 DEF InRound
<1> QED
  BY <1>4, <1>5

(* A read that waits still waits when the queue has been shortened, unless   *)
(* it was the first.                                                         *)
LEMMA PendingTake ==
  ASSUME TypeInv, OutboxInv, NEW x, ReadPending(x),
         ShowResult \/ TakeEnd \/ \E what \in {"started", "spoke", "ended"} : ShowAgent(what)
  PROVE  \/ ReadPending(x)'
         \/ /\ Take("end") /\ TakeEnd /\ IsEnd(1) /\ queue[1][3] = "ok"
            /\ Calls[queue[1][1]].kind = "read" /\ Calls[queue[1][1]].path = x
<1>1. Calls' = Calls /\ queue # <<>>
  BY TakeParts
<1>2. /\ Len(queue') \in Nat /\ Len(queue) \in Nat /\ Len(queue) = Len(queue') + 1
      /\ \A k \in 1..Len(queue') : k + 1 \in 1..Len(queue) /\ queue'[k] = queue[k+1]
  BY TakeNews
<1>3. PICK k \in 1..Len(queue) :
        /\ IsEnd(k) /\ queue[k][3] = "ok"
        /\ Calls[queue[k][1]].kind = "read" /\ Calls[queue[k][1]].path = x
  BY DEF ReadPending
<1>4. CASE k = 1
  <2>1. Head(queue)[2] = "end"
    BY <1>1, <1>3, <1>4, QueueHead DEF IsEnd
  <2>2. TakeEnd
    BY <2>1 DEF ShowResult, ShowAgent, Take
  <2> QED
    BY <1>3, <1>4, <2>2 DEF TakeEnd
<1>5. CASE k # 1
  <2>1. PICK j \in 1..Len(queue') : k = j + 1
    <3>1. k - 1 \in 1..Len(queue') /\ k = (k - 1) + 1
      BY <1>2, <1>5
    <3> QED
      BY <3>1
  <2>2. queue'[j] = queue[k]
    BY <1>2, <2>1
  <2>3. IsEnd(j)'
    BY <1>3, <2>2 DEF IsEnd
  <2> QED
    BY <1>1, <1>3, <2>2, <2>3 DEF ReadPending
<1> QED
  BY <1>4, <1>5

LEMMA ReadTake ==
  ASSUME TypeInv, BatchInv, QueueInv, OutboxInv, ReadInv,
         ShowResult \/ TakeEnd \/ \E what \in {"started", "spoke", "ended"} : ShowAgent(what)
  PROVE  ReadInv'
<1>1. UNCHANGED <<pc, msgs, batch, phase, readFiles>> /\ Calls' = Calls /\ pc = "tools"
  BY TakeParts DEF turnVars
<1>2. \A x : InSession(x)' <=> InSession(x)
  BY <1>1 DEF InSession
<1>3. ASSUME NEW x
      PROVE  InRound(x, results) => InRound(x, results)'
  <2>1. CASE TakeEnd
    <3>1. Take("end") /\ results' = Collected
      BY <2>1 DEF TakeEnd
    <3>2. InRound(x, results) => InRound(x, Collected)
      BY <3>1, TakenReads
    <3> QED
      BY <3>1, <3>2, <1>1 DEF InRound
  <2>2. CASE ~TakeEnd
    <3>1. results' = results
      BY <2>2 DEF ShowResult, ShowAgent
    <3> QED
      BY <3>1, <1>1 DEF InRound
  <2> QED
    BY <2>1, <2>2
<1>4. ASSUME NEW x, WasRead(x)
      PROVE  WasRead(x)'
  <2>1. InSession(x)' \/ InRound(x, results)'
    BY <1>2, <1>3, <1>4, ReadSplit
  <2> QED
    BY <2>1 DEF WasRead, InSession, InRound
<1>5. ASSUME NEW x, ReadPending(x)
      PROVE  WasRead(x)' \/ ReadPending(x)'
  <2>1. CASE ReadPending(x)'
    BY <2>1
  <2>2. CASE /\ Take("end") /\ TakeEnd /\ IsEnd(1) /\ queue[1][3] = "ok"
             /\ Calls[queue[1][1]].kind = "read" /\ Calls[queue[1][1]].path = x
    <3>1. InRound(x, Collected) /\ results' = Collected
      BY <2>2, TakenReads DEF TakeEnd
    <3> QED
      BY <3>1, <1>1 DEF InRound, WasRead
  <2> QED
    BY <1>5, <2>1, <2>2, PendingTake
<1>6. \A x \in readFiles' : WasRead(x)' \/ ReadPending(x)'
  BY <1>1, <1>4, <1>5 DEF ReadInv
<1>7. EditsFollowReads'
  BY <1>1, <1>4 DEF ReadInv, EditsFollowReads
<1> QED
  BY <1>6, <1>7 DEF ReadInv

LEMMA ReadWork ==
  ASSUME TypeInv, BatchInv, QueueInv, ReadInv,
         NEW i \in batch, pc = "tools", phase[i] \in Live, WorkStep(i)
  PROVE  ReadInv'
<1>0. batch \subseteq Slots /\ i \in Slots /\ AtTools /\ Calls' = Calls
      /\ UNCHANGED <<pc, msgs, batch, results>> /\ Len(queue) \in Nat /\ queue \in Seq(Events)
      /\ phase \in [Slots -> {"none", "over", "cut"} \union Live]
  BY WorkParts DEF TypeInv, TypeOK, turnVars, AtTools, Events
<1>1. \A x : WasRead(x)' <=> WasRead(x)
  BY <1>0 DEF WasRead
<1>2. ASSUME NEW x, ReadPending(x)
      PROVE  ReadPending(x)'
  <2>1. Grows(i)
    BY <1>0, GrowParts
  <2>2. \A k \in 1..Len(queue) : k \in 1..Len(queue') /\ queue'[k] = queue[k]
    BY <1>0, <2>1 DEF Grows
  <2> QED
    BY <1>0, <1>2, <2>2 DEF ReadPending, IsEnd
<1>3. ASSUME NEW x \in readFiles', x \notin readFiles
      PROVE  ReadPending(x)'
  <2>1. /\ Kind(i) = "read" /\ readFiles' = readFiles \union {Calls[i].path}
        /\ queue' = queue \o Report(i, "ok")
    BY <1>3 DEF WorkStep, Finishes, Waits, Spawns, ForwardEvent, ForwardEnd, Over
  <2>2. Len(queue') = Len(queue) + 2 /\ queue'[Len(queue) + 2] = <<i, "end", "ok">>
    <3>1. "ok" \in Outs
      BY DEF Outs
    <3> QED
      BY <1>0, <2>1, <3>1, ReportAdded
  <2>3. PICK k : k = Len(queue) + 2
    OBVIOUS
  <2>4. k \in 1..Len(queue') /\ queue'[k] = <<i, "end", "ok">>
    BY <1>0, <2>2, <2>3
  <2>5. IsEnd(k)'
    BY <2>4 DEF IsEnd
  <2>6. x = Calls[i].path /\ Calls[i].kind = "read"
    BY <1>3, <2>1 DEF Kind
  <2> QED
    BY <1>0, <2>4, <2>5, <2>6 DEF ReadPending
<1>4. \A x \in readFiles' : WasRead(x)' \/ ReadPending(x)'
  BY <1>0, <1>1, <1>2, <1>3 DEF ReadInv
<1>5. ASSUME NEW j \in 1..Len(Calls), Calls[j].kind = "edit", phase'[j] = "exec"
      PROVE  WasRead(Calls[j].path)
  <2>1. j \in Slots
    BY CallsParts
  <2>2. CASE phase[j] = "exec"
    BY <1>0, <1>5, <2>2 DEF ReadInv, EditsFollowReads
  <2>3. CASE phase[j] # "exec"
    <3>1. j = i /\ phase'[i] # phase[i]
      <4>1. phase' = phase \/ \E ph \in {"confirm", "ask", "exec", "over"} : phase' = [phase EXCEPT ![i] = ph]
        BY <1>0, PhaseMoves
      <4> QED
        BY <1>0, <1>5, <2>1, <2>3, <4>1
    <3>2. Kind(i) = "edit" /\ phase'[i] = "exec"
      BY <1>5, <3>1 DEF Kind
    <3>3. Calls[i].path \in readFiles
      <4>1. ASSUME NEW out \in Outs, Finishes(i, out)
            PROVE  FALSE
        <5>1. phase'[i] = "over"
          BY <4>1, <1>0 DEF Finishes, Over
        <5> QED
          BY <5>1, <3>2
      <4>2. ASSUME NEW ph \in {"confirm", "ask", "exec"}, Waits(i, ph)
            PROVE  Calls[i].path \in readFiles
        <5>1. phase'[i] = ph
          BY <4>2, <1>0 DEF Waits
        <5> QED
          BY <4>2, <5>1, <3>2 DEF Waits
      <4>3. ASSUME Spawns(i) \/ ForwardEvent(i) \/ ForwardEnd(i)
            PROVE  FALSE
        BY <4>3, <3>2 DEF Spawns, SpawnAgents, ForwardEvent, ForwardEnd, Forward
      <4> QED
        BY <4>1, <4>2, <4>3 DEF WorkStep
    <3>4. batch = {i}
      BY <1>0, <3>2, AloneParts
    <3>5. ~ReadPending(Calls[i].path)
      <4>1. \A k \in 1..Len(queue) : queue[k][1] = i
        BY <3>4 DEF QueueInv
      <4> QED
        BY <4>1, <3>2 DEF ReadPending, Kind
    <3> QED
      BY <3>1, <3>3, <3>5 DEF ReadInv
  <2> QED
    BY <2>2, <2>3
<1>6. EditsFollowReads'
  BY <1>0, <1>1, <1>5 DEF EditsFollowReads
<1> QED
  BY <1>4, <1>6 DEF ReadInv

LEMMA ReadStep ==
  ASSUME TypeInv, RoundInv, IdleInv, BatchInv, QueueInv, OutboxInv, ReadInv, [Next]_vars
  PROVE  ReadInv'
<1>0. batch \subseteq Slots
  BY DEF TypeInv, TypeOK
<1>1. CASE Rests \/ Stops
  BY <1>1 DEF Rests, Stops, Ended, ReadInv, EditsFollowReads
<1>2. ASSUME NEW i \in batch, CutStep(i), pc = "unwind"
      PROVE  ReadInv'
  <2>1. pc' = "unwind"
    BY <1>2, <1>0, CutParts DEF turnVars
  <2> QED
    BY <2>1 DEF ReadInv, EditsFollowReads
<1>3. CASE (\E a \in Agents : AgentStep(a)) \/ UNCHANGED vars
  <2>1. UNCHANGED <<pc, msgs, phase, queue, results, readFiles>>
    BY <1>3, AgentParts DEF vars, turnVars, batchVars
  <2> QED
    BY <2>1 DEF ReadInv, EditsFollowReads, WasRead, ReadPending, IsEnd, Calls, Last
<1>4. ASSUME NEW r \in Replies, CallTools(r)
      PROVE  ReadInv'
  <2>1. pc = "llm" /\ msgs' = Append(msgs, Assistant(r.text, r.calls)) /\ r.calls \in CallLists
    BY <1>4, CallToolsParts
  <2>2. Assistant(r.text, r.calls) \in Messages
    <3>1. r.text \in BOOLEAN
      BY ToolLoopAssumption
    <3> QED
      BY <2>1, <3>1, AssistantParts
  <2>3. Calls = <<>> /\ queue = <<>>
    BY <2>1 DEF RoundInv, IdleInv
  <2>4. \A x \in readFiles : InSession(x)
    <3>1. 1..Len(Calls) = {} /\ 1..Len(queue) = {}
      BY <2>3
    <3> QED
      BY <2>1, <3>1, ReadSplit DEF ReadInv, ReadPending, InRound
  <2>5. \A x \in readFiles : InSession(x)'
    BY <2>1, <2>2, <2>4, SessionGrows
  <2>6. readFiles' = readFiles
    BY <1>4 DEF CallTools
  <2>7. \A i \in Slots : phase'[i] # "exec"
    <3>1. \A i \in Slots : phase[i] \in {"none", "over"}
      BY <1>4, CalmParts
    <3>2. phase' = [i \in Slots |-> IF i \in Batch(r.calls, 1) THEN "gates" ELSE phase[i]]
      BY <1>4 DEF CallTools, StartBatch
    <3> QED
      BY <3>1, <3>2
  <2>8. 1..Len(Calls') \subseteq Slots
    <3>1. Calls' = r.calls
      BY <1>4, CallToolsParts
    <3> QED
      BY <2>1, <3>1, CallParts
  <2>9. EditsFollowReads'
    BY <2>7, <2>8 DEF EditsFollowReads
  <2> QED
    BY <2>5, <2>6, <2>9 DEF ReadInv, WasRead, InSession
<1>5. ASSUME NextBatch \/ NextRound, NEW x \in readFiles
      PROVE  InSession(x) \/ InRound(x, Collected)
  <2>1. Take("end") /\ done + 1 = Cardinality(batch) /\ pc = "tools"
    BY <1>5 DEF NextBatch, NextRound, Take
  <2>2. CASE InSession(x) \/ InRound(x, results)
    BY <2>1, <2>2, TakenReads
  <2>3. CASE ReadPending(x)
    <3>1. \A k \in 1..Len(queue) : IsEnd(k) => k = 1
      BY <2>1, LastEndParts
    <3> QED
      BY <2>1, <2>3, <3>1, TakenReads DEF ReadPending
  <2> QED
    BY <2>1, <2>2, <2>3, ReadSplit DEF ReadInv
<1>6. CASE NextBatch
  <2>1. results' = Collected /\ UNCHANGED <<pc, msgs, readFiles>> /\ Calls' = Calls
    BY <1>6 DEF NextBatch, turnVars, Calls, Last
  <2>2. \A x \in readFiles : InSession(x)' \/ InRound(x, results)'
    BY <1>5, <1>6, <2>1 DEF InSession, InRound
  <2>3. \A i \in Slots : phase'[i] # "exec"
    <3>1. \A i \in Slots : phase[i] \in {"none", "over"}
      BY <1>6, CalmParts
    <3>2. phase' = [i \in Slots |-> IF i \in Batch(Calls, Following) THEN "gates" ELSE phase[i]]
      BY <1>6 DEF NextBatch, StartBatch
    <3> QED
      BY <3>1, <3>2
  <2>4. EditsFollowReads'
    BY <2>1, <2>3, CallsParts DEF EditsFollowReads
  <2> QED
    BY <2>1, <2>2, <2>4 DEF ReadInv, WasRead, InSession, InRound
<1>7. CASE NextRound
  <2>1. pc' = "llm" /\ readFiles' = readFiles
    BY <1>7 DEF NextRound
  <2>2. PICK m \in Messages :
          /\ m.role = "tool" /\ m.calls = <<>> /\ Len(m.results) = Len(Calls)
          /\ \A i \in 1..Len(Calls) : m.results[i] = Collected[i]
          /\ msgs' = Append(msgs, m)
    BY <1>7, ResultsParts
  <2>3. msgs \in Seq(Messages) /\ Len(msgs) >= 1 /\ 1..Len(Calls) \subseteq Slots /\ Len(Calls) \in Nat
    BY CallsParts DEF TypeInv
  <2>4. /\ Len(msgs) \in Nat /\ Len(msgs') = Len(msgs) + 1 /\ msgs'[Len(msgs) + 1] = m
        /\ \A n \in 1..Len(msgs) : msgs'[n] = msgs[n]
    BY <2>2, <2>3, AppendParts
  <2>5. PICK n : n = Len(msgs)
    OBVIOUS
  <2>6. n \in 1..Len(msgs')-1 /\ msgs'[n].calls = Calls /\ msgs'[n+1] = m
    <3>1. n \in 1..Len(msgs')-1 /\ n \in 1..Len(msgs)
      BY <2>3, <2>4, <2>5
    <3> QED
      BY <3>1, <2>4, <2>5 DEF Calls, Last
  <2>7. ASSUME NEW x, InRound(x, Collected)
        PROVE  InSession(x)'
    <3>1. PICK k \in 1..Len(Calls) :
            Calls[k].kind = "read" /\ Calls[k].path = x /\ Collected[k].out = "ok"
      BY <2>7 DEF InRound
    <3>2. k \in Slots /\ k <= Len(msgs'[n].calls) /\ msgs'[n+1].results[k].out = "ok"
      BY <2>2, <2>3, <2>6, <3>1
    <3> QED
      BY <2>2, <2>6, <3>1, <3>2 DEF InSession
  <2>8. \A x \in readFiles : InSession(x)'
    BY <1>5, <1>7, <2>2, <2>7, SessionGrows
  <2> QED
    BY <2>1, <2>8 DEF ReadInv, EditsFollowReads, WasRead, InSession
<1> QED
  BY <1>1, <1>2, <1>3, <1>4, <1>6, <1>7, ReadTake, ReadWork, StepKinds

-----------------------------------------------------------------------------
(* The messages of the turn. *)

LEMMA SessionInit == Init => SessionInv
<1> SUFFICES ASSUME Init
             PROVE  SessionInv
  OBVIOUS
<1>1. msgs = <<User>> /\ pc = "llm"
  BY DEF Init
<1>2. \A n \in 1..Len(msgs) : msgs[n].role = "user" /\ msgs[n].calls = <<>>
  BY <1>1 DEF User
<1> QED
  BY <1>1, <1>2 DEF SessionInv, ResultsShownFirst

(* A message that no calls precede leaves what was answered as it is. *)
LEMMA AnsweredGrows ==
  ASSUME TypeInv, NEW m \in Messages, msgs' = Append(msgs, m), NEW n \in 1..Len(msgs), Answered(n)
  PROVE  Answered(n)'
<1>1. msgs \in Seq(Messages)
  BY DEF TypeInv
<1>2. /\ Len(msgs) \in Nat /\ Len(msgs') = Len(msgs) + 1
      /\ \A k \in 1..Len(msgs) : msgs'[k] = msgs[k]
  BY <1>1, AppendParts
<1>3. n + 1 \in 1..Len(msgs) /\ n < Len(msgs')
  BY <1>2 DEF Answered
<1>4. msgs'[n] = msgs[n] /\ msgs'[n+1] = msgs[n+1]
  BY <1>2, <1>3
<1> QED
  BY <1>3, <1>4 DEF Answered

LEMMA ShownGrows ==
  ASSUME TypeInv, ResultsShownFirst, NEW m \in Messages, msgs' = Append(msgs, m), shown' = shown,
         m.role = "tool" =>
           \A k \in 1..Len(m.results) : <<((Len(msgs) + 1) - 1) \div 2, k>> \in shown
  PROVE  ResultsShownFirst'
<1>1. msgs \in Seq(Messages)
  BY DEF TypeInv
<1>2. /\ Len(msgs) \in Nat /\ Len(msgs') = Len(msgs) + 1 /\ msgs'[Len(msgs) + 1] = m
      /\ \A k \in 1..Len(msgs) : msgs'[k] = msgs[k]
  BY <1>1, AppendParts
<1>3. \A n \in 1..Len(msgs') : n \in 1..Len(msgs) \/ n = Len(msgs) + 1
  BY <1>2
<1> QED
  BY <1>2, <1>3 DEF ResultsShownFirst

LEMMA SessionStep ==
  ASSUME TypeInv, RoundInv, IdleInv, BatchInv, QueueInv, SessionInv, [Next]_vars
  PROVE  SessionInv'
<1>0. batch \subseteq Slots
  BY DEF TypeInv, TypeOK
<1>1. CASE Rests
  <2>1. pc' \notin {"llm", "tools"} /\ shown' = shown
    BY <1>1 DEF Rests, Ended, viewVars
  <2>2. CASE msgs' = msgs
    BY <2>1, <2>2 DEF SessionInv, ResultsShownFirst
  <2>3. ASSUME NEW m \in Messages, m.role = "assistant", msgs' = Append(msgs, m)
        PROVE  SessionInv'
    <3>1. ResultsShownFirst'
      BY <2>1, <2>3, ShownGrows DEF SessionInv
    <3> QED
      BY <2>1, <3>1 DEF SessionInv
  <2> QED
    BY <1>1, <2>2, <2>3 DEF Rests
<1>2. ASSUME msgs' = msgs, pc' \in {pc, "unwind"}, shown \subseteq shown'
      PROVE  SessionInv'
  <2>1. ResultsShownFirst'
    BY <1>2 DEF SessionInv, ResultsShownFirst
  <2>2. \A n : Answered(n)' <=> Answered(n)
    BY <1>2 DEF Answered
  <2> QED
    BY <1>2, <2>1, <2>2 DEF SessionInv
<1>3. CASE \/ Stops \/ NextBatch \/ UNCHANGED vars \/ \E a \in Agents : AgentStep(a)
  <2>1. msgs' = msgs /\ pc' \in {pc, "unwind"} /\ shown' = shown
    BY <1>3, AgentParts DEF Stops, NextBatch, vars, turnVars, viewVars
  <2> QED
    BY <2>1, <1>2
<1>4. CASE ShowResult \/ TakeEnd \/ \E what \in {"started", "spoke", "ended"} : ShowAgent(what)
  <2>1. msgs' = msgs /\ pc' = pc
    BY <1>4, TakeParts DEF turnVars
  <2>2. shown \subseteq shown'
    BY <1>4 DEF ShowResult, TakeEnd, ShowAgent, viewVars
  <2> QED
    BY <2>1, <2>2, <1>2
<1>5. ASSUME NEW i \in batch, WorkStep(i) \/ CutStep(i)
      PROVE  SessionInv'
  <2>1. msgs' = msgs /\ pc' = pc /\ shown' = shown
    BY <1>0, <1>5, WorkParts, CutParts DEF turnVars, viewVars
  <2> QED
    BY <2>1, <1>2
<1>6. ASSUME NEW r \in Replies, CallTools(r)
      PROVE  SessionInv'
  <2>1. /\ pc = "llm" /\ pc' = "tools" /\ r.calls \in CallLists
        /\ msgs' = Append(msgs, Assistant(r.text, r.calls)) /\ Len(msgs') = Len(msgs) + 1
        /\ \A n \in 1..Len(msgs) : msgs'[n] = msgs[n]
    BY <1>6, CallToolsParts
  <2>2. Assistant(r.text, r.calls) \in Messages /\ Assistant(r.text, r.calls).role = "assistant"
    <3>1. r.text \in BOOLEAN
      BY ToolLoopAssumption
    <3> QED
      BY <2>1, <3>1, AssistantParts DEF Assistant
  <2>3. shown' = shown
    BY <1>6 DEF CallTools
  <2>4. ResultsShownFirst'
    BY <2>1, <2>2, <2>3, ShownGrows DEF SessionInv
  <2>5. 1..Len(msgs')-1 = 1..Len(msgs)
    BY <2>1, CallsParts
  <2>6. \A n \in 1..Len(msgs) : msgs'[n].calls # <<>> => Answered(n)'
    BY <2>1, <2>2, AnsweredGrows DEF SessionInv
  <2> QED
    BY <2>1, <2>4, <2>5, <2>6 DEF SessionInv
<1>7. CASE NextRound
  <2>1. pc = "tools" /\ pc' = "llm" /\ shown' = shown
    BY <1>7 DEF NextRound, Take, viewVars
  <2>2. PICK m \in Messages :
          /\ m.role = "tool" /\ m.calls = <<>> /\ Len(m.results) = Len(Calls)
          /\ \A i \in 1..Len(Calls) : m.results[i] = Collected[i]
          /\ msgs' = Append(msgs, m)
    BY <1>7, ResultsParts
  <2>3. \A i \in 1..Len(Calls) :
          Collected[i].out # "none" /\ Collected[i].id = i /\ <<round, i>> \in shown
    BY <1>7, ResultsParts
  <2>4. msgs \in Seq(Messages) /\ Len(msgs) >= 1 /\ Len(msgs) = 2 * round /\ round \in Nat
    BY <2>1, CallsParts DEF TypeInv, TypeOK, RoundInv, AtTools
  <2>5. /\ Len(msgs) \in Nat /\ Len(msgs') = Len(msgs) + 1 /\ msgs'[Len(msgs) + 1] = m
        /\ \A n \in 1..Len(msgs) : msgs'[n] = msgs[n]
    BY <2>2, <2>4, AppendParts
  <2>6. ((Len(msgs) + 1) - 1) \div 2 = round
    BY <2>4
  <2>7. ResultsShownFirst'
    <3>1. \A k \in 1..Len(m.results) : <<((Len(msgs) + 1) - 1) \div 2, k>> \in shown
      BY <2>2, <2>3, <2>6
    <3> QED
      BY <2>1, <2>2, <3>1, ShownGrows DEF SessionInv
  <2>8. \A n \in 1..Len(msgs) : n # Len(msgs) => (msgs'[n].calls # <<>> => Answered(n)')
    <3>1. \A n \in 1..Len(msgs) : n # Len(msgs) => n \in 1..Len(msgs)-1
      BY <2>5
    <3> QED
      BY <2>1, <2>2, <2>5, <3>1, AnsweredGrows DEF SessionInv
  <2>9. ASSUME NEW n, n = Len(msgs)
        PROVE  Answered(n)'
    <3>1. n \in 1..Len(msgs) /\ n < Len(msgs') /\ n + 1 = Len(msgs) + 1
      BY <2>4, <2>5, <2>9
    <3>2. msgs'[n] = msgs[n] /\ msgs'[n+1] = m
      BY <2>5, <3>1
    <3>3. msgs'[n].calls = Calls
      BY <2>9, <3>2 DEF Calls, Last
    <3>4. Len(msgs'[n+1].results) = Len(msgs'[n].calls)
      BY <2>2, <3>2, <3>3
    <3>5. \A k \in 1..Len(Calls) : m.results[k].id = k /\ m.results[k].out # "none"
      BY <2>2, <2>3
    <3> QED
      BY <3>1, <3>2, <3>3, <3>4, <3>5 DEF Answered
  <2>10. \A n \in 1..Len(msgs') : n \in 1..Len(msgs) \/ n = Len(msgs) + 1
    BY <2>5
  <2>11. \A n \in 1..Len(msgs') : msgs'[n].calls # <<>> => Answered(n)'
    BY <2>2, <2>5, <2>8, <2>9, <2>10
  <2> QED
    BY <2>1, <2>7, <2>11 DEF SessionInv
<1> QED
  BY <1>1, <1>3, <1>4, <1>5, <1>6, <1>7, StepKinds

-----------------------------------------------------------------------------
(* The invariant and what follows from it. *)

LoopInv ==
  /\ TypeInv /\ RoundInv /\ IdleInv /\ BatchInv /\ QueueInv /\ ShownInv
  /\ QuestionInv /\ AgentsInv /\ OutboxInv /\ InnerInv /\ ReportInv
  /\ ReadInv /\ SessionInv

LEMMA LoopInit == Init => LoopInv
  BY TypesInit, RoundInit, IdleInit, BatchInit, QueueInit, ShownInit, QuestionInit, AgentsInit,
     OutboxInit, InnerInit, ReportInit, ReadInit, SessionInit DEF LoopInv

LEMMA LoopNext == LoopInv /\ [Next]_vars => LoopInv'
  BY TypesStep, RoundStep, IdleStep, BatchStep, QueueStep, ShownStep, QuestionStep, AgentsStep,
     OutboxStep, InnerStep, ReportStep, ReadStep, SessionStep DEF LoopInv

(* What a turn keeps true of itself at every await, whatever the model        *)
(* answers, the tools do and the user decides: the invariant from which the   *)
(* other theorems follow.                                                     *)
THEOREM LoopInvHolds == Spec => []LoopInv
  BY LoopInit, LoopNext, PTL DEF Spec

(* Neither the model is asked nor tools are run beyond the token budget, and  *)
(* a limit of n rounds runs tools in n - 1 (tool_loop.py: the budget check    *)
(* after each round, and _should_stop_after_tools).                           *)
THEOREM BudgetsAlwaysHold == Spec => []BudgetsHold
<1>1. LoopInv => BudgetsHold
  BY DEF LoopInv, RoundInv, BudgetsHold, AtTools
<1> QED
  BY <1>1, LoopInvHolds, PTL

(* Calls that conflict are worked on in the order of the reply, and an edit   *)
(* goes through only after a read of the file whose result the session has or *)
(* will have (partition_tool_calls, ReadTrackedToolAdapter).                  *)
THEOREM ConflictsAreHarmless == Spec => []ConflictsHarmless
<1>1. ASSUME LoopInv, pc = "tools", NEW i \in 1..Len(Calls), NEW j \in 1..Len(Calls),
             i < j, Conflict(Calls[i], Calls[j]), phase[j] # "none"
      PROVE  phase[i] = "over"
  <2>1. Calls \in CallLists /\ Len(Calls) \in Nat /\ 1..Len(Calls) \subseteq Slots
    BY <1>1, CallsParts DEF LoopInv
  <2>2. PICK m \in 1..Len(Calls) : At(m)
    BY <1>1 DEF LoopInv, BatchInv, AtTools
  <2>3. batch = Batch(Calls, m)
    BY <2>2 DEF At
  <2>4. /\ \A b \in batch : \A k \in m..b : k \in batch
        /\ \A k, l \in batch : k # l => ~Conflict(Calls[k], Calls[l])
    BY <2>1, <2>3, BatchParts
  <2>5. CASE i < m
    BY <2>2, <2>5 DEF At
  <2>6. CASE ~(i < m)
    <3>1. j \in batch
      BY <1>1, <2>1, <2>2, <2>6 DEF At
    <3>2. i \in m..j
      BY <1>1, <2>6
    <3>3. i \in batch /\ i # j
      BY <1>1, <2>4, <3>1, <3>2
    <3> QED
      BY <1>1, <2>4, <3>1, <3>3
  <2> QED
    BY <2>5, <2>6
<1>2. LoopInv => ConflictsHarmless
  BY <1>1 DEF ConflictsHarmless, ConflictsInOrder, LoopInv, ReadInv
<1> QED
  BY <1>2, LoopInvHolds, PTL

(* At most one question is open to the user, and none, nor any task or        *)
(* sub-agent, while the model is asked and once the turn is over, however it  *)
(* ended (the finally blocks of run_streaming and of spawn_agents).           *)
THEOREM NothingIsLeft == Spec => []NothingLeft
<1>1. ASSUME LoopInv
      PROVE  OneQuestion
  <2>1. CASE question = {}
    BY <2>1, FS_EmptySet DEF OneQuestion
  <2>2. CASE question # {}
    <3>1. PICK x \in question : TRUE
      BY <2>2
    <3>2. PICK i \in Slots : x = <<"call", i>> /\ batch = {i}
      BY <1>1, <3>1 DEF LoopInv, QuestionInv, Asking
    <3>3. \A y \in question : \E j \in Slots : y = <<"call", j>> /\ batch = {j}
      BY <1>1 DEF LoopInv, QuestionInv, Asking
    <3>4. \A y \in question : y = x
      BY <3>2, <3>3
    <3>5. question = {x}
      BY <3>1, <3>4
    <3>6. Cardinality({x}) = 1
      BY FS_Singleton
    <3> QED
      BY <3>5, <3>6 DEF OneQuestion
  <2> QED
    BY <2>1, <2>2
<1>2. ASSUME LoopInv
      PROVE  NothingLeftRunning
  <2> SUFFICES ASSUME pc \in Ended \union {"llm", "closing"}
               PROVE  /\ \A i \in Slots : phase[i] \in {"none", "over"}
                      /\ \A a \in Agents : agent[a] \in {"none", "over"}
                      /\ question = {}
    BY DEF NothingLeftRunning
  <2>1. ~AtTools
    BY DEF AtTools, Ended
  <2>2. \A i \in Slots : phase[i] \in {"none", "over"}
    BY <1>2, <2>1 DEF LoopInv, IdleInv
  <2>3. \A a \in Agents : agent[a] \in {"none", "over"}
    BY <1>2, <2>1 DEF LoopInv, AgentsInv
  <2>4. question = {}
    BY <1>2, <2>2, NoQuestions DEF LoopInv
  <2> QED
    BY <2>2, <2>3, <2>4
<1>3. LoopInv => NothingLeft
  BY <1>1, <1>2 DEF NothingLeft
<1> QED
  BY <1>3, LoopInvHolds, PTL

(* The model gets one result for each call, in the order of the calls; the    *)
(* user has seen each of them before, and with the result of spawn_agents the *)
(* end of every sub-agent (tool_scheduler.py, agent_orchestrator.py).         *)
THEOREM ResultsAreComplete == Spec => []ResultsComplete
<1>1. ASSUME LoopInv
      PROVE  ResultsMatchCalls /\ ResultsShownFirst
  BY <1>1 DEF LoopInv, SessionInv, Answered, ResultsMatchCalls
<1>2. ASSUME LoopInv
      PROVE  AgentsReported
  <2> SUFFICES ASSUME pc = "tools", NEW i \in batch, Kind(i) = "spawn", <<round, i>> \in shown,
                      NEW a \in Agents
               PROVE  agentShown[a] \in {"none", "ended"} /\ agent[a] \in {"none", "over"}
    BY DEF AgentsReported, Kind
  <2>0. i \in Slots /\ AtTools
    BY <1>2 DEF LoopInv, TypeInv, TypeOK, AtTools
  <2>1. Spawner(i)
    BY <1>2, <2>0, AloneParts DEF LoopInv, Spawner
  <2>2. CASE agent[a] = "none"
    BY <1>2, <2>2 DEF LoopInv, OutboxInv
  <2>3. CASE agent[a] # "none"
    <3>1. agentShown[a] = "ended"
      BY <1>2, <2>0, <2>1, <2>3 DEF LoopInv, ReportInv
    <3>2. phase[i] = "over"
      BY <1>2, <2>0 DEF LoopInv, ShownInv
    <3>3. \A j \in Slots : Spawner(j) => j = i
      BY <2>1 DEF Spawner
    <3>4. agent[a] = "over"
      BY <1>2, <2>0, <2>3, <3>2, <3>3 DEF LoopInv, AgentsInv
    <3> QED
      BY <3>1, <3>4
  <2> QED
    BY <2>2, <2>3
<1>3. LoopInv => ResultsComplete
  BY <1>1, <1>2 DEF ResultsComplete, LoopInv, TypeInv
<1> QED
  BY <1>3, LoopInvHolds, PTL
=============================================================================
