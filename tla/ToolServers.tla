----------------------------- MODULE ToolServers -----------------------------
(* The way of a tool call: the gates of ToolExecutor (hooks, policy), the      *)
(* composite adapter that chooses who serves a name, the native functions,    *)
(* and the MCP adapter with one connection and one lock for each server, that *)
(* is started in the background and stopped when the application ends.        *)
(* A server, fastmcp's client and the hooks' bodies are external: a server    *)
(* may hang, fail, list a tool whose schema cannot be read, or never answer;  *)
(* a client with two calls in it may hand one the answer of the other, which  *)
(* is what the adapter's comment on its locks says.                           *)
EXTENDS Naturals, Sequences, FiniteSets, SequencesExt

CONSTANTS
  N,          \* how many MCP servers are configured
  Tools,      \* names of tools
  Calls,      \* calls of the tool loop
  Nobody,     \* "none" of servers, tools and calls
  Attempts,   \* connection attempts of a server (3 in the code)
  Scenes      \* what is configured: see SceneType

Servers == 1..N
Adapters == {"builtin", "user", "mcp"}
BeforeHooks == {"pass", "raise", "rename", "short"}
NativeRaises == {"none", "TimeoutError", "PermissionError", "ValueError", "other"}
Codes == {"TOOL_NOT_FOUND", "UPSTREAM_UNAVAILABLE", "TIMEOUT", "POLICY_BLOCKED",
          "INVALID_ARGUMENT", "EXECUTION_ERROR"}
Results == Codes \union {"none", "ok", "short", "blocked", "timed out"}

SceneType ==
  [product : {"app", "sdk"},            \* app/factory.py or the SDK client
   direct : BOOLEAN,                    \* tools are also put into the user's adapter itself
   registers : SUBSET Tools,            \* tools that the program registers late
   builtin : SUBSET Tools,
   offers : [Servers -> Seq(Tools)],    \* what list_tools of a server returns
   unreadable : SUBSET Tools,           \* tools whose schema cannot be parsed
   before : Seq(BeforeHooks),
   renamed : Tools,                     \* what a renaming hook makes of a name
   redacts : BOOLEAN,                   \* an after_tool hook that rewrites the result
   allowed : SUBSET Tools,              \* the policy's whitelist, {} for none
   wanted : SUBSET Tools]               \* what the model calls

(* What the constants are; the model that gives them values assumes it. *)
ServersAssumption ==
  N \in Nat /\ Attempts \in Nat \ {0} /\ Nobody \notin Servers /\ Scenes \subseteq SceneType

VARIABLES
  scene,
  phase,      \* the task of a server: idle, connecting, backoff, connected, over
  attempt,
  ready,      \* servers whose ready event is set
  stopping,   \* servers whose stop event is set
  clients,    \* _clients
  defs,       \* _definitions: pairs of a tool and a server that listed it
  serverOf,   \* _tool_server_map
  starter,    \* the caller of start(): idle, waiting, returned, gaveup
  stopper,    \* the caller of stop(): idle, waiting, done
  chain,      \* _adapters of the composite in use
  routing,    \* _routing of the composite in use
  user,       \* tools of the user's NativeToolAdapter
  call,       \* what each call has come to
  queue,      \* the lock of a server: its holder, then those waiting for it
  inClient    \* calls that are inside a server's call_tool

serverVars == <<phase, attempt, ready, clients, defs, serverOf>>
adapterVars == <<chain, routing, user>>
callVars == <<call, queue, inClient>>
vars == <<scene, serverVars, stopping, starter, stopper, adapterVars, callVars>>

NewCall == [pc |-> "new", tool |-> Nobody, to |-> "none", server |-> Nobody, shown |-> FALSE,
            result |-> "none", answer |-> Nobody, text |-> "none"]

-----------------------------------------------------------------------------
(* The composite adapter *)

AdapterTools(a) ==
  CASE a = "builtin" -> scene.builtin
    [] a = "user" -> user
    [] a = "mcp" -> {d[1] : d \in defs}

FirstIn(adapters, t) ==
  LET offering == {i \in DOMAIN adapters : t \in AdapterTools(adapters[i])}
  IN IF offering = {} THEN "none" ELSE adapters[Min(offering)]

Eager(adapters) == [t \in Tools |-> FirstIn(adapters, t)]
(* Mutant: the table of the construction is all there is. *)
CachedOnly(t) == routing[t]

FindAdapter(t) == IF routing[t] # "none" THEN routing[t] ELSE FirstIn(chain, t)
Shown == UNION {AdapterTools(a) : a \in ToSet(chain)}

OwnChain == IF scene.product = "sdk" THEN <<"builtin", "user">> ELSE <<"builtin">>
MergedChain == OwnChain \o <<"mcp">>

Init ==
  /\ scene \in Scenes
  /\ phase = [s \in Servers |-> "idle"]
  /\ attempt = [s \in Servers |-> 1]
  /\ ready = {} /\ stopping = {} /\ clients = {} /\ defs = {}
  /\ serverOf = [t \in Tools |-> Nobody]
  /\ starter = "idle" /\ stopper = "idle"
  /\ chain = OwnChain /\ user = {}
  /\ routing = [t \in Tools |-> IF t \in scene.builtin THEN "builtin" ELSE "none"]
  /\ call = [c \in Calls |-> NewCall]
  /\ queue = [s \in Servers |-> <<>>]
  /\ inClient = [s \in Servers |-> {}]

-----------------------------------------------------------------------------
(* Starting and stopping the MCP adapter *)

Start ==
  /\ starter = "idle"
  /\ starter' = "waiting"
  /\ phase' = [s \in Servers |-> "connecting"]
  /\ UNCHANGED <<scene, attempt, ready, clients, defs, serverOf, stopping, stopper, adapterVars, callVars>>

(* The listed tools are registered one by one; the first whose schema cannot  *)
(* be read ends the attempt and leaves the earlier ones registered.           *)
Readable(s) ==
  {i \in DOMAIN scene.offers[s] : \A j \in 1..i : scene.offers[s][j] \notin scene.unreadable}

AllReadable(s) == Readable(s) = DOMAIN scene.offers[s]

RegisterListed(s) ==
  LET listed == {scene.offers[s][i] : i \in Readable(s)}
  IN /\ defs' = defs \union (listed \X {s})
     /\ serverOf' = [t \in Tools |-> IF t \in listed THEN s ELSE serverOf[t]]

AttemptFails(s) ==
  IF attempt[s] < Attempts
  THEN /\ phase' = [phase EXCEPT ![s] = "backoff"]
       /\ UNCHANGED ready
  ELSE /\ phase' = [phase EXCEPT ![s] = "over"]
       /\ ready' = ready \union {s}

Connect(s) ==
  /\ phase[s] = "connecting"
  /\ RegisterListed(s)
  /\ IF AllReadable(s)
     THEN /\ phase' = [phase EXCEPT ![s] = "connected"]
          /\ clients' = clients \union {s}
          /\ ready' = ready \union {s}
     ELSE AttemptFails(s) /\ UNCHANGED clients
  /\ UNCHANGED <<scene, attempt, stopping, starter, stopper, adapterVars, callVars>>

ConnectionFails(s) ==
  /\ phase[s] = "connecting"
  /\ AttemptFails(s)
  /\ UNCHANGED <<scene, attempt, clients, defs, serverOf, stopping, starter, stopper, adapterVars, callVars>>

Retry(s) ==
  /\ phase[s] = "backoff"
  /\ attempt' = [attempt EXCEPT ![s] = @ + 1]
  /\ IF s \in stopping
     THEN /\ phase' = [phase EXCEPT ![s] = "over"]
          /\ ready' = ready \union {s}
     ELSE /\ phase' = [phase EXCEPT ![s] = "connecting"]
          /\ UNCHANGED ready
  /\ UNCHANGED <<scene, clients, defs, serverOf, stopping, starter, stopper, adapterVars, callVars>>

Close(s) ==
  /\ phase[s] = "connected" /\ s \in stopping
  /\ phase' = [phase EXCEPT ![s] = "over"]
  /\ UNCHANGED <<scene, attempt, ready, clients, defs, serverOf, stopping, starter, stopper, adapterVars, callVars>>

StartReturns ==
  /\ starter = "waiting" /\ ready = Servers
  /\ starter' = "returned"
  /\ chain' = MergedChain
  /\ routing' = Eager(MergedChain)
  /\ UNCHANGED <<scene, serverVars, stopping, stopper, user, callVars>>

(* wait_for(start(), 30): the caller goes on with its own tools. *)
StartTimesOut ==
  /\ starter = "waiting"
  /\ starter' = "gaveup"
  /\ UNCHANGED <<scene, serverVars, stopping, stopper, adapterVars, callVars>>

(* The application stops the adapter at any time after the background start   *)
(* began; the SDK forgets an adapter whose start failed.                      *)
Stop ==
  /\ stopper = "idle" /\ starter # "idle"
  /\ scene.product = "sdk" => starter = "returned"
  /\ stopper' = "waiting"
  /\ stopping' = Servers
  /\ UNCHANGED <<scene, serverVars, starter, adapterVars, callVars>>

(* stop() waits for the tasks in the order of the configuration, five seconds *)
(* each, and cancels one that is not over by then.                            *)
CancelTask(s) ==
  /\ stopper = "waiting" /\ phase[s] # "over"
  /\ \A r \in 1..(s - 1) : phase[r] = "over"
  /\ phase' = [phase EXCEPT ![s] = "over"]
  /\ UNCHANGED <<scene, attempt, ready, clients, defs, serverOf, stopping, starter, stopper, adapterVars, callVars>>

TasksAwaited == \A s \in Servers : phase[s] = "over"

StopReturns ==
  /\ stopper = "waiting" /\ TasksAwaited
  /\ stopper' = "done"
  /\ clients' = {} /\ defs' = {} /\ stopping' = {}
  /\ serverOf' = [t \in Tools |-> Nobody]
  /\ UNCHANGED <<scene, phase, attempt, ready, starter, adapterVars, callVars>>

-----------------------------------------------------------------------------
(* The SDK's adapter is stopped when the "async with" block is over, and its  *)
(* calls with it; in the application background runs go on calling.           *)
InUse == scene.product = "sdk" => stopper = "idle"

(* Registering a tool: through the composite, as AstraCoreClient.register_tool *)
(* does, or directly in the native adapter that the composite was built with; *)
(* nobody registers tools with a client that is being closed.                 *)

RegisterTool(t) ==
  /\ scene.product = "sdk" /\ starter \in {"returned", "gaveup"} /\ InUse
  /\ t \in scene.registers
  /\ user' = user \union {t}
  /\ routing' = [routing EXCEPT ![t] = "user"]
  /\ UNCHANGED <<scene, serverVars, stopping, starter, stopper, chain, callVars>>

RegisterDirectly(t) ==
  /\ scene.direct /\ scene.product = "sdk" /\ InUse
  /\ t \in scene.registers
  /\ user' = user \union {t}
  /\ UNCHANGED <<scene, serverVars, stopping, starter, stopper, chain, routing, callVars>>

-----------------------------------------------------------------------------
(* A call *)

(* _run_hooks: a hook that raises is passed over, a short circuit ends the    *)
(* chain, and a changed payload goes to the next hook.                        *)
ShortAt == {i \in DOMAIN scene.before : scene.before[i] = "short"}
ShortCircuits == ShortAt # {}
HookedName(t) == IF "rename" \in ToSet(scene.before) THEN scene.renamed ELSE t

Allowed(t) == scene.allowed = {} \/ t \in scene.allowed
Checked(t) == Allowed(HookedName(t))

(* What the model is given: the result as it came, the after_tool hook's own  *)
(* version of it being dropped by ToolExecutor.                               *)
AfterText(result) == "raw"

Over(rec, result, answer) ==
  [rec EXCEPT !.pc = "done", !.result = result, !.answer = answer, !.text = AfterText(result)]

Finish(c, result, answer) == call' = [call EXCEPT ![c] = Over(@, result, answer)]

(* The gates refuse: a hook that short-circuits, then the policy's whitelist. *)
Refuse(c, t) ==
  /\ call[c].pc = "new" /\ t \in scene.wanted
  /\ ShortCircuits \/ ~Checked(t)
  /\ Finish(c, IF ShortCircuits THEN "short" ELSE "blocked", Nobody)
  /\ UNCHANGED <<scene, serverVars, stopping, starter, stopper, adapterVars, queue, inClient>>

Routed(c, t, a) ==
  [call[c] EXCEPT !.tool = t, !.to = a, !.shown = t \in Shown,
                  !.server = IF a = "mcp" THEN serverOf[t] ELSE Nobody]

(* CompositeToolAdapter.execute, MCPToolAdapter.execute to the lock.          *)
Execute(c, asked) ==
  LET t == HookedName(asked)
      a == FindAdapter(t)
      rec == Routed(c, t, a)
      s == rec.server
  IN /\ call[c].pc = "new" /\ asked \in scene.wanted
     /\ ~ShortCircuits /\ Checked(asked) /\ InUse
     /\ routing' = [routing EXCEPT ![t] = a]
     /\ \/ /\ a = "none" \/ (a = "mcp" /\ s = Nobody)
           /\ call' = [call EXCEPT ![c] = Over(rec, "TOOL_NOT_FOUND", Nobody)]
           /\ UNCHANGED <<queue, inClient>>
        \/ /\ a = "mcp" /\ s # Nobody /\ s \notin clients
           /\ call' = [call EXCEPT ![c] = Over(rec, "UPSTREAM_UNAVAILABLE", Nobody)]
           /\ UNCHANGED <<queue, inClient>>
        \/ /\ a \in {"builtin", "user"}
           /\ call' = [call EXCEPT ![c] = [rec EXCEPT !.pc = "running"]]
           /\ UNCHANGED <<queue, inClient>>
        \/ /\ a = "mcp" /\ s # Nobody /\ s \in clients
           /\ queue' = [queue EXCEPT ![s] = Append(@, c)]
           /\ call' = [call EXCEPT ![c] = [rec EXCEPT !.pc = IF queue[s] = <<>> THEN "calling" ELSE "waiting"]]
           /\ inClient' = IF queue[s] = <<>> THEN [inClient EXCEPT ![s] = @ \union {c}] ELSE inClient
     /\ UNCHANGED <<scene, serverVars, stopping, starter, stopper, chain, user>>

NativeCode(raised) ==
  CASE raised = "none" -> "ok"
    [] raised = "TimeoutError" -> "TIMEOUT"
    [] raised = "PermissionError" -> "POLICY_BLOCKED"
    [] raised = "ValueError" -> "INVALID_ARGUMENT"
    [] raised = "other" -> "EXECUTION_ERROR"

NativeReturns(c, raised) ==
  /\ call[c].pc = "running"
  /\ Finish(c, NativeCode(raised), Nobody)
  /\ UNCHANGED <<scene, serverVars, stopping, starter, stopper, adapterVars, queue, inClient>>

Release(c) ==
  /\ queue' = [s \in Servers |-> RemoveFirst(queue[s], c)]
  /\ inClient' = [s \in Servers |-> inClient[s] \ {c}]

(* Mutant: no lock. *)
AcquireAnyway(c) == call[c].pc = "waiting"

MayEnter(c) == call[c].pc = "waiting" /\ Head(queue[call[c].server]) = c

Acquire(c) ==
  /\ MayEnter(c)
  /\ call' = [call EXCEPT ![c].pc = "calling"]
  /\ inClient' = [inClient EXCEPT ![call[c].server] = @ \union {c}]
  /\ UNCHANGED <<scene, serverVars, stopping, starter, stopper, adapterVars, queue>>

(* fastmcp: which of the calls inside the client an answer is for.            *)
AnswersFor(c) == inClient[call[c].server]

ServerAnswers(c) ==
  /\ call[c].pc = "calling"
  /\ Release(c)
  /\ \/ /\ phase[call[c].server] = "connected"
        /\ \E d \in AnswersFor(c) : Finish(c, "ok", d)
     \/ Finish(c, "UPSTREAM_UNAVAILABLE", Nobody)
  /\ UNCHANGED <<scene, serverVars, stopping, starter, stopper, adapterVars>>

(* Mutant: a call that is inside the server is waited for. *)
HungInClient(c) ==
  /\ call[c].pc \in {"running", "waiting"}
  /\ Finish(c, "timed out", Nobody)
  /\ Release(c)
  /\ UNCHANGED <<scene, serverVars, stopping, starter, stopper, adapterVars>>

(* wait_for of ToolExecutor.run, timeout of run_streaming: the call is        *)
(* cancelled where it waits and gives up its place at the lock.               *)
TimesOut(c) ==
  /\ call[c].pc \in {"running", "waiting", "calling"}
  /\ Finish(c, "timed out", Nobody)
  /\ Release(c)
  /\ UNCHANGED <<scene, serverVars, stopping, starter, stopper, adapterVars>>

-----------------------------------------------------------------------------
StartEnds == StartReturns \/ StartTimesOut
StopProgress == StopReturns \/ \E s \in Servers : CancelTask(s)

Next ==
  \/ Start \/ StartReturns \/ StartTimesOut \/ Stop \/ StopReturns
  \/ \E s \in Servers : Connect(s) \/ ConnectionFails(s) \/ Retry(s) \/ Close(s) \/ CancelTask(s)
  \/ \E t \in Tools : RegisterTool(t) \/ RegisterDirectly(t)
  \/ \E c \in Calls, t \in Tools : Refuse(c, t) \/ Execute(c, t)
  \/ \E c \in Calls : Acquire(c) \/ ServerAnswers(c) \/ TimesOut(c)
  \/ \E c \in Calls, raised \in NativeRaises : NativeReturns(c, raised)

Spec == Init /\ [][Next]_vars

(* Only the waits that a timer bounds are fair: a server may hang for ever.   *)
FairSpec ==
  /\ Spec
  /\ WF_vars(StartEnds) /\ WF_vars(StopProgress)
  /\ \A c \in Calls : WF_vars(TimesOut(c))

-----------------------------------------------------------------------------
(* Types of the adapter's state and of the calls. *)
TypeOK ==
  /\ scene \in SceneType
  /\ phase \in [Servers -> {"idle", "connecting", "backoff", "connected", "over"}]
  /\ attempt \in [Servers -> 1..Attempts]
  /\ ready \subseteq Servers /\ stopping \subseteq Servers /\ clients \subseteq Servers
  /\ defs \subseteq Tools \X Servers
  /\ serverOf \in [Tools -> Servers \union {Nobody}]
  /\ starter \in {"idle", "waiting", "returned", "gaveup"}
  /\ stopper \in {"idle", "waiting", "done"}
  /\ chain \in Seq(Adapters) /\ user \subseteq Tools
  /\ routing \in [Tools -> Adapters \union {"none"}]
  /\ call \in [Calls -> [pc : {"new", "running", "waiting", "calling", "done"},
                         tool : Tools \union {Nobody}, to : Adapters \union {"none"},
                         server : Servers \union {Nobody}, shown : BOOLEAN, result : Results,
                         answer : Calls \union {Nobody}, text : {"none", "raw", "redacted"}]]
  /\ queue \in [Servers -> Seq(Calls)] /\ inClient \in [Servers -> SUBSET Calls]

(* A successful answer of an MCP server is the answer of the call that asked, *)
(* whatever other calls queue, time out or are cancelled at the same server   *)
(* (the per-server locks of MCPToolAdapter).                                  *)
OwnAnswer == \A c \in Calls : call[c].answer # Nobody => call[c].answer = c

(* The lock of a server is with the calls that are still under way: one that  *)
(* timed out, in the client or in the queue, leaves nothing behind.           *)
LockWithTheLiving ==
  \A s \in Servers : \A i \in DOMAIN queue[s] :
    LET c == queue[s][i]
    IN call[c].server = s /\ call[c].pc \in {"waiting", "calling"} /\ (call[c].pc = "calling" => i = 1)

(* A tool that the adapter shows when it is called is found: eager and lazy   *)
(* routing, start and stop of the MCP adapter and late registrations never    *)
(* leave a name that is offered and unknown.                                  *)
ShownIsFound == \A c \in Calls : call[c].shown => call[c].result # "TOOL_NOT_FOUND"

(* When start() has returned, every tool of every connected server is offered *)
(* until the adapter is stopped.                                              *)
ConnectedIsOffered ==
  starter = "returned" /\ stopper = "idle" =>
    \A s \in clients : ToSet(scene.offers[s]) \subseteq Shown

(* stop() is final: no connection, client or definition is left or comes      *)
(* later, though a connection attempt was under way when it was called.       *)
StopIsFinal ==
  stopper = "done" =>
    clients = {} /\ defs = {} /\ \A s \in Servers : phase[s] = "over"

(* No adapter is given a name that the policy does not allow, whatever a      *)
(* before_tool hook made of the call.                                         *)
BlockedNeverRuns == \A c \in Calls : call[c].to # "none" => Allowed(call[c].tool)

(* A start or stop that was begun comes to an end though servers hang.        *)
LifecycleEnds ==
  /\ starter = "waiting" ~> starter # "waiting"
  /\ stopper = "waiting" ~> stopper = "done"

(* Every call ends, the ones behind a call that hangs too.                    *)
CallsEnd == \A c \in Calls : (call[c].tool # Nobody) ~> (call[c].pc = "done")

(* composite.py:25-26: adapters listed first take priority when the same tool *)
(* name appears in multiple adapters.                                         *)
FirstServes ==
  [][\A c \in Calls : call[c].to = "none" /\ call'[c].to # "none" =>
       call'[c].to = FirstIn(chain, call'[c].tool)]_vars

(* shared/observability/hooks.py:3-4: a hook may return a modified value that *)
(* replaces the current one; here the hook that rewrites a tool's result.     *)
AfterHookHeard == \A c \in Calls : call[c].pc = "done" /\ scene.redacts => call[c].text = "redacted"

=============================================================================
