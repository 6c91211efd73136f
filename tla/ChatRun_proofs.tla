---------------------------- MODULE ChatRun_proofs ----------------------------
(* What ChatRun guarantees for every number of runs, requests, deltas,        *)
(* questions and restarts and every capacity of the subscribers' queues: the  *)
(* states of runs, the ledger their rows implement, the text that is kept,    *)
(* and what clients are told.                                                 *)
EXTENDS ChatRun, TLAPS

(* _enqueue: the item is in the queue, as the last one, and the capacity is *)
(* respected.                                                               *)
LEMMA PushType ==
  ASSUME NEW q \in Seq(Event), NEW e \in Event, Len(q) <= QueueSize
  PROVE  /\ Push(q, e) \in Seq(Event)
         /\ Len(Push(q, e)) <= QueueSize
         /\ Push(q, e) # <<>>
         /\ Push(q, e)[Len(Push(q, e))] = e
<1>1. CASE Len(q) < QueueSize
  BY <1>1, ConstantsAssumption DEF Push
<1>2. CASE ~(Len(q) < QueueSize)
  <2>1. q # <<>> /\ Len(q) = QueueSize
    BY <1>2, ConstantsAssumption
  <2>2. Tail(q) \in Seq(Event) /\ Len(Tail(q)) = Len(q) - 1
    BY <2>1
  <2>3. Push(q, e) = Append(Tail(q), e)
    BY <1>2 DEF Push
  <2> QED
    BY <2>1, <2>2, <2>3, ConstantsAssumption
<1> QED
  BY <1>1, <1>2


-----------------------------------------------------------------------------
(* What each kind of step leaves alone. *)
LEMMA TaskFrame ==
  ASSUME NEW r \in Runs, TaskStep(r)
  PROVE  UNCHANGED <<erased, made, cpc, crun, spc, srun, sread, shere, late, view,
                     kpc, krun, ktext, restarts>>
BY
   DEF TaskStep, Begin, InterruptUnstarted, Prepared, Emit, Ask, TakeAnswer, AskTimeout, StreamEnd,
       SaveDone,
  Fail, Unwound, DoneWrite, Announce, ErrorWrite, ErrorAnnounce, HaltWrite,
  HaltAnnounce, InterruptRunning, InterruptAsk, InterruptHandler,
  handlerVars, createVars, streamVars, cancelVars

LEMMA CreateFrame ==
  ASSUME NEW c \in Creators, CreateStep(c)
  PROVE  /\ UNCHANGED <<erased, question, answer, text, asked, stored, replies,
                        cancelled, queue, spc, srun, sread, shere, late, view, kpc,
                        krun, ktext, restarts>>
         /\ ~CreateRegister(c) => UNCHANGED <<local, status, pc>>
BY DEF CreateStep, CreateRead, CreateReuse, CreateFoundStale, CreateMarkStale,
  CreateAllocate, CreateInsert, CreateRegister,
  taskAndRegistry, taskVars, registryVars, streamVars, cancelVars

LEMMA StreamFrame ==
  ASSUME NEW s \in Streams, StreamStep(s)
  PROVE  /\ UNCHANGED <<erased, local, status, question, answer, text, asked, pc,
                        stored, replies, cancelled, made, cpc, crun, kpc, krun,
                        ktext, restarts>>
         /\ ~StreamRepair(s) => UNCHANGED row
         /\ ~StreamRead(s) => UNCHANGED queue
BY DEF StreamStep, StreamNotFound, StreamState, StreamAlreadyOver, StreamSubscribe,
  StreamFoundStale, StreamRepair, StreamRepaired, StreamRead,
  taskAndRegistry, taskVars, registryVars, createVars, cancelVars

LEMMA CancelFrame ==
  ASSUME NEW k \in Cancellers, CancelStep(k)
  PROVE  /\ UNCHANGED <<erased, local, question, answer, text, asked, pc, stored,
                        replies, made, cpc, crun, spc, srun, sread, shere, late,
                        view, krun, restarts>>
         /\ ~CancelRequest(k) => UNCHANGED <<status, cancelled>>
         /\ ~CancelWrite(k) => UNCHANGED row
         /\ ~CancelAnnounce(k) => UNCHANGED queue
BY DEF CancelStep, CancelRequest, CancelWrite, CancelAnnounce,
  taskAndRegistry, taskVars, registryVars, createVars, streamVars

LEMMA UserFrame ==
  ASSUME UserStep
  PROVE  /\ UNCHANGED <<local, status, question, text, asked, pc, stored, replies,
                        cancelled, made, cpc, crun, view, ktext, restarts>>
         /\ \/ \E r \in Runs, q \in 1..MaxAsks : Answer(r, q)
            \/ UNCHANGED answer
BY DEF UserStep, StreamOpen, StreamLeave, CancelRead, Answer, DeleteSession,
  DeleteMessage, EraseAnswer,
  taskAndRegistry, taskVars, registryVars, handlerVars, createVars, streamVars,
  cancelVars

LEMMA StutterFrame ==
  ASSUME UNCHANGED vars
  PROVE  UNCHANGED <<row, erased, local, status, question, answer, text, asked, pc,
                     stored, replies, cancelled, queue, made, cpc, crun, spc, srun,
                     sread, shere, late, view, kpc, krun, ktext, restarts>>
BY DEF vars, handlerVars, registryVars, taskVars, createVars, streamVars, cancelVars

-----------------------------------------------------------------------------
(* The types of the rows. *)
LEMMA PatchedType ==
  ASSUME RowsOK, NEW r \in Runs, NEW st \in RowStatus, NEW why \in Cause,
         NEW txt \in 0..MaxText
  PROVE  /\ Patched(r, st, why, txt) \in [Runs -> Row]
         /\ ReturnedText(r, txt) \in 0..NoRow
         /\ row[r].text \in 0..MaxText
         /\ row[r].why \in Cause
BY ConstantsAssumption DEF RowsOK, Row, Patched, ReturnedText, NoRow

LEMMA CancelTextType ==
  ASSUME RowsOK, NEW r \in Runs, NEW txt \in 0..MaxText
  PROVE  CancelText(r, txt) \in 0..MaxText
BY DEF RowsOK, Row, CancelText

LEMMA RowsInit == Init => RowsOK
BY ConstantsAssumption DEF Init, RowsOK, Row, AbsentRow, RowStatus, Cause

LEMMA RowsStep ==
  ASSUME TypeOK, [Next]_vars
  PROVE  RowsOK'
<1> USE DEF TypeOK
<1>1. ASSUME NEW r \in Runs, TaskStep(r) PROVE RowsOK'
  <2>1. UNCHANGED <<erased, restarts>>
    BY <1>1, TaskFrame
  <2>2. CASE DoneWrite(r)
    <3>1. row' = Patched(r, "done", row[r].why, text[r])
      BY <2>2 DEF DoneWrite
    <3>2. text[r] \in 0..MaxText /\ row[r].why \in Cause
      BY PatchedType DEF TasksOK, RowsOK, Row
    <3> QED
      BY <2>1, <3>1, <3>2, PatchedType DEF RowsOK, RowStatus, Terminal
  <2>3. CASE ErrorWrite(r)
    <3>1. row' = Patched(r, "error", "failed", row[r].text)
      BY <2>3 DEF ErrorWrite
    <3>2. row[r].text \in 0..MaxText
      BY DEF RowsOK, Row
    <3> QED
      BY <2>1, <3>1, <3>2, PatchedType DEF RowsOK, RowStatus, Terminal, Cause
  <2>4. CASE HaltWrite(r)
    <3>1. row' = Patched(r, "cancelled", "stopped", CancelText(r, text[r]))
      BY <2>4 DEF HaltWrite
    <3>2. CancelText(r, text[r]) \in 0..MaxText
      BY CancelTextType DEF TasksOK
    <3> QED
      BY <2>1, <3>1, <3>2, PatchedType DEF RowsOK, RowStatus, Terminal, Cause
  <2>5. CASE ~(DoneWrite(r) \/ ErrorWrite(r) \/ HaltWrite(r))
    <3>1. UNCHANGED row
      BY <1>1, <2>5
         DEF TaskStep, Begin, InterruptUnstarted, Prepared, Emit, Ask, TakeAnswer, AskTimeout,
        StreamEnd, SaveDone, Fail, Unwound, Announce, ErrorAnnounce, HaltAnnounce,
        InterruptRunning, InterruptAsk, InterruptHandler
    <3> QED
      BY <2>1, <3>1 DEF RowsOK
  <2> QED
    BY <2>2, <2>3, <2>4, <2>5
<1>2. ASSUME NEW c \in Creators, CreateStep(c) PROVE RowsOK'
  <2>1. UNCHANGED <<erased, restarts>>
    BY <1>2, CreateFrame
  <2>2. CASE CreateMarkStale(c)
    <3>1. crun[c] \in Runs
      BY <2>2 DEF CreatorsOK, CreateMarkStale
    <3>2. row' = Patched(crun[c], "error", "restarted", row[crun[c]].text)
      BY <2>2 DEF CreateMarkStale
    <3>3. row[crun[c]].text \in 0..MaxText
      BY <3>1 DEF RowsOK, Row
    <3> QED
      BY <2>1, <3>1, <3>2, <3>3, PatchedType DEF RowsOK, RowStatus, Terminal, Cause
  <2>3. CASE CreateInsert(c)
    <3>1. row' = [row EXCEPT ![crun[c]] = NewRow]
      BY <2>3 DEF CreateInsert
    <3>2. NewRow \in Row
      BY ConstantsAssumption DEF NewRow, Row, RowStatus, Cause
    <3> QED
      BY <2>1, <3>1, <3>2 DEF RowsOK
  <2>4. CASE ~(CreateMarkStale(c) \/ CreateInsert(c))
    <3>1. UNCHANGED row
      BY <1>2, <2>4 DEF CreateStep, CreateRead, CreateReuse, CreateFoundStale,
        CreateAllocate, CreateRegister
    <3> QED
      BY <2>1, <3>1 DEF RowsOK
  <2> QED
    BY <2>2, <2>3, <2>4
<1>3. ASSUME NEW s \in Streams, StreamStep(s) PROVE RowsOK'
  <2>1. CASE StreamRepair(s)
    <3>1. srun[s] \in Runs
      BY <2>1 DEF StreamsOK, StreamRepair
    <3>2. row' = Patched(srun[s], "error", "interrupted", row[srun[s]].text)
      BY <2>1 DEF StreamRepair
    <3>3. row[srun[s]].text \in 0..MaxText
      BY <3>1 DEF RowsOK, Row
    <3>4. UNCHANGED <<erased, restarts>>
      BY <1>3, StreamFrame
    <3> QED
      BY <3>1, <3>2, <3>3, <3>4, PatchedType DEF RowsOK, RowStatus, Terminal, Cause
  <2>2. CASE ~StreamRepair(s)
    BY <1>3, <2>2, StreamFrame DEF RowsOK
  <2> QED
    BY <2>1, <2>2
<1>4. ASSUME NEW k \in Cancellers, CancelStep(k) PROVE RowsOK'
  <2>1. CASE CancelWrite(k)
    <3>1. krun[k] \in Runs
      BY <2>1 DEF CancellersOK, CancelWrite
    <3>2. row' = Patched(krun[k], "cancelled", "stopped", CancelText(krun[k], ktext[k]))
      BY <2>1 DEF CancelWrite
    <3>3. ktext[k] \in 0..MaxText
      BY <2>1, ConstantsAssumption DEF CancellersOK, CancelWrite, NoRow
    <3>4. UNCHANGED <<erased, restarts>>
      BY <1>4, CancelFrame
    <3> QED
      BY <3>1, <3>2, <3>3, <3>4, CancelTextType, PatchedType
      DEF RowsOK, RowStatus, Terminal, Cause
  <2>2. CASE ~CancelWrite(k)
    BY <1>4, <2>2, CancelFrame DEF RowsOK
  <2> QED
    BY <2>1, <2>2
<1>5. ASSUME UserStep PROVE RowsOK'
  <2>1. UNCHANGED restarts
    BY <1>5, UserFrame
  <2>2. DeletedRow \in Row
    BY ConstantsAssumption DEF DeletedRow, Row, RowStatus, Cause
  <2>3. CASE DeleteSession
    BY <2>1, <2>2, <2>3 DEF DeleteSession, RowsOK
  <2>4. ASSUME NEW r \in Runs, DeleteMessage(r) PROVE RowsOK'
    BY <2>1, <2>2, <2>4 DEF DeleteMessage, RowsOK
  <2>5. ASSUME NEW r \in Runs, EraseAnswer(r) PROVE RowsOK'
    <3>1. [row[r] EXCEPT !.text = 0] \in Row
      BY ConstantsAssumption DEF RowsOK, Row
    <3> QED
      BY <2>1, <2>5, <3>1 DEF EraseAnswer, RowsOK
  <2>6. CASE UNCHANGED <<row, erased>>
    BY <2>1, <2>6 DEF RowsOK
  <2> QED
    BY <1>5, <2>3, <2>4, <2>5, <2>6
    DEF UserStep, StreamOpen, StreamLeave, CancelRead, Answer
<1>6. ASSUME Restart PROVE RowsOK'
  BY <1>6, ConstantsAssumption DEF Restart, RowsOK
<1>7. ASSUME UNCHANGED vars PROVE RowsOK'
  BY <1>7, StutterFrame DEF RowsOK
<1> QED
  BY <1>1, <1>2, <1>3, <1>4, <1>5, <1>6, <1>7 DEF Next

-----------------------------------------------------------------------------
(* The types of the registry. *)
LEMMA RegistryInit == Init => RegistryOK
BY ConstantsAssumption DEF Init, RegistryOK, NoQuestion

LEMMA RegistryStep ==
  ASSUME TypeOK, [Next]_vars
  PROVE  RegistryOK'
<1> USE ConstantsAssumption DEF TypeOK, RegistryOK
<1>1. ASSUME NEW r \in Runs, TaskStep(r) PROVE RegistryOK'
  <2>1. CASE Ask(r)
    <3>1. /\ UNCHANGED <<local, cancelled, answer>>
          /\ status' = [status EXCEPT ![r] = "awaiting_input"]
          /\ question' = [question EXCEPT ![r] = asked[r] + 1]
          /\ asked[r] < MaxAsks
      BY <2>1 DEF Ask
    <3>2. asked[r] + 1 \in 0..MaxAsks
      BY <3>1 DEF TasksOK
    <3> QED
      BY <3>1, <3>2
  <2>2. CASE TakeAnswer(r) \/ AskTimeout(r) \/ InterruptAsk(r)
    <3>1. /\ UNCHANGED local
          /\ status' = [status EXCEPT ![r] = "running"]
          /\ question' = [question EXCEPT ![r] = 0]
          /\ answer' = [answer EXCEPT ![r] = 0]
          /\ cancelled' \subseteq cancelled
      BY <2>2 DEF TakeAnswer, AskTimeout, InterruptAsk, Resolve, NoQuestion
    <3> QED
      BY <3>1
  <2>3. CASE Announce(r) \/ ErrorAnnounce(r) \/ HaltAnnounce(r) \/ InterruptHandler(r)
    <3>1. /\ local' = local \ {r}
          /\ status' = [status EXCEPT ![r] = "none"]
          /\ UNCHANGED <<question, answer>>
          /\ cancelled' \subseteq cancelled
      BY <2>3 DEF Announce, ErrorAnnounce, HaltAnnounce, InterruptHandler, Pop
    <3> QED
      BY <3>1
  <2>4. CASE Begin(r) \/ InterruptUnstarted(r) \/ Prepared(r) \/ Emit(r) \/ StreamEnd(r)
               \/ SaveDone(r) \/ Fail(r)
             \/ Unwound(r) \/ DoneWrite(r) \/ ErrorWrite(r) \/ HaltWrite(r)
             \/ InterruptRunning(r)
    <3>1. UNCHANGED <<local, status, question, answer>> /\ cancelled' \subseteq cancelled
      BY <2>4
         DEF Begin, InterruptUnstarted, Prepared, Emit, StreamEnd, SaveDone, Fail, Unwound,
             DoneWrite,
        ErrorWrite, HaltWrite, InterruptRunning, registryVars
    <3> QED
      BY <3>1
  <2> QED
    BY <1>1, <2>1, <2>2, <2>3, <2>4 DEF TaskStep
<1>2. ASSUME NEW c \in Creators, CreateStep(c) PROVE RegistryOK'
  <2>1. CASE CreateRegister(c)
    <3>1. crun[c] \in Runs
      BY <2>1 DEF CreatorsOK, CreateRegister
    <3>2. /\ local' = local \union {crun[c]}
          /\ status' = [status EXCEPT ![crun[c]] = "running"]
          /\ UNCHANGED <<question, answer, cancelled>>
      BY <2>1 DEF CreateRegister
    <3> QED
      BY <3>1, <3>2
  <2>2. CASE ~CreateRegister(c)
    BY <1>2, <2>2, CreateFrame
  <2> QED
    BY <2>1, <2>2
<1>3. ASSUME NEW s \in Streams, StreamStep(s) PROVE RegistryOK'
  BY <1>3, StreamFrame
<1>4. ASSUME NEW k \in Cancellers, CancelStep(k) PROVE RegistryOK'
  <2>1. CASE CancelRequest(k)
    <3>1. krun[k] \in Runs
      BY <2>1 DEF CancellersOK, CancelRequest
    <3>2. /\ cancelled' \subseteq cancelled \union {krun[k]}
          /\ \/ status' = [status EXCEPT ![krun[k]] = "cancelled"]
             \/ UNCHANGED status
          /\ UNCHANGED <<local, question, answer>>
      BY <2>1 DEF CancelRequest
    <3> QED
      BY <3>1, <3>2
  <2>2. CASE ~CancelRequest(k)
    BY <1>4, <2>2, CancelFrame
  <2> QED
    BY <2>1, <2>2
<1>5. ASSUME UserStep PROVE RegistryOK'
  <2>1. ASSUME NEW r \in Runs, NEW q \in 1..MaxAsks, Answer(r, q) PROVE RegistryOK'
    <3>1. answer' = [answer EXCEPT ![r] = q]
      BY <2>1 DEF Answer
    <3>2. UNCHANGED <<local, status, question, cancelled>>
      BY <1>5, UserFrame
    <3> QED
      BY <3>1, <3>2
  <2>2. CASE UNCHANGED answer
    BY <1>5, <2>2, UserFrame
  <2> QED
    BY <1>5, <2>1, <2>2, UserFrame
<1>6. ASSUME Restart PROVE RegistryOK'
  BY <1>6 DEF Restart, NoQuestion
<1>7. ASSUME UNCHANGED vars PROVE RegistryOK'
  BY <1>7, StutterFrame
<1> QED
  BY <1>1, <1>2, <1>3, <1>4, <1>5, <1>6, <1>7 DEF Next

-----------------------------------------------------------------------------
(* The types of the tasks. *)
LEMMA TasksInit == Init => TasksOK
BY ConstantsAssumption DEF Init, TasksOK, NoRow

LEMMA TasksStep ==
  ASSUME TypeOK, [Next]_vars
  PROVE  TasksOK'
<1> USE DEF TypeOK, TasksOK
<1> DEFINE Places == {"none"} \union Suspended \union Ended
<1>1. ASSUME NEW r \in Runs, TaskStep(r) PROVE TasksOK'
  <2>1. ASSUME NEW to \in Places, pc' = [pc EXCEPT ![r] = to],
               UNCHANGED <<text, asked, stored, replies>>
        PROVE  TasksOK'
    BY <2>1
  <2>2. CASE Emit(r)
    <3>1. /\ text' = [text EXCEPT ![r] = text[r] + 1]
          /\ text[r] < MaxText
          /\ UNCHANGED <<pc, asked, stored, replies>>
      BY <2>2 DEF Emit
    <3>2. text[r] + 1 \in 0..MaxText
      BY <3>1, ConstantsAssumption
    <3> QED
      BY <3>1, <3>2
  <2>3. CASE Ask(r)
    <3>1. /\ asked' = [asked EXCEPT ![r] = asked[r] + 1]
          /\ asked[r] < MaxAsks
          /\ pc' = [pc EXCEPT ![r] = "ask"]
          /\ UNCHANGED <<text, stored, replies>>
      BY <2>3 DEF Ask, Goto
    <3>2. asked[r] + 1 \in 0..MaxAsks
      BY <3>1, ConstantsAssumption
    <3>3. "ask" \in Places
      BY DEF Suspended
    <3> QED
      BY <3>1, <3>2, <3>3
  <2>4. CASE TakeAnswer(r) \/ AskTimeout(r)
    <3>1. /\ pc' = [pc EXCEPT ![r] = "stream"]
          /\ \/ replies' = replies \union {<<r, question[r], answer[r]>>}
             \/ replies' = replies \union {<<r, question[r], 0>>}
          /\ UNCHANGED <<text, asked, stored>>
      BY <2>4 DEF TakeAnswer, AskTimeout, Goto, NoQuestion
    <3>2. question[r] \in 0..MaxAsks /\ answer[r] \in 0..MaxAsks /\ 0 \in 0..MaxAsks
      BY ConstantsAssumption DEF RegistryOK
    <3>3. "stream" \in Places
      BY DEF Suspended
    <3>4. replies' \subseteq (Runs \X (0..MaxAsks) \X (0..MaxAsks))
      BY <3>1, <3>2
    <3> QED
      BY <3>1, <3>3, <3>4
  <2>5. CASE DoneWrite(r) \/ ErrorWrite(r) \/ HaltWrite(r)
    <3>1. PICK to \in {"meta", "failed", "halted"} :
            /\ pc' = [pc EXCEPT ![r] = to]
            /\ UNCHANGED <<text, asked, replies>>
      BY <2>5 DEF DoneWrite, ErrorWrite, HaltWrite, Goto
    <3>2. PICK txt \in {text[r], row[r].text, CancelText(r, text[r])} :
            stored' = [stored EXCEPT ![r] = ReturnedText(r, txt)]
      BY <2>5 DEF DoneWrite, ErrorWrite, HaltWrite
    <3>3. txt \in 0..MaxText
      BY CancelTextType DEF RowsOK, Row
    <3>4. ReturnedText(r, txt) \in 0..NoRow
      BY <3>3, ConstantsAssumption DEF ReturnedText, NoRow
    <3>5. to \in Places
      BY DEF Suspended
    <3> QED
      BY <3>1, <3>2, <3>4, <3>5
  <2>6. CASE Begin(r) \/ InterruptUnstarted(r) \/ Prepared(r) \/ StreamEnd(r) \/ SaveDone(r)
               \/ Fail(r) \/ Unwound(r)
    <3>1. \E to \in {"prepare", "unstarted", "stream", "save", "write", "fail",
                    "unwindError", "halt"} :
            pc' = [pc EXCEPT ![r] = to]
      BY <2>6 DEF Begin, InterruptUnstarted, Prepared, StreamEnd, SaveDone, Fail, Unwound, Goto
    <3>2. UNCHANGED <<text, asked, stored, replies>>
      BY <2>6 DEF Begin, InterruptUnstarted, Prepared, StreamEnd, SaveDone, Fail, Unwound
    <3>3. {"prepare", "unstarted", "stream", "save", "write", "fail", "unwindError",
           "halt"} \subseteq Places
      BY DEF Suspended, Ended
    <3> QED
      BY <2>1, <3>1, <3>2, <3>3
  <2>7. CASE InterruptRunning(r) \/ InterruptAsk(r)
    <3>1. \E to \in {"halt", "unwindCancel", "write", "fail"} :
            pc' = [pc EXCEPT ![r] = to]
      BY <2>7 DEF InterruptRunning, InterruptAsk, Goto
    <3>2. UNCHANGED <<text, asked, stored, replies>>
      BY <2>7 DEF InterruptRunning, InterruptAsk
    <3>3. {"halt", "unwindCancel", "write", "fail"} \subseteq Places
      BY DEF Suspended
    <3> QED
      BY <2>1, <3>1, <3>2, <3>3
  <2>8. CASE Announce(r) \/ ErrorAnnounce(r) \/ HaltAnnounce(r) \/ InterruptHandler(r)
    <3>1. \E to \in {"finished", "errored", "stopped", "cut"} :
            pc' = [pc EXCEPT ![r] = to]
      BY <2>8 DEF Announce, ErrorAnnounce, HaltAnnounce, InterruptHandler, Goto
    <3>2. UNCHANGED <<text, asked, stored, replies>>
      BY <2>8 DEF Announce, ErrorAnnounce, HaltAnnounce, InterruptHandler
    <3>3. {"finished", "errored", "stopped", "cut"} \subseteq Places
      BY DEF Ended
    <3> QED
      BY <2>1, <3>1, <3>2, <3>3
  <2> QED
    BY <1>1, <2>2, <2>3, <2>4, <2>5, <2>6, <2>7, <2>8 DEF TaskStep
<1>2. ASSUME NEW c \in Creators, CreateStep(c) PROVE TasksOK'
  <2>1. CASE CreateRegister(c)
    <3>1. /\ pc' = [pc EXCEPT ![crun[c]] = "start"]
          /\ UNCHANGED <<text, asked, stored, replies>>
      BY <2>1 DEF CreateRegister
    <3>2. "start" \in Places
      BY DEF Suspended
    <3> QED
      BY <3>1, <3>2
  <2>2. CASE ~CreateRegister(c)
    BY <1>2, <2>2, CreateFrame
  <2> QED
    BY <2>1, <2>2
<1>3. ASSUME NEW s \in Streams, StreamStep(s) PROVE TasksOK'
  BY <1>3, StreamFrame
<1>4. ASSUME NEW k \in Cancellers, CancelStep(k) PROVE TasksOK'
  BY <1>4, CancelFrame
<1>5. ASSUME UserStep PROVE TasksOK'
  BY <1>5, UserFrame
<1>6. ASSUME Restart PROVE TasksOK'
  <2>1. /\ pc' = [r \in Runs |-> IF pc[r] \in Suspended THEN "dead" ELSE pc[r]]
        /\ UNCHANGED <<text, asked, stored, replies>>
    BY <1>6 DEF Restart
  <2>2. "dead" \in Places
    BY DEF Ended
  <2> QED
    BY <2>1, <2>2
<1>7. ASSUME UNCHANGED vars PROVE TasksOK'
  BY <1>7, StutterFrame
<1> QED
  BY <1>1, <1>2, <1>3, <1>4, <1>5, <1>6, <1>7 DEF Next

-----------------------------------------------------------------------------
(* The types of the requests. *)
LEMMA CreatorsInit == Init => CreatorsOK
BY ConstantsAssumption DEF Init, CreatorsOK, NoRun

LEMMA CreatorsStep ==
  ASSUME TypeOK, [Next]_vars
  PROVE  CreatorsOK'
<1> USE DEF TypeOK, CreatorsOK
<1>1. ASSUME NEW r \in Runs, TaskStep(r) PROVE CreatorsOK'
  BY <1>1, TaskFrame
<1>2. ASSUME NEW c \in Creators, CreateStep(c) PROVE CreatorsOK'
  <2>1. CASE CreateRead(c)
    BY <2>1 DEF CreateRead
  <2>2. CASE CreateReuse(c)
    BY <2>2 DEF CreateReuse
  <2>3. CASE CreateFoundStale(c)
    <3>1. crun[c] \in Runs
      BY <2>3, ConstantsAssumption DEF CreateFoundStale, Runs, NoRun
    <3> QED
      BY <2>3, <3>1 DEF CreateFoundStale
  <2>4. CASE CreateMarkStale(c)
    <3>1. NoRun \in 0..MaxRuns
      BY ConstantsAssumption DEF NoRun
    <3> QED
      BY <2>4, <3>1 DEF CreateMarkStale
  <2>5. CASE CreateAllocate(c)
    <3>1. made + 1 \in 0..MaxRuns /\ made + 1 \in Runs
      BY <2>5, ConstantsAssumption DEF CreateAllocate, Runs
    <3> QED
      BY <2>5, <3>1 DEF CreateAllocate
  <2>6. CASE CreateInsert(c)
    BY <2>6 DEF CreateInsert
  <2>7. CASE CreateRegister(c)
    BY <2>7 DEF CreateRegister
  <2> QED
    BY <1>2, <2>1, <2>2, <2>3, <2>4, <2>5, <2>6, <2>7 DEF CreateStep
<1>3. ASSUME NEW s \in Streams, StreamStep(s) PROVE CreatorsOK'
  BY <1>3, StreamFrame
<1>4. ASSUME NEW k \in Cancellers, CancelStep(k) PROVE CreatorsOK'
  BY <1>4, CancelFrame
<1>5. ASSUME UserStep PROVE CreatorsOK'
  BY <1>5, UserFrame
<1>6. ASSUME Restart PROVE CreatorsOK'
  BY <1>6 DEF Restart
<1>7. ASSUME UNCHANGED vars PROVE CreatorsOK'
  BY <1>7, StutterFrame
<1> QED
  BY <1>1, <1>2, <1>3, <1>4, <1>5, <1>6, <1>7 DEF Next

LEMMA StreamsInit == Init => StreamsOK
BY ConstantsAssumption
DEF Init, StreamsOK, NoRun, Row, AbsentRow, RowStatus, Cause

LEMMA StreamsStep ==
  ASSUME TypeOK, [Next]_vars
  PROVE  StreamsOK'
<1> USE DEF TypeOK, StreamsOK
<1>1. ASSUME NEW r \in Runs, TaskStep(r) PROVE StreamsOK'
  BY <1>1, TaskFrame
<1>2. ASSUME NEW c \in Creators, CreateStep(c) PROVE StreamsOK'
  BY <1>2, CreateFrame
<1>3. ASSUME NEW s \in Streams, StreamStep(s) PROVE StreamsOK'
  <2>1. CASE StreamState(s)
    <3>1. srun[s] \in Runs
      BY <2>1 DEF StreamState
    <3>2. text[srun[s]] \in Nat /\ sread[s].text \in Nat
      BY <3>1, ConstantsAssumption DEF TasksOK, Row
    <3> DEFINE here == srun[s] \in local
               txt == IF here THEN text[srun[s]] ELSE sread[s].text
    <3>3. /\ view' = [view EXCEPT ![s] = txt]
          /\ shere' = [shere EXCEPT ![s] = here]
          /\ spc' = [spc EXCEPT ![s] = "sent"]
          /\ UNCHANGED <<srun, sread, late>>
      BY <2>1 DEF StreamState
    <3>4. txt \in Nat /\ here \in BOOLEAN
      BY <3>2
    <3> HIDE DEF here, txt
    <3> QED
      BY <3>1, <3>3, <3>4
  <2>2. CASE StreamRepair(s)
    <3>1. srun[s] \in Runs
      BY <2>2 DEF StreamRepair
    <3>2. row'[srun[s]] \in Row
      BY <3>1, RowsStep DEF RowsOK
    <3> QED
      BY <2>2, <3>1, <3>2 DEF StreamRepair
  <2>3. CASE StreamRepaired(s)
    <3>1. sread[s].text \in Nat
      BY ConstantsAssumption DEF Row
    <3>2. PICK txt \in Nat :
            /\ view' = [view EXCEPT ![s] = txt] \/ view' = view
            /\ spc' = [spc EXCEPT ![s] = "error"]
            /\ UNCHANGED <<srun, sread, shere, late>>
      BY <2>3, <3>1 DEF StreamRepaired
    <3>3. srun[s] \in Runs
      BY <2>3 DEF StreamRepaired
    <3> QED
      BY <3>2, <3>3
  <2>4. CASE StreamRead(s)
    <3> DEFINE e == Head(queue[s])
    <3>1. e \in Event
      BY <2>4 DEF StreamRead, QueuesOK
    <3>2. Shown(view[s], e) \in Nat
      BY <3>1, ConstantsAssumption DEF Shown, Event
    <3>3. e.ev \in {"done", "error"} \/ ~IsFinal(e)
      BY DEF IsFinal
    <3>4. PICK to \in {"done", "error", "listen"} :
            /\ view' = [view EXCEPT ![s] = Shown(view[s], e)]
            /\ spc' = [spc EXCEPT ![s] = to]
            /\ UNCHANGED <<srun, sread, shere, late>>
      BY <2>4, <3>3 DEF StreamRead
    <3>5. srun[s] \in Runs
      BY <2>4 DEF StreamRead
    <3> QED
      BY <3>2, <3>4, <3>5
  <2>5. CASE StreamNotFound(s) \/ StreamAlreadyOver(s) \/ StreamSubscribe(s)
             \/ StreamFoundStale(s)
    <3>1. PICK to \in {"missing", "done", "error", "listen", "repair"} :
            spc' = [spc EXCEPT ![s] = to]
      BY <2>5 DEF StreamNotFound, StreamAlreadyOver, StreamSubscribe, StreamFoundStale
    <3>2. UNCHANGED <<srun, sread, shere, view>> /\ late' \subseteq late \union {s}
      BY <2>5 DEF StreamNotFound, StreamAlreadyOver, StreamSubscribe, StreamFoundStale
    <3>3. srun[s] \in Runs
      BY <2>5 DEF StreamNotFound, StreamAlreadyOver, StreamSubscribe, StreamFoundStale
    <3> QED
      BY <3>1, <3>2, <3>3
  <2> QED
    BY <1>3, <2>1, <2>2, <2>3, <2>4, <2>5 DEF StreamStep
<1>4. ASSUME NEW k \in Cancellers, CancelStep(k) PROVE StreamsOK'
  BY <1>4, CancelFrame
<1>5. ASSUME UserStep PROVE StreamsOK'
  <2>1. ASSUME NEW s \in Streams, NEW r \in Runs, StreamOpen(s, r) PROVE StreamsOK'
    <3>1. row[r] \in Row /\ r \in 0..MaxRuns
      BY ConstantsAssumption DEF RowsOK, Runs
    <3> QED
      BY <2>1, <3>1 DEF StreamOpen
  <2>2. ASSUME NEW s \in Streams, StreamLeave(s) PROVE StreamsOK'
    BY <2>2 DEF StreamLeave
  <2>3. CASE UNCHANGED <<spc, srun, sread, shere, late, view>>
    BY <2>3
  <2> QED
    BY <1>5, <2>1, <2>2, <2>3
    DEF UserStep, CancelRead, Answer, DeleteSession, DeleteMessage, EraseAnswer,
        handlerVars, streamVars
<1>6. ASSUME Restart PROVE StreamsOK'
  BY <1>6 DEF Restart
<1>7. ASSUME UNCHANGED vars PROVE StreamsOK'
  BY <1>7, StutterFrame
<1> QED
  BY <1>1, <1>2, <1>3, <1>4, <1>5, <1>6, <1>7 DEF Next

LEMMA CancellersInit == Init => CancellersOK
BY ConstantsAssumption DEF Init, CancellersOK, NoRun, NoRow

LEMMA CancellersStep ==
  ASSUME TypeOK, [Next]_vars
  PROVE  CancellersOK'
<1> USE DEF TypeOK, CancellersOK
<1>1. ASSUME NEW r \in Runs, TaskStep(r) PROVE CancellersOK'
  BY <1>1, TaskFrame
<1>2. ASSUME NEW c \in Creators, CreateStep(c) PROVE CancellersOK'
  BY <1>2, CreateFrame
<1>3. ASSUME NEW s \in Streams, StreamStep(s) PROVE CancellersOK'
  BY <1>3, StreamFrame
<1>4. ASSUME NEW k \in Cancellers, CancelStep(k) PROVE CancellersOK'
  <2>1. CASE CancelRequest(k)
    <3>1. krun[k] \in Runs
      BY <2>1 DEF CancelRequest
    <3>2. text[krun[k]] \in 0..NoRow /\ text[krun[k]] # NoRow
      BY <3>1, ConstantsAssumption DEF TasksOK, NoRow
    <3> QED
      BY <2>1, <3>1, <3>2 DEF CancelRequest
  <2>2. CASE CancelWrite(k)
    <3>1. krun[k] \in Runs
      BY <2>2 DEF CancelWrite
    <3>2. ktext[k] \in 0..MaxText
      BY <2>2, ConstantsAssumption DEF CancelWrite, NoRow
    <3>3. ReturnedText(krun[k], CancelText(krun[k], ktext[k])) \in 0..NoRow
      BY <3>1, <3>2, CancelTextType, PatchedType, ConstantsAssumption
      DEF ReturnedText, NoRow
    <3>4. /\ ktext' = [ktext EXCEPT ![k] = ReturnedText(krun[k], CancelText(krun[k], ktext[k]))]
          /\ kpc' = [kpc EXCEPT ![k] = "announce"]
          /\ UNCHANGED krun
      BY <2>2 DEF CancelWrite
    <3> QED
      BY <3>1, <3>3, <3>4
  <2>3. CASE CancelAnnounce(k)
    BY <2>3 DEF CancelAnnounce
  <2> QED
    BY <1>4, <2>1, <2>2, <2>3 DEF CancelStep
<1>5. ASSUME UserStep PROVE CancellersOK'
  <2>1. ASSUME NEW k \in Cancellers, NEW r \in Runs, CancelRead(k, r) PROVE CancellersOK'
    <3>1. r \in 0..MaxRuns
      BY ConstantsAssumption DEF Runs
    <3> QED
      BY <2>1, <3>1 DEF CancelRead
  <2>2. CASE UNCHANGED <<kpc, krun, ktext>>
    BY <2>2
  <2> QED
    BY <1>5, <2>1, <2>2
    DEF UserStep, StreamOpen, StreamLeave, Answer, DeleteSession, DeleteMessage,
        EraseAnswer, handlerVars, cancelVars
<1>6. ASSUME Restart PROVE CancellersOK'
  BY <1>6 DEF Restart
<1>7. ASSUME UNCHANGED vars PROVE CancellersOK'
  BY <1>7, StutterFrame
<1> QED
  BY <1>1, <1>2, <1>3, <1>4, <1>5, <1>6, <1>7 DEF Next

-----------------------------------------------------------------------------
(* The subscribers' queues. *)
LEMMA EventTypes ==
  /\ Delta \in Event \/ MaxText = 0
  /\ \A name \in {"done", "error", "asked", "resolved"} : Signal(name) \in Event
  /\ \A txt \in 0..MaxText : Snapshot(txt) \in Event
BY ConstantsAssumption DEF Delta, Signal, Snapshot, Event

LEMMA BroadcastType ==
  ASSUME QueuesOK, NEW r \in Runs, NEW e \in Event, Broadcast(r, e)
  PROVE  QueuesOK'
<1>1. \A s \in Streams : /\ Push(queue[s], e) \in Seq(Event)
                         /\ Len(Push(queue[s], e)) <= QueueSize
  BY PushType DEF QueuesOK
<1> QED
  BY <1>1 DEF Broadcast, QueuesOK

LEMMA BroadcastLastType ==
  ASSUME QueuesOK, NEW r \in Runs, NEW txt \in 0..NoRow, NEW e \in Event,
         BroadcastLast(r, txt, e)
  PROVE  QueuesOK'
<1> DEFINE With(q) == IF txt = NoRow THEN q ELSE Push(q, Snapshot(txt))
<1>1. ASSUME NEW s \in Streams
      PROVE  /\ Push(With(queue[s]), e) \in Seq(Event)
             /\ Len(Push(With(queue[s]), e)) <= QueueSize
  <2>1. txt = NoRow \/ Snapshot(txt) \in Event
    BY EventTypes, ConstantsAssumption DEF NoRow
  <2>2. With(queue[s]) \in Seq(Event) /\ Len(With(queue[s])) <= QueueSize
    BY <2>1, PushType DEF QueuesOK
  <2> QED
    BY <2>2, PushType
<1>2. queue' = [s \in Streams |-> IF r \in local /\ s \in Subscribers(r)
                                  THEN Push(With(queue[s]), e) ELSE queue[s]]
  BY DEF BroadcastLast
<1> QED
  BY <1>1, <1>2 DEF QueuesOK

LEMMA QueuesInit == Init => QueuesOK
BY ConstantsAssumption DEF Init, QueuesOK

LEMMA QueuesStep ==
  ASSUME TypeOK, [Next]_vars
  PROVE  QueuesOK'
<1> USE DEF TypeOK
<1>1. ASSUME NEW r \in Runs, TaskStep(r) PROVE QueuesOK'
  <2>1. CASE Emit(r)
    <3>1. MaxText # 0
      BY <2>1, ConstantsAssumption DEF Emit, TasksOK
    <3> QED
      BY <2>1, <3>1, EventTypes, BroadcastType DEF Emit
  <2>2. CASE Ask(r) \/ TakeAnswer(r) \/ AskTimeout(r) \/ InterruptAsk(r)
    <3>1. \E name \in {"asked", "resolved"} : Broadcast(r, Signal(name))
      BY <2>2 DEF Ask, TakeAnswer, AskTimeout, InterruptAsk, Resolve
    <3> QED
      BY <3>1, EventTypes, BroadcastType
  <2>3. CASE Announce(r) \/ ErrorAnnounce(r) \/ HaltAnnounce(r)
    <3>1. \E name \in {"done", "error"} : BroadcastLast(r, stored[r], Signal(name))
      BY <2>3 DEF Announce, ErrorAnnounce, HaltAnnounce
    <3>2. stored[r] \in 0..NoRow
      BY DEF TasksOK
    <3> QED
      BY <3>1, <3>2, EventTypes, BroadcastLastType
  <2>4. CASE Begin(r) \/ InterruptUnstarted(r) \/ Prepared(r) \/ StreamEnd(r) \/ SaveDone(r)
               \/ Fail(r) \/ Unwound(r)
             \/ DoneWrite(r) \/ ErrorWrite(r) \/ HaltWrite(r) \/ InterruptRunning(r)
             \/ InterruptHandler(r)
    BY <2>4
       DEF QueuesOK, Begin, InterruptUnstarted, Prepared, StreamEnd, SaveDone, Fail, Unwound,
           DoneWrite,
      ErrorWrite, HaltWrite, InterruptRunning, InterruptHandler
  <2> QED
    BY <1>1, <2>1, <2>2, <2>3, <2>4 DEF TaskStep
<1>2. ASSUME NEW c \in Creators, CreateStep(c) PROVE QueuesOK'
  BY <1>2, CreateFrame DEF QueuesOK
<1>3. ASSUME NEW s \in Streams, StreamStep(s) PROVE QueuesOK'
  <2>1. CASE StreamRead(s)
    <3>1. /\ queue[s] # <<>>
          /\ queue' = [queue EXCEPT ![s] = Tail(queue[s])]
      BY <2>1 DEF StreamRead
    <3>2. Tail(queue[s]) \in Seq(Event) /\ Len(Tail(queue[s])) <= QueueSize
      BY <3>1, ConstantsAssumption DEF QueuesOK
    <3> QED
      BY <3>1, <3>2 DEF QueuesOK
  <2>2. CASE ~StreamRead(s)
    BY <1>3, <2>2, StreamFrame DEF QueuesOK
  <2> QED
    BY <2>1, <2>2
<1>4. ASSUME NEW k \in Cancellers, CancelStep(k) PROVE QueuesOK'
  <2>1. CASE CancelAnnounce(k)
    <3>1. krun[k] \in Runs /\ ktext[k] \in 0..NoRow
      BY <2>1 DEF CancelAnnounce, CancellersOK
    <3>2. UNCHANGED queue \/ BroadcastLast(krun[k], ktext[k], Signal("error"))
      BY <2>1 DEF CancelAnnounce
    <3> QED
      BY <3>1, <3>2, EventTypes, BroadcastLastType DEF QueuesOK
  <2>2. CASE ~CancelAnnounce(k)
    BY <1>4, <2>2, CancelFrame DEF QueuesOK
  <2> QED
    BY <2>1, <2>2
<1>5. ASSUME UserStep PROVE QueuesOK'
  <2>1. ASSUME NEW s \in Streams, StreamLeave(s) PROVE QueuesOK'
    BY <2>1, ConstantsAssumption DEF StreamLeave, QueuesOK
  <2>2. CASE UNCHANGED queue
    BY <2>2 DEF QueuesOK
  <2> QED
    BY <1>5, <2>1, <2>2
    DEF UserStep, StreamOpen, CancelRead, Answer, DeleteSession, DeleteMessage,
        EraseAnswer
<1>6. ASSUME Restart PROVE QueuesOK'
  BY <1>6, ConstantsAssumption DEF Restart, QueuesOK
<1>7. ASSUME UNCHANGED vars PROVE QueuesOK'
  BY <1>7, StutterFrame DEF QueuesOK
<1> QED
  BY <1>1, <1>2, <1>3, <1>4, <1>5, <1>6, <1>7 DEF Next

-----------------------------------------------------------------------------
(* Every reachable state is well typed, and no subscriber's queue ever      *)
(* holds more than its capacity (_enqueue drops the oldest item instead).   *)
THEOREM TypesAlwaysHold == Spec => []TypeOK
<1>1. Init => TypeOK
  BY RowsInit, RegistryInit, TasksInit, CreatorsInit, StreamsInit, CancellersInit,
     QueuesInit DEF TypeOK
<1>2. TypeOK /\ [Next]_vars => TypeOK'
  BY RowsStep, RegistryStep, TasksStep, CreatorsStep, StreamsStep, CancellersStep,
     QueuesStep DEF TypeOK
<1> QED
  BY <1>1, <1>2, PTL DEF Spec

-----------------------------------------------------------------------------
(* The inductive invariant behind the registry and the questions. A run id  *)
(* that a create request still holds belongs to that request alone and has  *)
(* no task yet: without that, registering it could overwrite the ActiveRun  *)
(* of a task that waits for an answer.                                      *)
Minting(c) == cpc[c] \in {"insert", "register"}

FreshRuns ==
  /\ \A c \in Creators : Minting(c) => crun[c] <= made /\ pc[crun[c]] = "none"
  /\ \A c, d \in Creators : Minting(c) /\ Minting(d) /\ c # d => crun[c] # crun[d]
  /\ \A r \in Runs : r > made => pc[r] = "none"

AnswersFit == \A r \in Runs : answer[r] \in {NoQuestion, question[r]}

CancelsMarked == \A r \in cancelled : status[r] = "cancelled"

TaskInv ==
  /\ TypeOK
  /\ FreshRuns
  /\ RegistryTracksTasks
  /\ CancelsMarked
  /\ NoZombieQuestion
  /\ AnswersFit
  /\ AnswerMatchesQuestion

LEMMA FreshStep ==
  ASSUME TaskInv, [Next]_vars
  PROVE  FreshRuns'
<1> USE DEF TaskInv, FreshRuns, Minting
<1>1. ASSUME NEW r \in Runs, TaskStep(r) PROVE FreshRuns'
  <2>1. UNCHANGED <<made, cpc, crun>>
    BY <1>1, TaskFrame
  <2>2. pc[r] # "none"
    BY <1>1
       DEF TaskStep, Begin, InterruptUnstarted, Prepared, Emit, Ask, TakeAnswer, AskTimeout,
           StreamEnd,
      SaveDone, Fail, Unwound, DoneWrite, Announce, ErrorWrite, ErrorAnnounce,
      HaltWrite, HaltAnnounce, InterruptRunning, InterruptAsk, InterruptHandler, Goto
  <2>3. \A q \in Runs : q # r => pc'[q] = pc[q]
    BY <1>1
       DEF TypeOK, TasksOK, TaskStep, Begin, InterruptUnstarted, Prepared, Emit, Ask, TakeAnswer,
      AskTimeout, StreamEnd, SaveDone, Fail, Unwound, DoneWrite, Announce, ErrorWrite,
      ErrorAnnounce, HaltWrite, HaltAnnounce, InterruptRunning, InterruptAsk,
      InterruptHandler, Goto
  <2> QED
    BY <2>1, <2>2, <2>3 DEF TypeOK, CreatorsOK
<1>2. ASSUME NEW c \in Creators, CreateStep(c) PROVE FreshRuns'
  <2>1. CASE CreateAllocate(c)
    <3>1. made + 1 \in Runs /\ \A d \in Creators : Minting(d) => crun[d] \in Runs
      BY <2>1, ConstantsAssumption DEF CreateAllocate, TypeOK, CreatorsOK, Runs
    <3>2. pc[made + 1] = "none"
      BY <3>1 DEF TypeOK, CreatorsOK, Runs
    <3>3. UNCHANGED pc
      BY <2>1 DEF CreateAllocate, taskAndRegistry, taskVars
    <3>4. /\ made' = made + 1
          /\ crun' = [crun EXCEPT ![c] = made + 1]
          /\ cpc' = [cpc EXCEPT ![c] = "insert"]
      BY <2>1 DEF CreateAllocate
    <3>5. \A r \in Runs : r > made + 1 => r > made
      BY DEF TypeOK, CreatorsOK, Runs
    <3>6. \A d \in Creators : Minting(d) => crun[d] <= made + 1 /\ crun[d] # made + 1
      BY <3>1 DEF TypeOK, CreatorsOK, Runs
    <3> QED
      BY <3>1, <3>2, <3>3, <3>4, <3>5, <3>6 DEF TypeOK, CreatorsOK
  <2>2. CASE CreateRegister(c)
    <3>1. /\ pc' = [pc EXCEPT ![crun[c]] = "start"]
          /\ cpc' = [cpc EXCEPT ![c] = "replied"]
          /\ cpc[c] = "register"
          /\ UNCHANGED <<made, crun>>
      BY <2>2 DEF CreateRegister
    <3>2. crun[c] \in Runs /\ crun[c] <= made
      BY <3>1 DEF TypeOK, CreatorsOK
    <3>3. \A d \in Creators : Minting(d) /\ d # c => crun[d] # crun[c]
      BY <3>1
    <3>4. ~(crun[c] > made)
      BY <3>2 DEF TypeOK, CreatorsOK, Runs
    <3> QED
      BY <3>1, <3>2, <3>3, <3>4 DEF TypeOK, CreatorsOK, TasksOK
  <2>3. CASE CreateInsert(c)
    <3>1. /\ cpc[c] = "insert"
          /\ cpc' = [cpc EXCEPT ![c] = "register"]
          /\ UNCHANGED <<made, crun, pc>>
      BY <2>3 DEF CreateInsert, taskAndRegistry, taskVars
    <3> QED
      BY <3>1 DEF TypeOK, CreatorsOK
  <2>4. CASE CreateRead(c) \/ CreateReuse(c) \/ CreateFoundStale(c) \/ CreateMarkStale(c)
    <3>1. /\ cpc' \in {[cpc EXCEPT ![c] = to] : to \in {"decide", "replied", "mark"}}
          /\ \A d \in Creators : d # c => crun'[d] = crun[d]
          /\ UNCHANGED <<made, pc>>
      BY <2>4 DEF CreateRead, CreateReuse, CreateFoundStale, CreateMarkStale,
        taskAndRegistry, taskVars, TypeOK, CreatorsOK
    <3> QED
      BY <3>1 DEF TypeOK, CreatorsOK
  <2> QED
    BY <1>2, <2>1, <2>2, <2>3, <2>4 DEF CreateStep
<1>3. ASSUME NEW s \in Streams, StreamStep(s) PROVE FreshRuns'
  BY <1>3, StreamFrame
<1>4. ASSUME NEW k \in Cancellers, CancelStep(k) PROVE FreshRuns'
  BY <1>4, CancelFrame
<1>5. ASSUME UserStep PROVE FreshRuns'
  BY <1>5, UserFrame
<1>6. ASSUME Restart PROVE FreshRuns'
  <2>1. /\ pc' = [r \in Runs |-> IF pc[r] \in Suspended THEN "dead" ELSE pc[r]]
        /\ \A c \in Creators : cpc'[c] \notin {"insert", "register"}
        /\ UNCHANGED <<made, crun>>
    BY <1>6 DEF Restart, TypeOK, CreatorsOK
  <2> QED
    BY <2>1 DEF Suspended
<1>7. ASSUME UNCHANGED vars PROVE FreshRuns'
  BY <1>7, StutterFrame
<1> QED
  BY <1>1, <1>2, <1>3, <1>4, <1>5, <1>6, <1>7 DEF TaskInv, Next

(* A task that moves from one suspension point to another, asking nothing. *)
LEMMA MoveStep ==
  ASSUME TaskInv, NEW r \in Runs, NEW from \in Suspended \ {"ask"},
         NEW to \in Suspended \ {"ask"}, Goto(r, from, to),
         UNCHANGED <<local, status, question, answer, replies>>,
         cancelled' \in {cancelled, cancelled \ {r}}
  PROVE  /\ RegistryTracksTasks' /\ CancelsMarked' /\ NoZombieQuestion'
         /\ AnswersFit' /\ AnswerMatchesQuestion'
<1>1. pc[r] = from /\ from # "ask" /\ to # "ask"
  BY DEF Goto
<1>2. pc' = [pc EXCEPT ![r] = to] /\ pc \in [Runs -> {"none"} \union Suspended \union Ended]
  BY DEF Goto, TaskInv, TypeOK, TasksOK
<1>3. RegistryTracksTasks'
  <2>1. to # "unstarted" /\ from # "unstarted"
    BY DEF Suspended
  <2> QED
    BY <1>1, <1>2, <2>1 DEF TaskInv, RegistryTracksTasks
<1>4. NoZombieQuestion' /\ CancelsMarked'
  BY <1>1, <1>2 DEF TaskInv, NoZombieQuestion, CancelsMarked
<1> QED
  BY <1>3, <1>4 DEF TaskInv, AnswersFit, AnswerMatchesQuestion

(* A task cancelled before its first step: its run stays, marked. *)
LEMMA UnstartedStep ==
  ASSUME TaskInv, NEW r \in Runs, InterruptUnstarted(r)
  PROVE  /\ RegistryTracksTasks' /\ CancelsMarked' /\ NoZombieQuestion'
         /\ AnswersFit' /\ AnswerMatchesQuestion'
<1>1. /\ r \in cancelled /\ pc[r] = "start"
      /\ pc' = [pc EXCEPT ![r] = "unstarted"]
      /\ cancelled' = cancelled \ {r}
      /\ UNCHANGED <<local, status, question, answer, replies>>
  BY DEF InterruptUnstarted, Goto, registryVars
<1>2. pc \in [Runs -> {"none"} \union Suspended \union Ended]
  BY DEF TaskInv, TypeOK, TasksOK
<1>3. "start" \in Suspended /\ "unstarted" \notin Suspended
  BY DEF Suspended
<1>4. status[r] = "cancelled" /\ r \in local
  BY <1>1, <1>3 DEF TaskInv, CancelsMarked, RegistryTracksTasks
<1>5. RegistryTracksTasks'
  BY <1>1, <1>2, <1>3, <1>4 DEF TaskInv, RegistryTracksTasks
<1>6. NoZombieQuestion' /\ CancelsMarked'
  BY <1>1, <1>2 DEF TaskInv, NoZombieQuestion, CancelsMarked
<1> QED
  BY <1>1, <1>5, <1>6 DEF TaskInv, AnswersFit, AnswerMatchesQuestion

(* A task that ends. *)
LEMMA EndStep ==
  ASSUME TaskInv, NEW r \in Runs, NEW from \in Suspended \ {"ask"}, NEW to \in Ended,
         Goto(r, from, to), Pop(r), UNCHANGED replies,
         r \notin cancelled', cancelled' \in {cancelled, cancelled \ {r}}
  PROVE  /\ RegistryTracksTasks' /\ CancelsMarked' /\ NoZombieQuestion'
         /\ AnswersFit' /\ AnswerMatchesQuestion'
<1>1. to \notin Suspended
  BY DEF Suspended, Ended
<1>7. from # "unstarted"
  BY DEF Suspended
<1>2. to # "ask" /\ from # "ask" /\ pc[r] = from
  BY DEF Ended, Goto
<1>3. pc' = [pc EXCEPT ![r] = to] /\ pc \in [Runs -> {"none"} \union Suspended \union Ended]
  BY DEF Goto, TaskInv, TypeOK, TasksOK
<1>4. /\ local' = local \ {r}
      /\ status' = [status EXCEPT ![r] = "none"]
      /\ UNCHANGED <<question, answer>>
  BY DEF Pop
<1>5. RegistryTracksTasks'
  BY <1>1, <1>2, <1>3, <1>4, <1>7 DEF TaskInv, TypeOK, RegistryOK, RegistryTracksTasks
<1>6. NoZombieQuestion' /\ CancelsMarked'
  BY <1>2, <1>3, <1>4 DEF TaskInv, TypeOK, RegistryOK, NoZombieQuestion, CancelsMarked
<1> QED
  BY <1>4, <1>5, <1>6 DEF TaskInv, AnswersFit, AnswerMatchesQuestion

(* A task whose question ends, with the answer, the timeout or a cancel. *)
LEMMA ResolveStep ==
  ASSUME TaskInv, NEW r \in Runs, NEW to \in Suspended \ {"ask"}, Goto(r, "ask", to),
         Resolve(r), r \notin cancelled', cancelled' \in {cancelled, cancelled \ {r}},
         \/ UNCHANGED replies
         \/ replies' = replies \union {<<r, question[r], answer[r]>>}
         \/ replies' = replies \union {<<r, question[r], NoQuestion>>}
  PROVE  /\ RegistryTracksTasks' /\ CancelsMarked' /\ NoZombieQuestion'
         /\ AnswersFit' /\ AnswerMatchesQuestion'
<1>1. /\ UNCHANGED local
      /\ question' = [question EXCEPT ![r] = NoQuestion]
      /\ answer' = [answer EXCEPT ![r] = NoQuestion]
      /\ status' = [status EXCEPT ![r] = "running"]
  BY DEF Resolve
<1>2. "ask" \in Suspended
  BY DEF Suspended
<1>3. answer[r] \in {NoQuestion, question[r]}
  BY DEF TaskInv, AnswersFit
<1>4. AnswerMatchesQuestion'
  BY <1>3 DEF TaskInv, AnswerMatchesQuestion
<1>5. pc' = [pc EXCEPT ![r] = to] /\ pc \in [Runs -> {"none"} \union Suspended \union Ended]
  BY DEF Goto, TaskInv, TypeOK, TasksOK
<1>6. RegistryTracksTasks'
  <2>1. to # "unstarted" /\ pc[r] = "ask"
    BY DEF Suspended, Goto
  <2> QED
    BY <1>1, <1>2, <1>5, <2>1 DEF TaskInv, TypeOK, RegistryOK, RegistryTracksTasks
<1>7. NoZombieQuestion' /\ CancelsMarked'
  BY <1>1, <1>5 DEF TaskInv, TypeOK, RegistryOK, NoZombieQuestion, CancelsMarked
<1>8. AnswersFit'
  BY <1>1 DEF TaskInv, TypeOK, RegistryOK, AnswersFit
<1> QED
  BY <1>4, <1>6, <1>7, <1>8

LEMMA TaskInvStep ==
  ASSUME TaskInv, [Next]_vars
  PROVE  /\ RegistryTracksTasks' /\ CancelsMarked' /\ NoZombieQuestion'
         /\ AnswersFit' /\ AnswerMatchesQuestion'
<1> DEFINE Goal == /\ RegistryTracksTasks' /\ CancelsMarked' /\ NoZombieQuestion'
                   /\ AnswersFit' /\ AnswerMatchesQuestion'
<1>1. ASSUME NEW r \in Runs, TaskStep(r) PROVE Goal
  <2>1. CASE Emit(r)
    BY <2>1 DEF Emit, registryVars, TaskInv, RegistryTracksTasks, CancelsMarked, NoZombieQuestion,
      AnswersFit, AnswerMatchesQuestion
  <2>2. CASE Ask(r)
    <3>1. /\ Goto(r, "stream", "ask")
          /\ question' = [question EXCEPT ![r] = asked[r] + 1]
          /\ status' = [status EXCEPT ![r] = "awaiting_input"]
          /\ UNCHANGED <<local, answer, replies, cancelled>>
          /\ r \notin cancelled
      BY <2>2 DEF Ask
    <3>2. asked[r] + 1 # NoQuestion
      BY ConstantsAssumption DEF TaskInv, TypeOK, TasksOK, NoQuestion
    <3>3. "ask" \in Suspended /\ "stream" \in Suspended
      BY DEF Suspended
    <3>4. answer[r] = NoQuestion
      BY <3>1 DEF TaskInv, NoZombieQuestion, AnswersFit, Goto
    <3> QED
      BY <3>1, <3>2, <3>3, <3>4
      DEF TaskInv, TypeOK, TasksOK, RegistryOK, Goto, RegistryTracksTasks,
          CancelsMarked, NoZombieQuestion, AnswersFit, AnswerMatchesQuestion
  <2>3. CASE TakeAnswer(r) \/ AskTimeout(r) \/ InterruptAsk(r)
    <3>1. PICK to \in {"stream", "unwindCancel"} : Goto(r, "ask", to)
      BY <2>3 DEF TakeAnswer, AskTimeout, InterruptAsk
    <3>2. to \in Suspended \ {"ask"}
      BY DEF Suspended
    <3>3. Resolve(r) /\ r \notin cancelled' /\ cancelled' \in {cancelled, cancelled \ {r}}
      BY <2>3 DEF TakeAnswer, AskTimeout, InterruptAsk
    <3>4. \/ UNCHANGED replies
          \/ replies' = replies \union {<<r, question[r], answer[r]>>}
          \/ replies' = replies \union {<<r, question[r], NoQuestion>>}
      BY <2>3 DEF TakeAnswer, AskTimeout, InterruptAsk
    <3> QED
      BY <3>1, <3>2, <3>3, <3>4, ResolveStep
  <2>4. CASE Announce(r) \/ ErrorAnnounce(r) \/ HaltAnnounce(r) \/ InterruptHandler(r)
    <3>1. PICK from \in {"meta", "fail", "failed", "halt", "halted"},
               to \in {"finished", "errored", "stopped", "cut"} : Goto(r, from, to)
      BY <2>4 DEF Announce, ErrorAnnounce, HaltAnnounce, InterruptHandler
    <3>2. from \in Suspended \ {"ask"} /\ to \in Ended
      BY DEF Suspended, Ended
    <3>3. Pop(r) /\ UNCHANGED replies
      BY <2>4 DEF Announce, ErrorAnnounce, HaltAnnounce, InterruptHandler
    <3>4. r \notin cancelled' /\ cancelled' \in {cancelled, cancelled \ {r}}
      BY <2>4 DEF Announce, ErrorAnnounce, HaltAnnounce, InterruptHandler
    <3> QED
      BY <3>1, <3>2, <3>3, <3>4, EndStep
  <2>5. CASE Begin(r) \/ Prepared(r) \/ StreamEnd(r) \/ SaveDone(r) \/ Fail(r) \/ Unwound(r)
             \/ DoneWrite(r) \/ ErrorWrite(r) \/ HaltWrite(r) \/ InterruptRunning(r)
    <3>1. \E from, to \in Suspended \ {"ask"} : Goto(r, from, to)
      BY <2>5 DEF Begin, Prepared, StreamEnd, SaveDone, Fail, Unwound, DoneWrite, ErrorWrite,
        HaltWrite, InterruptRunning, Suspended
    <3>2. /\ UNCHANGED <<local, status, question, answer, replies>>
          /\ cancelled' \in {cancelled, cancelled \ {r}}
      BY <2>5 DEF Begin, Prepared, StreamEnd, SaveDone, Fail, Unwound, DoneWrite, ErrorWrite,
        HaltWrite, InterruptRunning, registryVars
    <3> QED
      BY <3>1, <3>2, MoveStep
  <2>6. CASE InterruptUnstarted(r)
    BY <2>6, UnstartedStep
  <2> QED
    BY <1>1, <2>1, <2>2, <2>3, <2>4, <2>5, <2>6 DEF TaskStep
<1>2. ASSUME NEW c \in Creators, CreateStep(c) PROVE Goal
  <2>1. CASE CreateRegister(c)
    <3>1. /\ local' = local \union {crun[c]}
          /\ status' = [status EXCEPT ![crun[c]] = "running"]
          /\ pc' = [pc EXCEPT ![crun[c]] = "start"]
          /\ UNCHANGED <<question, answer, replies, cancelled>>
      BY <2>1 DEF CreateRegister
    <3>2. crun[c] \in Runs /\ pc[crun[c]] = "none"
      BY <2>1 DEF CreateRegister, TaskInv, FreshRuns, Minting, TypeOK, CreatorsOK
    <3>3. "start" \in Suspended /\ crun[c] \notin cancelled
      BY <3>2 DEF Suspended, TaskInv, RegistryTracksTasks
    <3> QED
      BY <3>1, <3>2, <3>3
      DEF TaskInv, TypeOK, TasksOK, RegistryOK, RegistryTracksTasks, CancelsMarked,
          NoZombieQuestion,
          AnswersFit, AnswerMatchesQuestion
  <2>2. CASE ~CreateRegister(c)
    BY <1>2, <2>2, CreateFrame
    DEF TaskInv, RegistryTracksTasks, CancelsMarked, NoZombieQuestion, AnswersFit,
        AnswerMatchesQuestion
  <2> QED
    BY <2>1, <2>2
<1>3. ASSUME NEW s \in Streams, StreamStep(s) PROVE Goal
  BY <1>3, StreamFrame
  DEF TaskInv, RegistryTracksTasks, CancelsMarked, NoZombieQuestion, AnswersFit,
      AnswerMatchesQuestion
<1>4. ASSUME NEW k \in Cancellers, CancelStep(k) PROVE Goal
  <2>1. UNCHANGED <<local, question, answer, pc, replies>>
    BY <1>4, CancelFrame
  <2>2. CASE CancelRequest(k) /\ krun[k] \in local
    <3>1. /\ cancelled' = IF pc[krun[k]] \in Suspended THEN cancelled \union {krun[k]}
                           ELSE cancelled
          /\ status' = [status EXCEPT ![krun[k]] = "cancelled"]
      BY <2>2 DEF CancelRequest
    <3>2. pc[krun[k]] \in Suspended \/ pc[krun[k]] = "unstarted"
      BY <2>2 DEF TaskInv, TypeOK, RegistryOK, RegistryTracksTasks
    <3>3. "unstarted" \notin Suspended /\ pc[krun[k]] = "ask" => pc[krun[k]] \in Suspended
      BY DEF Suspended
    <3> QED
      BY <2>1, <2>2, <3>1, <3>2, <3>3
      DEF TaskInv, TypeOK, RegistryOK, RegistryTracksTasks, CancelsMarked, NoZombieQuestion,
          AnswersFit,
          AnswerMatchesQuestion
  <2>3. CASE ~(CancelRequest(k) /\ krun[k] \in local)
    <3>1. UNCHANGED <<status, cancelled>>
      BY <1>4, <2>3, CancelFrame DEF CancelRequest
    <3> QED
      BY <2>1, <3>1
      DEF TaskInv, RegistryTracksTasks, CancelsMarked, NoZombieQuestion, AnswersFit,
          AnswerMatchesQuestion
  <2> QED
    BY <2>2, <2>3
<1>5. ASSUME UserStep PROVE Goal
  <2>1. UNCHANGED <<local, status, question, pc, replies, cancelled>>
    BY <1>5, UserFrame
  <2>2. ASSUME NEW r \in Runs, NEW q \in 1..MaxAsks, Answer(r, q) PROVE AnswersFit'
    <3>1. answer' = [answer EXCEPT ![r] = q] /\ question[r] = q
      BY <2>2 DEF Answer
    <3> QED
      BY <2>1, <3>1 DEF TaskInv, TypeOK, RegistryOK, AnswersFit
  <2>3. ASSUME UNCHANGED answer PROVE AnswersFit'
    BY <2>1, <2>3 DEF TaskInv, AnswersFit
  <2> QED
    BY <1>5, <2>1, <2>2, <2>3, UserFrame
    DEF TaskInv, AnswersFit, RegistryTracksTasks, CancelsMarked, NoZombieQuestion,
        AnswerMatchesQuestion
<1>6. ASSUME Restart PROVE Goal
  <2>1. /\ local' = {} /\ cancelled' = {}
        /\ status' = [r \in Runs |-> "none"]
        /\ question' = [r \in Runs |-> NoQuestion]
        /\ answer' = [r \in Runs |-> NoQuestion]
        /\ pc' = [r \in Runs |-> IF pc[r] \in Suspended THEN "dead" ELSE pc[r]]
        /\ UNCHANGED replies
    BY <1>6 DEF Restart
  <2>2. "dead" \notin Suspended /\ "ask" \in Suspended
    BY DEF Suspended
  <2>3. \A r \in Runs : pc'[r] \notin Suspended /\ pc'[r] # "ask"
    BY <2>1, <2>2
  <2>4. RegistryTracksTasks'
    BY <2>1, <2>3 DEF RegistryTracksTasks
  <2>5. NoZombieQuestion'
    <3>1. \A r \in Runs : question'[r] = NoQuestion /\ status'[r] = "none"
      BY <2>1
    <3> QED
      BY <2>3, <3>1 DEF NoZombieQuestion
  <2>6. AnswersFit' /\ AnswerMatchesQuestion' /\ CancelsMarked'
    BY <2>1 DEF TaskInv, AnswersFit, AnswerMatchesQuestion, CancelsMarked
  <2> QED
    BY <2>4, <2>5, <2>6
<1>7. ASSUME UNCHANGED vars PROVE Goal
  BY <1>7, StutterFrame
  DEF TaskInv, RegistryTracksTasks, CancelsMarked, NoZombieQuestion, AnswersFit,
      AnswerMatchesQuestion
<1> QED
  BY <1>1, <1>2, <1>3, <1>4, <1>5, <1>6, <1>7 DEF Next

LEMMA TaskInvInit == Init => TaskInv
<1>1. ASSUME Init PROVE TypeOK
  BY <1>1, RowsInit, RegistryInit, TasksInit, CreatorsInit, StreamsInit,
     CancellersInit, QueuesInit DEF TypeOK
<1>2. ASSUME Init PROVE FreshRuns
  BY <1>2 DEF Init, FreshRuns, Minting
<1>3. ASSUME Init
      PROVE  RegistryTracksTasks /\ CancelsMarked /\ NoZombieQuestion /\ AnswersFit
             /\ AnswerMatchesQuestion
  BY <1>3 DEF Init, RegistryTracksTasks, CancelsMarked, NoZombieQuestion, AnswersFit,
    AnswerMatchesQuestion, Suspended
<1> QED
  BY <1>1, <1>2, <1>3 DEF TaskInv

LEMMA TaskInvNext == TaskInv /\ [Next]_vars => TaskInv'
<1> SUFFICES ASSUME TaskInv, [Next]_vars PROVE TaskInv'
  OBVIOUS
<1>1. TypeOK'
  BY RowsStep, RegistryStep, TasksStep, CreatorsStep, StreamsStep, CancellersStep,
     QueuesStep DEF TaskInv, TypeOK
<1> QED
  BY <1>1, FreshStep, TaskInvStep DEF TaskInv

(***************************************************************************)
(* The types, the fresh run ids and the five facts about tasks, registry,  *)
(* cancel requests, questions and answers hold in every reachable state.  Each     *)
(* relies on the others: a task that ends clears the question it finds in  *)
(* its ActiveRun (run_registry.py, pop), which is its own only because     *)
(* the registry follows the tasks; and the registry follows them only      *)
(* because a run id handed out was never used before (create_chat_run).    *)
(***************************************************************************)
THEOREM TaskInvHolds == Spec => []TaskInv
BY TaskInvInit, TaskInvNext, PTL DEF Spec

(* The registry holds exactly the runs whose task lives, beside those whose *)
(* task was cancelled before its first step, which stay marked as cancelled *)
(* until the process ends; and no cancel request waits for a dead task,     *)
(* however requests, tasks and restarts interleave (RunRegistry.register    *)
(* and pop, the try of _run_chat_in_background).                            *)
THEOREM RegistryIsExact == Spec => []RegistryTracksTasks
BY TaskInvHolds, PTL DEF TaskInv

(* A question is open exactly while the tool that asked it waits            *)
(* (_hitl_callback and its finally clause).                                 *)
THEOREM QuestionsAreLive == Spec => []NoZombieQuestion
BY TaskInvHolds, PTL DEF TaskInv

(* A tool is handed the answer to its own question or a timeout             *)
(* (answer_hitl_question and _hitl_callback).                               *)
THEOREM AnswersBelong == Spec => []AnswerMatchesQuestion
BY TaskInvHolds, PTL DEF TaskInv

-----------------------------------------------------------------------------
(* The rows of chat_runs: the ledger the table implements, and the text that *)
(* survives every writer.                                                    *)

(* The run's task is past the last delta: its text is final. *)
Over(r) == pc[r] \notin {"none", "start", "prepare", "stream", "ask"}

(* A row exists from the insert of its create request on, before its task   *)
(* starts, and not before: the id was never used (create_chat_run_row).     *)
RowsFresh ==
  /\ \A r \in Runs : r > made => row[r].st = "absent"
  /\ \A c \in Creators : cpc[c] = "insert" => row[crun[c]].st = "absent"
  /\ \A c \in Creators : cpc[c] = "register" => row[crun[c]].st # "absent"
  /\ \A r \in Runs : pc[r] # "none" => row[r].st # "absent"

(* No row is ahead of the text its task has accumulated. *)
RowsBelow == \A r \in Runs : row[r].text <= text[r]

(* Where a task is once it has stored the text it ends with. *)
EndStored == {"meta", "finished", "halted", "stopped"}

(* A row whose task has stored its end holds all of it. *)
RowsKept ==
  \A r \in Runs :
    /\ row[r].st = "done" => Over(r)
    /\ row[r].st = "done" \/ pc[r] \in EndStored
         => ~Exists(r) \/ r \in erased \/ row[r].text = text[r]

(* The text a cancel request has put in its patch is the final one: its run *)
(* emits nothing from the moment cancel() was called on the task.           *)
CancelsFit ==
  \A k \in Cancellers :
    /\ kpc[k] \in {"idle", "request"} => ktext[k] = 0
    /\ kpc[k] = "write" /\ ktext[k] > 0 =>
         /\ ktext[k] = text[krun[k]]
         /\ krun[k] \in cancelled \/ Over(krun[k])

RowsInv ==
  /\ TaskInv
  /\ RowsFresh
  /\ RowsBelow
  /\ RowsKept
  /\ CancelsFit

-----------------------------------------------------------------------------
(* What a task's step does to its own text and to those of others. *)
LEMMA TaskMoves ==
  ASSUME TaskInv, NEW r \in Runs, TaskStep(r)
  PROVE  /\ \A q \in Runs : q # r => /\ pc'[q] = pc[q] /\ text'[q] = text[q]
                                     /\ q \in cancelled => q \in cancelled'
         /\ pc[r] # "none" /\ pc'[r] # "none"
         /\ Over(r) => Over(r)' /\ text'[r] = text[r]
         /\ r \in cancelled => text'[r] = text[r] /\ (r \in cancelled' \/ Over(r)')
         /\ text'[r] >= text[r]
<1>1. pc \in [Runs -> {"none"} \union Suspended \union Ended] /\ text \in [Runs -> Nat]
  BY ConstantsAssumption DEF TaskInv, TypeOK, TasksOK
<1>2. CASE Emit(r)
  BY <1>1, <1>2 DEF Emit, Over
<1>3. CASE ~Emit(r)
  <2>1. UNCHANGED text
    BY <1>3
       DEF TaskStep, Begin, InterruptUnstarted, Prepared, Ask, TakeAnswer, AskTimeout, StreamEnd,
           SaveDone,
      Fail, Unwound, DoneWrite, Announce, ErrorWrite, ErrorAnnounce, HaltWrite,
      HaltAnnounce, InterruptRunning, InterruptAsk, InterruptHandler
  <2>2. CASE r \notin cancelled
    <3>1. PICK from, to \in Suspended \union Ended : Goto(r, from, to)
            /\ (Over(r) => to \notin {"start", "prepare", "stream", "ask"})
      BY <1>3, <2>2
         DEF TaskStep, Begin, InterruptUnstarted, Prepared, Ask, TakeAnswer, AskTimeout, StreamEnd,
             SaveDone,
        Fail, Unwound, DoneWrite, Announce, ErrorWrite, ErrorAnnounce, HaltWrite,
        HaltAnnounce, InterruptRunning, InterruptAsk, InterruptHandler, Suspended, Ended,
        Goto, Over
    <3>2. \A q \in cancelled : q # r => q \in cancelled'
      BY <1>3, <2>2
         DEF TaskStep, Begin, InterruptUnstarted, Prepared, Ask, TakeAnswer, AskTimeout, StreamEnd,
             SaveDone,
        Fail, Unwound, DoneWrite, Announce, ErrorWrite, ErrorAnnounce, HaltWrite,
        HaltAnnounce, InterruptRunning, InterruptAsk, InterruptHandler
    <3> QED
      BY <1>1, <2>1, <2>2, <3>1, <3>2 DEF Goto, Over, Suspended, Ended
  <2>3. CASE r \in cancelled
    <3>1. PICK from, to \in Suspended \union Ended : Goto(r, from, to)
            /\ to \notin {"start", "prepare", "stream", "ask"}
      BY <1>3, <2>3
         DEF TaskStep, Begin, InterruptUnstarted, Prepared, Ask, TakeAnswer, AskTimeout, StreamEnd,
             SaveDone,
        Fail, Unwound, DoneWrite, Announce, ErrorWrite, ErrorAnnounce, HaltWrite,
        HaltAnnounce, InterruptRunning, InterruptAsk, InterruptHandler, Suspended, Ended,
        Goto
    <3>2. \A q \in cancelled : q # r => q \in cancelled'
      BY <1>3, <2>3
         DEF TaskStep, Begin, InterruptUnstarted, Prepared, Ask, TakeAnswer, AskTimeout, StreamEnd,
             SaveDone,
        Fail, Unwound, DoneWrite, Announce, ErrorWrite, ErrorAnnounce, HaltWrite,
        HaltAnnounce, InterruptRunning, InterruptAsk, InterruptHandler
    <3> QED
      BY <1>1, <2>1, <2>3, <3>1, <3>2 DEF Goto, Over, Suspended, Ended
  <2> QED
    BY <2>2, <2>3
<1> QED
  BY <1>2, <1>3

LEMMA TextMoves ==
  ASSUME TaskInv, [Next]_vars, NEW q \in Runs
  PROVE  /\ text'[q] >= text[q]
         /\ Over(q) => Over(q)' /\ text'[q] = text[q]
         /\ q \in cancelled => text'[q] = text[q] /\ (q \in cancelled' \/ Over(q)')
         /\ pc[q] # "none" => pc'[q] # "none"
<1> DEFINE Goal == /\ text'[q] >= text[q]
                   /\ Over(q) => Over(q)' /\ text'[q] = text[q]
                   /\ q \in cancelled => text'[q] = text[q] /\ (q \in cancelled' \/ Over(q)')
                   /\ pc[q] # "none" => pc'[q] # "none"
<1>0. pc \in [Runs -> {"none"} \union Suspended \union Ended] /\ text \in [Runs -> Nat]
  BY ConstantsAssumption DEF TaskInv, TypeOK, TasksOK
<1>1. ASSUME NEW r \in Runs, TaskStep(r) PROVE Goal
  BY <1>0, <1>1, TaskMoves DEF Over
<1>2. ASSUME NEW c \in Creators, CreateStep(c) PROVE Goal
  <2>1. UNCHANGED <<text, cancelled>>
    BY <1>2, CreateFrame
  <2>2. CASE CreateRegister(c)
    <3>1. pc' = [pc EXCEPT ![crun[c]] = "start"] /\ cpc[c] = "register"
      BY <2>2 DEF CreateRegister
    <3>2. crun[c] \in Runs /\ pc[crun[c]] = "none"
      BY <3>1 DEF TaskInv, FreshRuns, Minting, TypeOK, CreatorsOK
    <3> QED
      BY <1>0, <2>1, <3>1, <3>2 DEF Over
  <2>3. CASE ~CreateRegister(c)
    BY <1>0, <1>2, <2>1, <2>3, CreateFrame DEF Over
  <2> QED
    BY <2>2, <2>3
<1>3. ASSUME NEW s \in Streams, StreamStep(s) PROVE Goal
  BY <1>0, <1>3, StreamFrame DEF Over
<1>4. ASSUME NEW k \in Cancellers, CancelStep(k) PROVE Goal
  <2>1. UNCHANGED <<text, pc>> /\ cancelled \subseteq cancelled'
    BY <1>4, CancelFrame DEF CancelRequest
  <2> QED
    BY <1>0, <2>1 DEF Over
<1>5. ASSUME UserStep PROVE Goal
  BY <1>0, <1>5, UserFrame DEF Over
<1>6. ASSUME Restart PROVE Goal
  <2>1. /\ pc' = [r \in Runs |-> IF pc[r] \in Suspended THEN "dead" ELSE pc[r]]
        /\ UNCHANGED text
    BY <1>6 DEF Restart
  <2>2. q \in cancelled => pc[q] \in Suspended
    BY DEF TaskInv, RegistryTracksTasks
  <2> QED
    BY <1>0, <2>1, <2>2 DEF Over
<1>7. ASSUME UNCHANGED vars PROVE Goal
  BY <1>0, <1>7, StutterFrame DEF Over
<1> QED
  BY <1>1, <1>2, <1>3, <1>4, <1>5, <1>6, <1>7 DEF Next

-----------------------------------------------------------------------------
(* The row of one run after update_run_row, and those of the others. *)
LEMMA PatchedRow ==
  ASSUME row \in [Runs -> Row], NEW r \in Runs, NEW st, NEW why, NEW txt,
         row' = Patched(r, st, why, txt), NEW q \in Runs
  PROVE  \/ q # r /\ row'[q] = row[q]
         \/ q = r /\ Exists(r) /\ row'[q] = [st |-> st, text |-> txt, why |-> why]
         \/ q = r /\ ~Exists(r) /\ row' = row
BY DEF Patched

(* The writes of tasks, handlers and users that settle a run: the text they *)
(* store is the one the row holds or the one the task has accumulated.      *)
SettlesRow(r, st, why, txt) ==
  /\ row' = Patched(r, st, why, txt)
  /\ UNCHANGED <<erased, text, made>>
  /\ \A c \in Creators : Minting(c)' => cpc'[c] = cpc[c] /\ crun'[c] = crun[c]
  /\ row[r].text <= txt
  /\ txt \in {row[r].text, text[r]}
  /\ st = "done" => Over(r) /\ txt = text[r]
  /\ pc'[r] # pc[r] => \/ pc'[r] \in {"meta", "halted"} /\ txt = text[r]
                       \/ pc'[r] = "failed"
  /\ \A q \in Runs : q # r => pc'[q] = pc[q]

InsertsRow(c) ==
  /\ cpc[c] = "insert"
  /\ crun[c] \in Runs
  /\ row[crun[c]].st = "absent"
  /\ row' = [row EXCEPT ![crun[c]] = NewRow]
  /\ cpc' = [cpc EXCEPT ![c] = "register"]
  /\ UNCHANGED <<erased, text, pc, made, crun>>

DeletesRows(S) ==
  /\ \A r \in S : Exists(r)
  /\ row' = [r \in Runs |-> IF r \in S THEN DeletedRow ELSE row[r]]
  /\ UNCHANGED <<erased, text, pc, made, cpc, crun>>

ErasesRow(r) ==
  /\ Exists(r)
  /\ row' = [row EXCEPT ![r] = [@ EXCEPT !.text = 0]]
  /\ erased' = erased \union {r}
  /\ UNCHANGED <<text, pc, made, cpc, crun>>

LEMMA RowCases ==
  ASSUME RowsInv, [Next]_vars
  PROVE  \/ UNCHANGED <<row, erased>>
         \/ \E r \in Runs, st \in Terminal, why \in Cause, txt \in 0..MaxText :
              SettlesRow(r, st, why, txt)
         \/ \E c \in Creators : InsertsRow(c)
         \/ \E S \in SUBSET Runs : DeletesRows(S)
         \/ \E r \in Runs : ErasesRow(r)
<1> DEFINE Settled == \E r \in Runs, st \in Terminal, why \in Cause, txt \in 0..MaxText :
                        SettlesRow(r, st, why, txt)
           Goal == \/ UNCHANGED <<row, erased>>
                   \/ Settled
                   \/ \E c \in Creators : InsertsRow(c)
                   \/ \E S \in SUBSET Runs : DeletesRows(S)
                   \/ \E r \in Runs : ErasesRow(r)
<1>0. /\ TypeOK
      /\ pc \in [Runs -> {"none"} \union Suspended \union Ended]
      /\ row \in [Runs -> Row]
      /\ text \in [Runs -> 0..MaxText]
      /\ \A r \in Runs : row[r].text \in 0..MaxText /\ row[r].why \in Cause
      /\ \A r \in Runs : row[r].text <= text[r]
  BY DEF RowsInv, RowsBelow, TaskInv, TypeOK, TasksOK, RowsOK, Row
<1>1. ASSUME NEW r \in Runs, TaskStep(r) PROVE Goal
  <2>1. UNCHANGED <<erased, made, cpc, crun>>
    BY <1>1, TaskFrame
  <2>2. CASE DoneWrite(r)
    <3>1. SettlesRow(r, "done", row[r].why, text[r])
      BY <1>0, <2>1, <2>2, ConstantsAssumption DEF DoneWrite, SettlesRow, Minting, Goto, Over
    <3> QED
      BY <1>0, <3>1 DEF Terminal
  <2>3. CASE ErrorWrite(r)
    <3>1. SettlesRow(r, "error", "failed", row[r].text)
      BY <1>0, <2>1, <2>3, ConstantsAssumption DEF ErrorWrite, SettlesRow, Minting, Goto
    <3> QED
      BY <1>0, <3>1 DEF Terminal, Cause
  <2>4. CASE HaltWrite(r)
    <3>1. SettlesRow(r, "cancelled", "stopped", CancelText(r, text[r]))
      BY <1>0, <2>1, <2>4, ConstantsAssumption
      DEF HaltWrite, SettlesRow, Minting, Goto, CancelText
    <3>2. CancelText(r, text[r]) \in 0..MaxText
      BY <1>0 DEF CancelText
    <3> QED
      BY <1>0, <3>1, <3>2 DEF Terminal, Cause
  <2>5. CASE ~(DoneWrite(r) \/ ErrorWrite(r) \/ HaltWrite(r))
    <3>1. UNCHANGED row
      BY <1>1, <2>5
         DEF TaskStep, Begin, InterruptUnstarted, Prepared, Emit, Ask, TakeAnswer, AskTimeout,
        StreamEnd, SaveDone, Fail, Unwound, Announce, ErrorAnnounce, HaltAnnounce,
        InterruptRunning, InterruptAsk, InterruptHandler
    <3> QED
      BY <2>1, <3>1
  <2> QED
    BY <2>2, <2>3, <2>4, <2>5
<1>2. ASSUME NEW c \in Creators, CreateStep(c) PROVE Goal
  <2>1. UNCHANGED <<erased, text>> /\ (~CreateRegister(c) => UNCHANGED pc)
    BY <1>2, CreateFrame
  <2>2. CASE CreateMarkStale(c)
    <3>1. crun[c] \in Runs
      BY <1>0, <2>2 DEF TypeOK, CreatorsOK, CreateMarkStale
    <3>2. /\ row' = Patched(crun[c], "error", "restarted", row[crun[c]].text)
          /\ UNCHANGED <<made, pc>>
          /\ \A d \in Creators : Minting(d)' => cpc'[d] = cpc[d] /\ crun'[d] = crun[d]
      BY <1>0, <2>2 DEF CreateMarkStale, taskAndRegistry, taskVars, TypeOK, CreatorsOK,
        Minting
    <3>3. SettlesRow(crun[c], "error", "restarted", row[crun[c]].text)
      BY <1>0, <2>1, <3>1, <3>2, ConstantsAssumption DEF SettlesRow
    <3> QED
      BY <1>0, <3>1, <3>3 DEF Terminal, Cause
  <2>3. CASE CreateInsert(c)
    <3>1. InsertsRow(c)
      BY <1>0, <2>1, <2>3
      DEF InsertsRow, CreateInsert, taskAndRegistry, taskVars, RowsInv, RowsFresh,
          TypeOK, CreatorsOK
    <3> QED
      BY <3>1
  <2>4. CASE ~(CreateMarkStale(c) \/ CreateInsert(c))
    <3>1. UNCHANGED row
      BY <1>2, <2>4 DEF CreateStep, CreateRead, CreateReuse, CreateFoundStale,
        CreateAllocate, CreateRegister
    <3> QED
      BY <2>1, <3>1
  <2> QED
    BY <2>2, <2>3, <2>4
<1>3. ASSUME NEW s \in Streams, StreamStep(s) PROVE Goal
  <2>1. UNCHANGED <<erased, text, pc, made, cpc, crun>>
    BY <1>3, StreamFrame
  <2>2. CASE StreamRepair(s)
    <3>1. srun[s] \in Runs
      BY <1>0, <2>2 DEF TypeOK, StreamsOK, StreamRepair
    <3>2. SettlesRow(srun[s], "error", "interrupted", row[srun[s]].text)
      BY <1>0, <2>1, <2>2, <3>1, ConstantsAssumption DEF SettlesRow, Minting, StreamRepair
    <3> QED
      BY <1>0, <3>1, <3>2 DEF Terminal, Cause
  <2>3. CASE ~StreamRepair(s)
    BY <1>3, <2>1, <2>3, StreamFrame
  <2> QED
    BY <2>2, <2>3
<1>4. ASSUME NEW k \in Cancellers, CancelStep(k) PROVE Goal
  <2>1. UNCHANGED <<erased, text, pc, made, cpc, crun>>
    BY <1>4, CancelFrame
  <2>2. CASE CancelWrite(k)
    <3>1. krun[k] \in Runs /\ ktext[k] \in 0..MaxText /\ kpc[k] = "write"
      BY <1>0, <2>2, ConstantsAssumption DEF TypeOK, CancellersOK, CancelWrite, NoRow
    <3>2. row' = Patched(krun[k], "cancelled", "stopped", CancelText(krun[k], ktext[k]))
      BY <2>2 DEF CancelWrite
    <3>3. CancelText(krun[k], ktext[k]) \in {row[krun[k]].text, text[krun[k]]}
      BY <3>1 DEF CancelText, RowsInv, CancelsFit
    <3>4. /\ CancelText(krun[k], ktext[k]) \in 0..MaxText
          /\ row[krun[k]].text <= CancelText(krun[k], ktext[k])
      BY <1>0, <3>1, <3>3, ConstantsAssumption
    <3>5. SettlesRow(krun[k], "cancelled", "stopped", CancelText(krun[k], ktext[k]))
      BY <2>1, <3>1, <3>2, <3>3, <3>4 DEF SettlesRow, Minting
    <3> QED
      BY <3>1, <3>4, <3>5 DEF Terminal, Cause
  <2>3. CASE ~CancelWrite(k)
    BY <1>4, <2>1, <2>3, CancelFrame
  <2> QED
    BY <2>2, <2>3
<1>5. ASSUME UserStep PROVE Goal
  <2>1. UNCHANGED <<text, pc, made, cpc, crun>>
    BY <1>5, UserFrame
  <2>2. CASE DeleteSession
    <3>1. DeletesRows({r \in Runs : Exists(r)})
      BY <2>1, <2>2 DEF DeleteSession, DeletesRows
    <3> QED
      BY <3>1
  <2>3. ASSUME NEW r \in Runs, DeleteMessage(r) PROVE Goal
    <3>1. DeletesRows({r})
      BY <1>0, <2>1, <2>3 DEF DeleteMessage, DeletesRows
    <3> QED
      BY <3>1
  <2>4. ASSUME NEW r \in Runs, EraseAnswer(r) PROVE Goal
    <3>1. ErasesRow(r)
      BY <2>1, <2>4 DEF EraseAnswer, ErasesRow
    <3> QED
      BY <3>1
  <2>5. CASE UNCHANGED <<row, erased>>
    BY <2>5
  <2> QED
    BY <1>5, <2>2, <2>3, <2>4, <2>5
    DEF UserStep, StreamOpen, StreamLeave, CancelRead, Answer
<1>6. ASSUME Restart PROVE Goal
  BY <1>6 DEF Restart
<1>7. ASSUME UNCHANGED vars PROVE Goal
  BY <1>7, StutterFrame
<1> QED
  BY <1>1, <1>2, <1>3, <1>4, <1>5, <1>6, <1>7 DEF Next

(* A row whose text a user has erased. *)
LEMMA ErasedRow ==
  ASSUME row \in [Runs -> Row], NEW q \in Runs, ErasesRow(q), NEW r \in Runs
  PROVE  /\ row'[r].st = row[r].st
         /\ r # q => row'[r] = row[r]
         /\ r = q => row'[r].text = 0
<1>1. row[q] \in Row
  OBVIOUS
<1>2. [row[q] EXCEPT !.text = 0].st = row[q].st /\ [row[q] EXCEPT !.text = 0].text = 0
  BY <1>1 DEF Row
<1>3. row' = [row EXCEPT ![q] = [row[q] EXCEPT !.text = 0]]
  BY DEF ErasesRow
<1>4. CASE q = r
  BY <1>2, <1>3, <1>4
<1>5. CASE q # r
  BY <1>3, <1>5
<1> QED
  BY <1>4, <1>5

(* The status of a row over any step: nothing brings a row back to         *)
(* "running", and nothing brings one back at all.                          *)
LEMMA RowMoves ==
  ASSUME RowsInv, [Next]_vars, NEW r \in Runs
  PROVE  /\ row[r].st # "absent" => row'[r].st # "absent"
         /\ row'[r].st = "running" => row[r].st \in {"running", "absent"}
         /\ Exists(r)' => Exists(r) \/ row[r].st = "absent"
         /\ row[r].st = "absent" /\ row'[r].st # "absent"
              => \E c \in Creators : InsertsRow(c) /\ crun[c] = r
         /\ erased \subseteq erased'
<1>0. row \in [Runs -> Row]
  BY DEF RowsInv, TaskInv, TypeOK, RowsOK
<1>1. CASE UNCHANGED <<row, erased>>
  BY <1>1 DEF Exists
<1>2. ASSUME NEW q \in Runs, NEW st \in Terminal, NEW why \in Cause, NEW txt \in 0..MaxText,
             SettlesRow(q, st, why, txt)
      PROVE  /\ row[r].st # "absent" => row'[r].st # "absent"
             /\ row'[r].st = "running" => row[r].st = "running"
             /\ Exists(r)' => Exists(r)
             /\ row[r].st = "absent" => row'[r].st = "absent"
             /\ erased \subseteq erased'
  <2>1. \/ row'[r] = row[r]
        \/ Exists(r) /\ row'[r] = [st |-> st, text |-> txt, why |-> why]
    BY <1>0, <1>2, PatchedRow DEF SettlesRow
  <2> QED
    BY <1>2, <2>1 DEF SettlesRow, Exists, Terminal
<1>3. ASSUME NEW c \in Creators, InsertsRow(c)
      PROVE  /\ row[r].st # "absent" => row'[r].st # "absent"
             /\ row'[r].st = "running" => row[r].st \in {"running", "absent"}
             /\ Exists(r)' => Exists(r) \/ row[r].st = "absent"
             /\ row[r].st = "absent" /\ row'[r].st # "absent" => crun[c] = r
             /\ erased \subseteq erased'
  BY <1>0, <1>3 DEF InsertsRow, Exists, NewRow
<1>4. ASSUME NEW S \in SUBSET Runs, DeletesRows(S)
      PROVE  /\ row[r].st # "absent" => row'[r].st # "absent"
             /\ row'[r].st = "running" => row[r].st = "running"
             /\ Exists(r)' => Exists(r)
             /\ row[r].st = "absent" => row'[r].st = "absent"
             /\ erased \subseteq erased'
  BY <1>0, <1>4 DEF DeletesRows, Exists, DeletedRow
<1>5. ASSUME NEW q \in Runs, ErasesRow(q)
      PROVE  row'[r].st = row[r].st /\ erased \subseteq erased'
  BY <1>0, <1>5, ErasedRow DEF ErasesRow
<1> QED
  BY <1>1, <1>2, <1>3, <1>4, <1>5, RowCases DEF Exists

(* How a create request comes to hold a run id, and how a task starts. *)
LEMMA MintMoves ==
  ASSUME TaskInv, [Next]_vars
  PROVE  /\ made' >= made
         /\ \A c \in Creators :
              /\ cpc'[c] = "insert" => \/ cpc[c] = "insert" /\ crun'[c] = crun[c]
                                       \/ CreateAllocate(c)
              /\ cpc'[c] = "register" => \/ cpc[c] = "register" /\ crun'[c] = crun[c]
                                         \/ CreateInsert(c)
         /\ \A r \in Runs : pc[r] = "none" /\ pc'[r] # "none" =>
              \E c \in Creators : cpc[c] = "register" /\ crun[c] = r
<1> DEFINE Goal == /\ made' >= made
                   /\ \A c \in Creators :
                        /\ cpc'[c] = "insert" => \/ cpc[c] = "insert" /\ crun'[c] = crun[c]
                                                 \/ CreateAllocate(c)
                        /\ cpc'[c] = "register" => \/ cpc[c] = "register" /\ crun'[c] = crun[c]
                                                   \/ CreateInsert(c)
                   /\ \A r \in Runs : pc[r] = "none" /\ pc'[r] # "none" =>
                        \E c \in Creators : cpc[c] = "register" /\ crun[c] = r
<1>0. /\ made \in Nat
      /\ cpc \in [Creators -> {"idle", "decide", "mark", "insert", "register",
                               "replied", "gone"}]
      /\ crun \in [Creators -> 0..MaxRuns]
      /\ pc \in [Runs -> {"none"} \union Suspended \union Ended]
  BY ConstantsAssumption DEF TaskInv, TypeOK, CreatorsOK, TasksOK
<1>1. ASSUME NEW r \in Runs, TaskStep(r) PROVE Goal
  BY <1>0, <1>1, TaskFrame, TaskMoves
<1>2. ASSUME NEW c \in Creators, CreateStep(c) PROVE Goal
  <2>1. CASE CreateRegister(c)
    BY <1>0, <2>1 DEF CreateRegister
  <2>2. CASE CreateAllocate(c)
    <3>1. /\ made' = made + 1 /\ UNCHANGED pc
          /\ cpc' = [cpc EXCEPT ![c] = "insert"]
          /\ \A d \in Creators : d # c => crun'[d] = crun[d]
      BY <1>0, <2>2 DEF CreateAllocate, taskAndRegistry, taskVars
    <3> QED
      BY <1>0, <2>2, <3>1
  <2>3. CASE CreateInsert(c)
    <3>1. /\ cpc' = [cpc EXCEPT ![c] = "register"]
          /\ UNCHANGED <<made, crun, pc>>
      BY <2>3 DEF CreateInsert, taskAndRegistry, taskVars
    <3> QED
      BY <1>0, <2>3, <3>1
  <2>4. CASE CreateRead(c) \/ CreateReuse(c) \/ CreateFoundStale(c) \/ CreateMarkStale(c)
    BY <1>0, <2>4 DEF CreateRead, CreateReuse, CreateFoundStale, CreateMarkStale,
      taskAndRegistry, taskVars
  <2> QED
    BY <1>2, <2>1, <2>2, <2>3, <2>4 DEF CreateStep
<1>3. ASSUME NEW s \in Streams, StreamStep(s) PROVE Goal
  BY <1>0, <1>3, StreamFrame
<1>4. ASSUME NEW k \in Cancellers, CancelStep(k) PROVE Goal
  BY <1>0, <1>4, CancelFrame
<1>5. ASSUME UserStep PROVE Goal
  BY <1>0, <1>5, UserFrame
<1>6. ASSUME Restart PROVE Goal
  BY <1>0, <1>6 DEF Restart, Suspended
<1>7. ASSUME UNCHANGED vars PROVE Goal
  BY <1>0, <1>7, StutterFrame
<1> QED
  BY <1>1, <1>2, <1>3, <1>4, <1>5, <1>6, <1>7 DEF Next

LEMMA RowsFreshStep ==
  ASSUME RowsInv, [Next]_vars
  PROVE  RowsFresh'
<1>0. TypeOK /\ TaskInv /\ RowsFresh /\ FreshRuns
  BY DEF RowsInv, TaskInv
<1>1. ASSUME NEW r \in Runs, r > made' PROVE row'[r].st = "absent"
  <2>1. r > made
    BY <1>0, <1>1, MintMoves, CreatorsStep DEF TypeOK, CreatorsOK, Runs
  <2>2. \A c \in Creators : InsertsRow(c) => crun[c] # r
    BY <1>0, <2>1 DEF InsertsRow, FreshRuns, Minting, TypeOK, CreatorsOK, Runs
  <2> QED
    BY <1>0, <2>1, <2>2, RowMoves DEF RowsFresh
<1>2. ASSUME NEW c \in Creators, cpc'[c] = "insert" PROVE row'[crun'[c]].st = "absent"
  <2>1. CASE CreateAllocate(c)
    <3>1. crun'[c] = made + 1 /\ made + 1 \in Runs /\ UNCHANGED row
      BY <1>0, <2>1, ConstantsAssumption DEF CreateAllocate, TypeOK, CreatorsOK, Runs
    <3>2. made + 1 > made
      BY <1>0 DEF TypeOK, CreatorsOK
    <3> QED
      BY <1>0, <3>1, <3>2 DEF RowsFresh
  <2>2. CASE cpc[c] = "insert" /\ crun'[c] = crun[c]
    <3>1. crun[c] \in Runs /\ row[crun[c]].st = "absent"
      BY <1>0, <2>2 DEF RowsFresh, TypeOK, CreatorsOK
    <3>2. \A d \in Creators : InsertsRow(d) => crun[d] # crun[c]
      <4> SUFFICES ASSUME NEW d \in Creators, InsertsRow(d) PROVE crun[d] # crun[c]
        OBVIOUS
      <4>1. d # c
        BY <1>0, <1>2 DEF InsertsRow, TypeOK, CreatorsOK
      <4> QED
        BY <1>0, <2>2, <4>1 DEF InsertsRow, FreshRuns, Minting
    <3> QED
      BY <2>2, <3>1, <3>2, RowMoves
  <2> QED
    BY <1>0, <1>2, <2>1, <2>2, MintMoves
<1>3. ASSUME NEW c \in Creators, cpc'[c] = "register" PROVE row'[crun'[c]].st # "absent"
  <2>1. CASE CreateInsert(c)
    BY <1>0, <2>1 DEF CreateInsert, TypeOK, CreatorsOK, RowsOK, NewRow
  <2>2. CASE cpc[c] = "register" /\ crun'[c] = crun[c]
    BY <1>0, <2>2, RowMoves DEF RowsFresh, TypeOK, CreatorsOK
  <2> QED
    BY <1>0, <1>3, <2>1, <2>2, MintMoves
<1>4. ASSUME NEW r \in Runs, pc'[r] # "none" PROVE row'[r].st # "absent"
  BY <1>0, <1>4, MintMoves, RowMoves DEF RowsFresh
<1> QED
  BY <1>1, <1>2, <1>3, <1>4 DEF RowsFresh

LEMMA RowsBelowStep ==
  ASSUME RowsInv, [Next]_vars
  PROVE  RowsBelow'
<1> SUFFICES ASSUME NEW r \in Runs PROVE row'[r].text <= text'[r]
  BY DEF RowsBelow
<1>0. /\ row \in [Runs -> Row] /\ row[r].text \in Nat /\ row[r].text <= text[r]
      /\ text[r] \in Nat /\ text'[r] \in Nat /\ TaskInv
  BY TasksStep, ConstantsAssumption
  DEF RowsInv, RowsBelow, TaskInv, TypeOK, RowsOK, TasksOK, Row
<1>1. text[r] <= text'[r]
  BY <1>0, TextMoves
<1>2. row'[r].text \in {row[r].text, text[r], 0}
  <2>1. ASSUME NEW q \in Runs, NEW st \in Terminal, NEW why \in Cause,
               NEW txt \in 0..MaxText, SettlesRow(q, st, why, txt)
        PROVE  row'[r].text \in {row[r].text, text[r], 0}
    <3>1. \/ row'[r] = row[r]
          \/ q = r /\ row'[r] = [st |-> st, text |-> txt, why |-> why]
      BY <1>0, <2>1, PatchedRow DEF SettlesRow
    <3> QED
      BY <2>1, <3>1 DEF SettlesRow
  <2>2. ASSUME NEW c \in Creators, InsertsRow(c)
        PROVE  row'[r].text \in {row[r].text, text[r], 0}
    BY <1>0, <2>2 DEF InsertsRow, NewRow
  <2>3. ASSUME NEW S \in SUBSET Runs, DeletesRows(S)
        PROVE  row'[r].text \in {row[r].text, text[r], 0}
    BY <1>0, <2>3 DEF DeletesRows, DeletedRow
  <2>4. ASSUME NEW q \in Runs, ErasesRow(q)
        PROVE  row'[r].text \in {row[r].text, text[r], 0}
    BY <1>0, <2>4, ErasedRow DEF ErasesRow
  <2> QED
    BY <2>1, <2>2, <2>3, <2>4, RowCases
<1> QED
  BY <1>0, <1>1, <1>2

(* How a cancel request comes to have a patch. *)
LEMMA CancelMoves ==
  ASSUME TaskInv, [Next]_vars, NEW k \in Cancellers
  PROVE  /\ kpc'[k] \in {"idle", "request"} =>
              kpc[k] \in {"idle", "request"} /\ ktext'[k] = ktext[k]
         /\ kpc'[k] = "write" =>
              \/ kpc[k] = "write" /\ krun'[k] = krun[k] /\ ktext'[k] = ktext[k]
              \/ CancelRequest(k)
         /\ kpc'[k] = "announce" =>
              \/ kpc[k] = "announce" /\ krun'[k] = krun[k] /\ ktext'[k] = ktext[k]
              \/ CancelWrite(k)
         /\ kpc'[k] # "idle" /\ kpc[k] # "idle" => krun'[k] = krun[k]
         /\ kpc'[k] # "idle" /\ kpc[k] = "idle" => CancelRead(k, krun'[k]) /\ krun'[k] \in Runs
<1> DEFINE Goal == /\ kpc'[k] \in {"idle", "request"} =>
                        kpc[k] \in {"idle", "request"} /\ ktext'[k] = ktext[k]
                   /\ kpc'[k] = "write" =>
                        \/ kpc[k] = "write" /\ krun'[k] = krun[k] /\ ktext'[k] = ktext[k]
                        \/ CancelRequest(k)
                   /\ kpc'[k] = "announce" =>
                        \/ kpc[k] = "announce" /\ krun'[k] = krun[k] /\ ktext'[k] = ktext[k]
                        \/ CancelWrite(k)
                   /\ kpc'[k] # "idle" /\ kpc[k] # "idle" => krun'[k] = krun[k]
                   /\ kpc'[k] # "idle" /\ kpc[k] = "idle" =>
                        CancelRead(k, krun'[k]) /\ krun'[k] \in Runs
<1>0. /\ kpc \in [Cancellers -> {"idle", "request", "write", "announce", "replied", "gone"}]
      /\ krun \in [Cancellers -> 0..MaxRuns]
      /\ ktext \in [Cancellers -> 0..NoRow]
  BY DEF TaskInv, TypeOK, CancellersOK
<1>1. ASSUME NEW r \in Runs, TaskStep(r) PROVE Goal
  BY <1>0, <1>1, TaskFrame
<1>2. ASSUME NEW c \in Creators, CreateStep(c) PROVE Goal
  BY <1>0, <1>2, CreateFrame
<1>3. ASSUME NEW s \in Streams, StreamStep(s) PROVE Goal
  BY <1>0, <1>3, StreamFrame
<1>4. ASSUME NEW j \in Cancellers, CancelStep(j) PROVE Goal
  <2>1. CASE CancelRequest(j)
    <3>1. /\ kpc[j] = "request" /\ kpc' = [kpc EXCEPT ![j] = "write"]
          /\ UNCHANGED krun
          /\ \A i \in Cancellers : i # j => ktext'[i] = ktext[i]
      BY <1>0, <2>1 DEF CancelRequest
    <3> QED
      BY <1>0, <2>1, <3>1
  <2>2. CASE CancelWrite(j)
    <3>1. /\ kpc[j] = "write" /\ kpc' = [kpc EXCEPT ![j] = "announce"]
          /\ UNCHANGED krun
          /\ \A i \in Cancellers : i # j => ktext'[i] = ktext[i]
      BY <1>0, <2>2 DEF CancelWrite
    <3> QED
      BY <1>0, <2>2, <3>1
  <2>3. CASE CancelAnnounce(j)
    <3>1. /\ kpc[j] = "announce" /\ kpc' = [kpc EXCEPT ![j] = "replied"]
          /\ UNCHANGED <<krun, ktext>>
      BY <2>3 DEF CancelAnnounce
    <3> QED
      BY <1>0, <3>1
  <2> QED
    BY <1>4, <2>1, <2>2, <2>3 DEF CancelStep
<1>5. ASSUME UserStep PROVE Goal
  <2>1. ASSUME NEW j \in Cancellers, NEW r \in Runs, CancelRead(j, r) PROVE Goal
    <3>1. /\ kpc[j] = "idle" /\ kpc' = [kpc EXCEPT ![j] = "request"]
          /\ krun' = [krun EXCEPT ![j] = r]
          /\ UNCHANGED ktext
      BY <2>1 DEF CancelRead
    <3>2. kpc'[k] # "idle" /\ kpc[k] = "idle" => k = j /\ krun'[k] = r
      BY <1>0, <3>1
    <3>3. kpc'[k] # "idle" /\ kpc[k] = "idle" => CancelRead(k, krun'[k])
      BY <2>1, <3>2
    <3> QED
      BY <1>0, <3>1, <3>2, <3>3
  <2>2. CASE UNCHANGED <<kpc, krun, ktext>>
    BY <1>0, <2>2
  <2> QED
    BY <1>5, <2>1, <2>2
    DEF UserStep, StreamOpen, StreamLeave, Answer, DeleteSession, DeleteMessage,
        EraseAnswer, handlerVars, cancelVars
<1>6. ASSUME Restart PROVE Goal
  BY <1>0, <1>6 DEF Restart
<1>7. ASSUME UNCHANGED vars PROVE Goal
  BY <1>0, <1>7, StutterFrame
<1> QED
  BY <1>1, <1>2, <1>3, <1>4, <1>5, <1>6, <1>7 DEF Next

LEMMA CancelsFitStep ==
  ASSUME RowsInv, [Next]_vars
  PROVE  CancelsFit'
<1>0. TaskInv /\ TypeOK /\ CancelsFit
  BY DEF RowsInv, TaskInv
<1> SUFFICES ASSUME NEW k \in Cancellers
             PROVE  /\ kpc'[k] \in {"idle", "request"} => ktext'[k] = 0
                    /\ kpc'[k] = "write" /\ ktext'[k] > 0 =>
                         /\ ktext'[k] = text'[krun'[k]]
                         /\ \/ krun'[k] \in cancelled'
                            \/ pc'[krun'[k]] \notin {"none", "start", "prepare", "stream", "ask"}
  BY DEF CancelsFit, Over
<1>1. kpc'[k] \in {"idle", "request"} => ktext'[k] = 0
  BY <1>0, CancelMoves DEF CancelsFit
<1>2. ASSUME kpc[k] = "write", krun'[k] = krun[k], ktext'[k] = ktext[k], ktext'[k] > 0
      PROVE  /\ ktext'[k] = text'[krun'[k]]
             /\ \/ krun'[k] \in cancelled'
                \/ pc'[krun'[k]] \notin {"none", "start", "prepare", "stream", "ask"}
  <2>1. PICK r \in Runs : r = krun[k]
    BY <1>0, <1>2 DEF TypeOK, CancellersOK
  <2>2. /\ ktext[k] = text[r]
        /\ r \in cancelled \/ Over(r)
    BY <1>0, <1>2, <2>1 DEF CancelsFit
  <2>3. /\ Over(r) => Over(r)' /\ text'[r] = text[r]
        /\ r \in cancelled => text'[r] = text[r] /\ (r \in cancelled' \/ Over(r)')
    BY <1>0, TextMoves
  <2> QED
    BY <1>2, <2>1, <2>2, <2>3 DEF Over
<1>3. ASSUME CancelRequest(k), ktext'[k] > 0
      PROVE  /\ ktext'[k] = text'[krun'[k]]
             /\ \/ krun'[k] \in cancelled'
                \/ pc'[krun'[k]] \notin {"none", "start", "prepare", "stream", "ask"}
  <2>1. ktext[k] = 0 /\ k \in DOMAIN ktext
    BY <1>0, <1>3 DEF CancelRequest, CancelsFit, TypeOK, CancellersOK
  <2>2. krun[k] \in local /\ krun[k] \in Runs
    BY <1>0, <1>3, <2>1 DEF CancelRequest, TypeOK, RegistryOK
  <2>3. pc[krun[k]] \in Suspended \/ pc[krun[k]] = "unstarted"
    BY <1>0, <2>2 DEF TaskInv, RegistryTracksTasks
  <2>4. /\ ktext'[k] = text'[krun'[k]]
        /\ pc[krun[k]] \in Suspended => krun'[k] \in cancelled'
        /\ UNCHANGED <<pc, krun>>
    BY <1>3, <2>1, <2>2 DEF CancelRequest, taskVars
  <2> QED
    BY <2>3, <2>4
<1> QED
  BY <1>0, <1>1, <1>2, <1>3, CancelMoves

(* A task comes to where its end is stored by storing it. *)
LEMMA EndMoves ==
  ASSUME TaskInv, [Next]_vars, NEW r \in Runs, pc'[r] \in EndStored
  PROVE  pc[r] \in EndStored \/ DoneWrite(r) \/ HaltWrite(r)
<1>0. pc \in [Runs -> {"none"} \union Suspended \union Ended]
  BY DEF TaskInv, TypeOK, TasksOK
<1>1. ASSUME NEW q \in Runs, TaskStep(q), ~DoneWrite(r), ~HaltWrite(r)
      PROVE  pc[r] \in EndStored
  <2>1. CASE q # r
    BY <1>1, <2>1, TaskMoves
  <2>2. CASE q = r
    BY <1>0, <1>1, <2>2
       DEF TaskStep, Begin, InterruptUnstarted, Prepared, Emit, Ask, TakeAnswer, AskTimeout,
      StreamEnd, SaveDone, Fail, Unwound, Announce, ErrorWrite, ErrorAnnounce,
      HaltAnnounce, InterruptRunning, InterruptAsk, InterruptHandler, Goto, EndStored
  <2> QED
    BY <2>1, <2>2
<1>2. ASSUME NEW c \in Creators, CreateStep(c) PROVE pc[r] \in EndStored
  <2>1. CASE CreateRegister(c)
    BY <1>0, <2>1 DEF CreateRegister, EndStored
  <2>2. CASE ~CreateRegister(c)
    BY <1>2, <2>2, CreateFrame
  <2> QED
    BY <2>1, <2>2
<1>3. CASE UNCHANGED pc
  BY <1>3
<1>4. ASSUME Restart PROVE pc[r] \in EndStored
  BY <1>0, <1>4 DEF Restart, EndStored
<1> QED
  BY <1>1, <1>2, <1>3, <1>4, StreamFrame, CancelFrame, UserFrame, StutterFrame DEF Next

LEMMA RowsKeptStep ==
  ASSUME RowsInv, [Next]_vars
  PROVE  RowsKept'
<1>0. TaskInv /\ TypeOK /\ RowsKept /\ FreshRuns /\ row \in [Runs -> Row]
  BY DEF RowsInv, TaskInv, TypeOK, RowsOK
<1> SUFFICES ASSUME NEW r \in Runs
             PROVE  /\ row'[r].st = "done" => Over(r)'
                    /\ row'[r].st = "done" \/ pc'[r] \in EndStored
                         => ~Exists(r)' \/ r \in erased' \/ row'[r].text = text'[r]
  BY DEF RowsKept, Over, Exists
<1>1. Over(r) => Over(r)' /\ text'[r] = text[r]
  BY <1>0, TextMoves DEF Over
<1>2. CASE DoneWrite(r) \/ HaltWrite(r)
  <2>1. Over(r)
    BY <1>2 DEF DoneWrite, HaltWrite, Goto, Over
  <2>2. /\ row[r].text <= text[r] /\ row[r].text \in Nat /\ text[r] \in Nat
        /\ r \in DOMAIN row
    BY <1>0, ConstantsAssumption
    DEF RowsInv, RowsBelow, TypeOK, RowsOK, TasksOK, Row
  <2>3. ASSUME DoneWrite(r), Exists(r)' PROVE row'[r].text = text[r]
    <3>1. row' = Patched(r, "done", row[r].why, text[r])
      BY <2>3 DEF DoneWrite
    <3> QED
      BY <2>2, <2>3, <3>1 DEF Patched, Exists
  <2>4. ASSUME HaltWrite(r), Exists(r)' PROVE row'[r].text = text[r]
    <3>1. row' = Patched(r, "cancelled", "stopped", CancelText(r, text[r]))
      BY <2>4 DEF HaltWrite
    <3>2. CancelText(r, text[r]) = text[r]
      BY <2>2 DEF CancelText
    <3> QED
      BY <2>2, <2>4, <3>1, <3>2 DEF Patched, Exists
  <2>5. Exists(r)' => row'[r].text = text[r]
    BY <1>2, <2>3, <2>4
  <2> QED
    BY <1>1, <2>1, <2>5
<1>3. CASE ~(DoneWrite(r) \/ HaltWrite(r))
  <2>1. pc'[r] \in EndStored => pc[r] \in EndStored
    BY <1>0, <1>3, EndMoves
  <2>2. pc[r] \in EndStored => Over(r)
    BY DEF EndStored, Over
  <2>3. CASE row'[r] = row[r] /\ erased \subseteq erased'
    BY <1>0, <1>1, <2>1, <2>2, <2>3 DEF RowsKept, Exists
  <2>4. ASSUME NEW q \in Runs, NEW st \in Terminal, NEW why \in Cause,
               NEW txt \in 0..MaxText, SettlesRow(q, st, why, txt)
        PROVE  /\ row'[r].st = "done" => Over(r)
               /\ row'[r].st = "done" \/ pc'[r] \in EndStored
                    => ~Exists(r)' \/ r \in erased' \/ row'[r].text = text[r]
    <3>1. CASE row'[r] = row[r]
      BY <1>0, <2>1, <2>4, <3>1 DEF RowsKept, Exists, SettlesRow
    <3>2. CASE q = r /\ Exists(r) /\ row'[r] = [st |-> st, text |-> txt, why |-> why]
      BY <1>0, <2>1, <2>4, <3>2 DEF RowsKept, Exists, SettlesRow
    <3> QED
      BY <1>0, <2>4, <3>1, <3>2, PatchedRow DEF SettlesRow
  <2>5. ASSUME NEW c \in Creators, InsertsRow(c), crun[c] = r
        PROVE  row'[r].st # "done" /\ pc'[r] \notin EndStored
    BY <1>0, <2>5 DEF InsertsRow, FreshRuns, Minting, NewRow, EndStored
  <2>6. ASSUME NEW c \in Creators, InsertsRow(c), crun[c] # r
        PROVE  row'[r] = row[r] /\ erased \subseteq erased'
    BY <1>0, <2>6 DEF InsertsRow
  <2>7. ASSUME NEW S \in SUBSET Runs, DeletesRows(S)
        PROVE  \/ row'[r] = row[r] /\ erased \subseteq erased'
               \/ ~Exists(r)' /\ row'[r].st # "done"
    BY <1>0, <2>7 DEF DeletesRows, DeletedRow, Exists
  <2>8. ASSUME NEW q \in Runs, ErasesRow(q)
        PROVE  \/ row'[r] = row[r] /\ erased \subseteq erased'
               \/ row'[r].st = row[r].st /\ r \in erased'
    BY <1>0, <2>8, ErasedRow DEF ErasesRow
  <2> QED
    BY <1>0, <1>1, <2>1, <2>2, <2>3, <2>4, <2>5, <2>6, <2>7, <2>8, RowCases DEF RowsKept
<1> QED
  BY <1>2, <1>3

-----------------------------------------------------------------------------
LEMMA RowsInvInit == Init => RowsInv
<1>1. ASSUME Init PROVE RowsFresh /\ RowsBelow /\ RowsKept /\ CancelsFit
  BY <1>1 DEF Init, RowsFresh, RowsBelow, RowsKept, CancelsFit, AbsentRow, EndStored
<1> QED
  BY <1>1, TaskInvInit DEF RowsInv

LEMMA RowsInvNext == RowsInv /\ [Next]_vars => RowsInv'
<1> SUFFICES ASSUME RowsInv, [Next]_vars PROVE RowsInv'
  OBVIOUS
<1>1. TaskInv'
  BY TaskInvNext DEF RowsInv
<1> QED
  BY <1>1, RowsFreshStep, RowsBelowStep, RowsKeptStep, CancelsFitStep DEF RowsInv

(* The rows, the texts and the patches of cancel requests in every          *)
(* reachable state: ids are fresh when their row is inserted, no row is     *)
(* ahead of its task, the row of a task that stored its end holds all of it *)
(* and a patch holds the final text.                                        *)
THEOREM RowsInvHolds == Spec => []RowsInv
BY RowsInvInit, RowsInvNext, PTL DEF Spec

(* Whoever writes last, a run whose task announced its end keeps in its row *)
(* all it generated (the order of execute_run_loop, the cancel handler and  *)
(* the repairs of streams and create requests).                             *)
THEOREM OutputIsKept == Spec => []OutputKept
<1>1. RowsInv => OutputKept
  BY DEF RowsInv, RowsKept, OutputKept, EndStored
<1> QED
  BY <1>1, RowsInvHolds, PTL

-----------------------------------------------------------------------------
(* The ledger of the run that the rows show. *)
Entries == [r \in Runs |-> [st |-> row[r].st, text |-> row[r].text]]

(* Every step of the program is a step of the ledger or leaves it alone:    *)
(* the table is written by ten statements of five functions, and each of    *)
(* them inserts, settles, wipes or removes.                                 *)
LEMMA LedgerStep ==
  ASSUME RowsInv, [Next]_vars
  PROVE  [Ledger!Next]_<<Entries, erased>>
<1>0. row \in [Runs -> Row] /\ \A r \in Runs : row[r].st \in RowStatus /\ row[r].text \in Nat
  BY ConstantsAssumption DEF RowsInv, TaskInv, TypeOK, RowsOK, Row
<1>a. \A r \in Runs : Exists(r) <=> Ledger!Present(r)
  BY <1>0 DEF Exists, Ledger!Present, Ledger!Settled, RowStatus, Terminal
<1>1. CASE UNCHANGED <<row, erased>>
  BY <1>1 DEF Entries
<1>2. ASSUME NEW r \in Runs, NEW st \in Terminal, NEW why \in Cause, NEW txt \in 0..MaxText,
             SettlesRow(r, st, why, txt)
      PROVE  Ledger!Settle(r) \/ UNCHANGED <<Entries, erased>>
  <2>1. CASE Exists(r)
    <3>1. row' = [row EXCEPT ![r] = [st |-> st, text |-> txt, why |-> why]]
      BY <1>2, <2>1 DEF SettlesRow, Patched
    <3>2. Entries' = [Entries EXCEPT ![r] = [st |-> st, text |-> txt]]
      BY <1>0, <3>1 DEF Entries
    <3>3. st \in Ledger!Settled /\ UNCHANGED erased /\ txt >= Entries[r].text
      BY <1>0, <1>2 DEF SettlesRow, Ledger!Settled, Terminal, Entries
    <3> QED
      BY <1>a, <2>1, <3>2, <3>3 DEF Ledger!Settle, Entries
  <2>2. CASE ~Exists(r)
    BY <1>2, <2>2 DEF SettlesRow, Patched, Entries
  <2> QED
    BY <2>1, <2>2
<1>3. ASSUME NEW c \in Creators, InsertsRow(c)
      PROVE  \E r \in Runs : Ledger!Insert(r)
  <2>1. PICK r \in Runs : r = crun[c]
    BY <1>3 DEF InsertsRow
  <2>2. Ledger!Insert(r)
    BY <1>0, <1>3, <2>1 DEF InsertsRow, Ledger!Insert, Entries, NewRow
  <2> QED
    BY <2>2
<1>4. ASSUME NEW S \in SUBSET Runs, DeletesRows(S)
      PROVE  Ledger!Remove(S)
  BY <1>0, <1>a, <1>4 DEF DeletesRows, Ledger!Remove, Entries, DeletedRow
<1>5. ASSUME NEW r \in Runs, ErasesRow(r)
      PROVE  Ledger!Wipe(r)
  BY <1>0, <1>a, <1>5, ErasedRow DEF ErasesRow, Ledger!Wipe, Entries
<1>6. CASE \E r \in Runs, st \in Terminal, why \in Cause, txt \in 0..MaxText :
             SettlesRow(r, st, why, txt)
  <2>1. \E r \in Runs : Ledger!Settle(r) \/ UNCHANGED <<Entries, erased>>
    BY <1>2, <1>6
  <2> QED
    BY <2>1 DEF Ledger!Next
<1>7. CASE \E c \in Creators : InsertsRow(c)
  BY <1>3, <1>7 DEF Ledger!Next
<1>8. CASE \E S \in SUBSET Runs : DeletesRows(S)
  BY <1>4, <1>8 DEF Ledger!Next
<1>9. CASE \E r \in Runs : ErasesRow(r)
  BY <1>5, <1>9 DEF Ledger!Next
<1> QED
  BY <1>1, <1>6, <1>7, <1>8, <1>9, RowCases

(* The table of runs implements the ledger: a run is inserted once, settles *)
(* and never runs again, its text never shrinks unless its user erased it,  *)
(* and no deleted row comes back, whatever the requests, tasks and restarts *)
(* do in between.                                                           *)
THEOREM ImplementsLedger == Spec => LedgerSpec
<1>1. Init => Ledger!Init
  BY DEF Init, Ledger!Init, AbsentRow
<1>2. RowsInv /\ [Next]_vars => [Ledger!Next]_<<Entries, erased>>
  BY LedgerStep
<1> QED
  BY <1>1, <1>2, RowsInvHolds, PTL DEF Spec, LedgerSpec, Ledger!Spec, Entries

-----------------------------------------------------------------------------
(* What the clients that follow a run are told.                              *)

(* The queue after the generator took its head. *)
LEMMA TailShape ==
  ASSUME NEW q \in Seq(Event), q # <<>>
  PROVE  /\ Head(q) = q[1] /\ Head(q) \in Event
         /\ Tail(q) \in Seq(Event) /\ Len(Tail(q)) = Len(q) - 1 /\ Len(q) \in Nat \ {0}
         /\ \A i \in 1..(Len(q) - 1) : Tail(q)[i] = q[i + 1]
OBVIOUS

LEMMA TailLast ==
  ASSUME NEW q \in Seq(Event), Len(q) > 1
  PROVE  Tail(q) # <<>> /\ Tail(q)[Len(Tail(q))] = q[Len(q)]
<1>1. q # <<>>
  OBVIOUS
<1>2. PICK n \in Nat : n = Len(Tail(q))
  BY <1>1, TailShape
<1>3. n + 1 = Len(q) /\ n \in 1..(Len(q) - 1)
  BY <1>1, <1>2, TailShape
<1>4. Tail(q)[n] = q[n + 1]
  BY <1>1, <1>3, TailShape
<1>5. Tail(q) # <<>>
  BY <1>2, <1>3
<1> QED
  BY <1>2, <1>3, <1>4, <1>5

(* _enqueue: what is in the queue afterwards, and where. *)
LEMMA PushShape ==
  ASSUME NEW q \in Seq(Event), NEW e \in Event, Len(q) <= QueueSize
  PROVE  /\ Len(Push(q, e)) = IF Len(q) < QueueSize THEN Len(q) + 1 ELSE QueueSize
         /\ \A i \in 1..(Len(Push(q, e)) - 1) :
              \E j \in 1..Len(q) : Push(q, e)[i] = q[j]
<1>1. CASE Len(q) < QueueSize
  <2>1. /\ Push(q, e) = Append(q, e) /\ Len(Append(q, e)) = Len(q) + 1
        /\ Len(q) \in Nat
        /\ \A i \in 1..Len(q) : Append(q, e)[i] = q[i]
    BY <1>1 DEF Push
  <2> QED
    BY <1>1, <2>1
<1>2. CASE ~(Len(q) < QueueSize)
  <2>1. q # <<>> /\ Len(q) = QueueSize /\ QueueSize \in Nat /\ QueueSize >= 2
    BY <1>2, ConstantsAssumption
  <2>2. /\ Tail(q) \in Seq(Event) /\ Len(Tail(q)) = QueueSize - 1
        /\ \A i \in 1..(QueueSize - 1) : Tail(q)[i] = q[i + 1]
    BY <2>1, TailShape
  <2>3. /\ Push(q, e) = Append(Tail(q), e) /\ Len(Append(Tail(q), e)) = QueueSize
        /\ \A i \in 1..(QueueSize - 1) : Append(Tail(q), e)[i] = Tail(q)[i]
    BY <1>2, <2>1, <2>2 DEF Push
  <2>4. \A i \in 1..(QueueSize - 1) : i + 1 \in 1..Len(q) /\ Push(q, e)[i] = q[i + 1]
    BY <2>1, <2>2, <2>3
  <2> QED
    BY <1>2, <2>1, <2>3, <2>4
<1> QED
  BY <1>1, <1>2

-----------------------------------------------------------------------------
(* What a step does to one stream: nothing, the end of its connection, its  *)
(* opening, or a step of its generator.                                     *)
LEMMA StreamMoves ==
  ASSUME TaskInv, [Next]_vars, NEW s \in Streams
  PROVE  \/ /\ spc'[s] = spc[s] /\ srun'[s] = srun[s] /\ sread'[s] = sread[s]
            /\ view'[s] = view[s] /\ (s \in late' <=> s \in late)
         \/ /\ spc'[s] = "gone" /\ spc[s] # "idle" /\ srun'[s] = srun[s]
            /\ sread'[s] = sread[s] /\ queue'[s] = <<>>
         \/ \E r \in Runs : StreamOpen(s, r)
         \/ StreamStep(s)
<1> DEFINE Goal == \/ /\ spc'[s] = spc[s] /\ srun'[s] = srun[s] /\ sread'[s] = sread[s]
                      /\ view'[s] = view[s] /\ (s \in late' <=> s \in late)
                   \/ /\ spc'[s] = "gone" /\ spc[s] # "idle" /\ srun'[s] = srun[s]
                      /\ sread'[s] = sread[s] /\ queue'[s] = <<>>
                   \/ \E r \in Runs : StreamOpen(s, r)
                   \/ StreamStep(s)
<1>0. /\ spc \in [Streams -> {"idle", "read", "sent", "listen", "repair", "repaired",
                              "missing", "done", "error", "gone"}]
      /\ srun \in [Streams -> 0..MaxRuns] /\ sread \in [Streams -> Row]
      /\ view \in [Streams -> Nat] /\ queue \in [Streams -> Seq(Event)]
  BY DEF TaskInv, TypeOK, StreamsOK, QueuesOK
<1>1. ASSUME NEW r \in Runs, TaskStep(r) PROVE Goal
  BY <1>1, TaskFrame
<1>2. ASSUME NEW c \in Creators, CreateStep(c) PROVE Goal
  BY <1>2, CreateFrame
<1>3. ASSUME NEW t \in Streams, StreamStep(t), t # s PROVE Goal
  BY <1>0, <1>3 DEF StreamStep, StreamNotFound, StreamState, StreamAlreadyOver,
    StreamSubscribe, StreamFoundStale, StreamRepair, StreamRepaired, StreamRead
<1>4. ASSUME NEW k \in Cancellers, CancelStep(k) PROVE Goal
  BY <1>4, CancelFrame
<1>5. ASSUME UserStep PROVE Goal
  <2>1. ASSUME NEW t \in Streams, NEW r \in Runs, StreamOpen(t, r), t # s PROVE Goal
    BY <1>0, <2>1 DEF StreamOpen
  <2>2. ASSUME NEW t \in Streams, StreamLeave(t) PROVE Goal
    BY <1>0, <2>2 DEF StreamLeave
  <2>3. CASE UNCHANGED <<spc, srun, sread, view, late>>
    BY <2>3
  <2> QED
    BY <1>5, <2>1, <2>2, <2>3
    DEF UserStep, CancelRead, Answer, DeleteSession, DeleteMessage, EraseAnswer,
        handlerVars, streamVars
<1>6. ASSUME Restart PROVE Goal
  BY <1>0, <1>6 DEF Restart
<1>7. ASSUME UNCHANGED vars PROVE Goal
  BY <1>7, StutterFrame
<1> QED
  BY <1>1, <1>2, <1>3, <1>4, <1>5, <1>6, <1>7 DEF Next

(* The stream s listens to a run that is registered. *)
Follows(s) == spc[s] = "listen" /\ srun[s] \in local

(* The last event of a run reaches the queue of s, behind the row's text    *)
(* unless the row is gone.                                                  *)
Closes(s, txt, name) ==
  queue'[s] = Push(IF txt = NoRow THEN queue[s] ELSE Push(queue[s], Snapshot(txt)),
                   Signal(name))

(* What a step does to the queue of one stream. *)
LEMMA QueueMoves ==
  ASSUME TaskInv, [Next]_vars, NEW s \in Streams
  PROVE  \/ queue'[s] = queue[s]
         \/ queue'[s] = <<>> /\ spc'[s] # "listen"
         \/ StreamRead(s)
         \/ /\ Follows(s)
            /\ \/ Emit(srun[s]) /\ queue'[s] = Push(queue[s], Delta)
               \/ \E name \in {"asked", "resolved"} :
                    queue'[s] = Push(queue[s], Signal(name))
               \/ Announce(srun[s]) /\ Closes(s, stored[srun[s]], "done")
               \/ /\ \/ ErrorAnnounce(srun[s]) \/ HaltAnnounce(srun[s])
                     \/ \E k \in Cancellers : CancelAnnounce(k) /\ krun[k] = srun[s]
                  /\ \E txt \in 0..NoRow : Closes(s, txt, "error")
<1> DEFINE Goal == \/ queue'[s] = queue[s]
                   \/ queue'[s] = <<>> /\ spc'[s] # "listen"
                   \/ StreamRead(s)
                   \/ /\ Follows(s)
                      /\ \/ Emit(srun[s]) /\ queue'[s] = Push(queue[s], Delta)
                         \/ \E name \in {"asked", "resolved"} :
                              queue'[s] = Push(queue[s], Signal(name))
                         \/ Announce(srun[s]) /\ Closes(s, stored[srun[s]], "done")
                         \/ /\ \/ ErrorAnnounce(srun[s]) \/ HaltAnnounce(srun[s])
                               \/ \E k \in Cancellers : CancelAnnounce(k) /\ krun[k] = srun[s]
                            /\ \E txt \in 0..NoRow : Closes(s, txt, "error")
<1>0. /\ spc \in [Streams -> {"idle", "read", "sent", "listen", "repair", "repaired",
                              "missing", "done", "error", "gone"}]
      /\ queue \in [Streams -> Seq(Event)]
      /\ stored \in [Runs -> 0..NoRow] /\ ktext \in [Cancellers -> 0..NoRow]
  BY DEF TaskInv, TypeOK, StreamsOK, QueuesOK, TasksOK, CancellersOK
<1>1. ASSUME NEW r \in Runs, NEW e, Broadcast(r, e)
      PROVE  \/ queue'[s] = queue[s]
             \/ Follows(s) /\ srun[s] = r /\ queue'[s] = Push(queue[s], e)
  BY <1>1 DEF Broadcast, Subscribers, Follows
<1>2. ASSUME NEW r \in Runs, NEW txt, NEW name, BroadcastLast(r, txt, Signal(name))
      PROVE  \/ queue'[s] = queue[s]
             \/ Follows(s) /\ srun[s] = r /\ Closes(s, txt, name)
  BY <1>2 DEF BroadcastLast, Subscribers, Follows, Closes
<1>3. ASSUME NEW r \in Runs, TaskStep(r) PROVE Goal
  <2>1. CASE Emit(r)
    BY <1>1, <2>1 DEF Emit
  <2>2. CASE Ask(r)
    BY <1>1, <2>2 DEF Ask
  <2>3. CASE TakeAnswer(r) \/ AskTimeout(r) \/ InterruptAsk(r)
    BY <1>1, <2>3 DEF TakeAnswer, AskTimeout, InterruptAsk, Resolve
  <2>4. CASE Announce(r)
    BY <1>2, <2>4 DEF Announce
  <2>5. CASE ErrorAnnounce(r) \/ HaltAnnounce(r)
    <3>1. BroadcastLast(r, stored[r], Signal("error")) /\ stored[r] \in 0..NoRow
      BY <1>0, <2>5 DEF ErrorAnnounce, HaltAnnounce
    <3> QED
      BY <1>2, <2>5, <3>1
  <2>6. CASE Begin(r) \/ InterruptUnstarted(r) \/ Prepared(r) \/ StreamEnd(r) \/ SaveDone(r)
               \/ Fail(r) \/ Unwound(r)
             \/ DoneWrite(r) \/ ErrorWrite(r) \/ HaltWrite(r) \/ InterruptRunning(r)
             \/ InterruptHandler(r)
    BY <2>6 DEF Begin, InterruptUnstarted, Prepared, StreamEnd, SaveDone, Fail, Unwound, DoneWrite,
      ErrorWrite, HaltWrite, InterruptRunning, InterruptHandler
  <2> QED
    BY <1>3, <2>1, <2>2, <2>3, <2>4, <2>5, <2>6 DEF TaskStep
<1>4. ASSUME NEW c \in Creators, CreateStep(c) PROVE Goal
  BY <1>4, CreateFrame
<1>5. ASSUME NEW t \in Streams, StreamStep(t) PROVE Goal
  <2>1. CASE StreamRead(t)
    BY <1>0, <2>1 DEF StreamRead
  <2>2. CASE ~StreamRead(t)
    BY <1>5, <2>2, StreamFrame
  <2> QED
    BY <2>1, <2>2
<1>6. ASSUME NEW k \in Cancellers, CancelStep(k) PROVE Goal
  <2>1. CASE CancelAnnounce(k)
    <3>1. krun[k] \in Runs /\ ktext[k] \in 0..NoRow
      BY <1>0, <2>1 DEF CancelAnnounce, TaskInv, TypeOK, CancellersOK
    <3>2. UNCHANGED queue \/ BroadcastLast(krun[k], ktext[k], Signal("error"))
      BY <2>1 DEF CancelAnnounce
    <3>3. \/ queue'[s] = queue[s]
          \/ Follows(s) /\ srun[s] = krun[k] /\ Closes(s, ktext[k], "error")
      BY <1>2, <3>1, <3>2
    <3> QED
      BY <2>1, <3>1, <3>3
  <2>2. CASE ~CancelAnnounce(k)
    BY <1>6, <2>2, CancelFrame
  <2> QED
    BY <2>1, <2>2
<1>7. ASSUME UserStep PROVE Goal
  <2>1. ASSUME NEW t \in Streams, StreamLeave(t) PROVE Goal
    BY <1>0, <2>1 DEF StreamLeave
  <2>2. CASE UNCHANGED queue
    BY <2>2
  <2> QED
    BY <1>7, <2>1, <2>2
    DEF UserStep, StreamOpen, CancelRead, Answer, DeleteSession, DeleteMessage,
        EraseAnswer
<1>8. ASSUME Restart PROVE Goal
  BY <1>0, <1>8 DEF Restart
<1>9. ASSUME UNCHANGED vars PROVE Goal
  BY <1>9, StutterFrame
<1> QED
  BY <1>3, <1>4, <1>5, <1>6, <1>7, <1>8, <1>9 DEF Next

(* A task that has ended does nothing any more. *)
LEMMA EndedStays ==
  ASSUME TaskInv, [Next]_vars, NEW r \in Runs, pc[r] \in Ended
  PROVE  pc'[r] = pc[r]
<1>0. pc \in [Runs -> {"none"} \union Suspended \union Ended]
  BY DEF TaskInv, TypeOK, TasksOK
<1>1. ASSUME NEW q \in Runs, TaskStep(q) PROVE pc'[r] = pc[r]
  <2>1. pc[q] \in Suspended
    BY <1>1
       DEF TaskStep, Begin, InterruptUnstarted, Prepared, Emit, Ask, TakeAnswer, AskTimeout,
           StreamEnd,
      SaveDone, Fail, Unwound, DoneWrite, Announce, ErrorWrite, ErrorAnnounce,
      HaltWrite, HaltAnnounce, InterruptRunning, InterruptAsk, InterruptHandler, Goto,
      Suspended
  <2>2. q # r
    BY <2>1 DEF Suspended, Ended
  <2> QED
    BY <1>1, <2>2, TaskMoves
<1>2. ASSUME NEW c \in Creators, CreateStep(c) PROVE pc'[r] = pc[r]
  <2>1. CASE CreateRegister(c)
    BY <1>0, <2>1 DEF CreateRegister, Ended, TaskInv, FreshRuns, Minting
  <2>2. CASE ~CreateRegister(c)
    BY <1>2, <2>2, CreateFrame
  <2> QED
    BY <2>1, <2>2
<1>3. ASSUME Restart PROVE pc'[r] = pc[r]
  BY <1>0, <1>3 DEF Restart, Suspended, Ended
<1>4. CASE UNCHANGED pc
  BY <1>4
<1> QED
  BY <1>1, <1>2, <1>3, <1>4, StreamFrame, CancelFrame, UserFrame, StutterFrame DEF Next


(* A run leaves the registry by announcing its end, by being cut short, or  *)
(* with the process.                                                        *)
LEMMA LeaveMoves ==
  ASSUME TaskInv, [Next]_vars, NEW r \in Runs, r \in local, r \notin local'
  PROVE  \/ \E name \in {"done", "error"} : BroadcastLast(r, stored[r], Signal(name))
         \/ pc'[r] = "cut"
         \/ Restart
<1>0. pc \in [Runs -> {"none"} \union Suspended \union Ended]
  BY DEF TaskInv, TypeOK, TasksOK
<1>1. ASSUME NEW q \in Runs, TaskStep(q)
      PROVE  \/ \E name \in {"done", "error"} : BroadcastLast(r, stored[r], Signal(name))
             \/ pc'[r] = "cut"
  <2>1. CASE Announce(q) \/ ErrorAnnounce(q) \/ HaltAnnounce(q)
    <3>1. q = r
      BY <2>1 DEF Announce, ErrorAnnounce, HaltAnnounce, Pop
    <3> QED
      BY <2>1, <3>1 DEF Announce, ErrorAnnounce, HaltAnnounce
  <2>2. CASE InterruptHandler(q)
    BY <1>0, <2>2 DEF InterruptHandler, Pop, Goto
  <2>3. CASE ~(Announce(q) \/ ErrorAnnounce(q) \/ HaltAnnounce(q) \/ InterruptHandler(q))
    <3>1. UNCHANGED local
      BY <1>1, <2>3
         DEF TaskStep, Begin, InterruptUnstarted, Prepared, Emit, Ask, TakeAnswer, AskTimeout,
        StreamEnd, SaveDone, Fail, Unwound, DoneWrite, ErrorWrite, HaltWrite,
        InterruptRunning, InterruptAsk, Resolve, registryVars
    <3> QED
      BY <3>1
  <2> QED
    BY <2>1, <2>2, <2>3
<1>2. ASSUME NEW c \in Creators, CreateStep(c) PROVE FALSE
  BY <1>2, CreateFrame DEF CreateRegister
<1>3. CASE UNCHANGED local
  BY <1>3
<1> QED
  BY <1>1, <1>2, <1>3, StreamFrame, CancelFrame, UserFrame, StutterFrame DEF Next

LEMMA ClosesLast ==
  ASSUME TypeOK, NEW s \in Streams, NEW txt \in 0..NoRow, NEW name \in {"done", "error"},
         Closes(s, txt, name)
  PROVE  /\ queue'[s] \in Seq(Event) /\ queue'[s] # <<>>
         /\ queue'[s][Len(queue'[s])] = Signal(name)
<1> DEFINE With == IF txt = NoRow THEN queue[s] ELSE Push(queue[s], Snapshot(txt))
<1>1. With \in Seq(Event) /\ Len(With) <= QueueSize
  <2>1. queue[s] \in Seq(Event) /\ Len(queue[s]) <= QueueSize
    BY DEF TypeOK, QueuesOK
  <2>2. txt = NoRow \/ Snapshot(txt) \in Event
    BY EventTypes, ConstantsAssumption DEF NoRow
  <2> QED
    BY <2>1, <2>2, PushType
<1>2. Signal(name) \in Event
  BY EventTypes
<1>3. queue'[s] = Push(With, Signal(name))
  BY DEF Closes
<1> QED
  BY <1>1, <1>2, <1>3, PushType

LEMMA ListenersStep ==
  ASSUME TaskInv, ListenersTold, [Next]_vars
  PROVE  ListenersTold'
<1> SUFFICES ASSUME NEW s \in Streams, spc'[s] = "listen", s \notin late',
                    srun'[s] \notin local', pc'[srun'[s]] # "cut"
             PROVE  queue'[s] # <<>> /\ IsFinal(queue'[s][Len(queue'[s])])
  BY DEF ListenersTold, IsFinal
<1>0. TypeOK /\ RegistryTracksTasks /\ srun[s] \in 0..MaxRuns
      /\ late \subseteq Streams
      /\ spc \in [Streams -> {"idle", "read", "sent", "listen", "repair", "repaired",
                              "missing", "done", "error", "gone"}]
      /\ queue[s] \in Seq(Event) /\ Len(queue[s]) <= QueueSize
  BY DEF TaskInv, TypeOK, StreamsOK, QueuesOK
<1>1. CASE spc[s] = "listen" /\ srun'[s] = srun[s] /\ (s \notin late)
  <2>1. PICK r \in Runs : r = srun[s]
    BY <1>0, <1>1 DEF TypeOK, StreamsOK
  <2>2. CASE r \in local
    <3>1. ~Restart
      BY <1>1 DEF Restart
    <3>2. PICK name \in {"done", "error"} : BroadcastLast(r, stored[r], Signal(name))
      BY <1>1, <2>1, <2>2, <3>1, LeaveMoves
    <3>3. Closes(s, stored[r], name)
      BY <1>1, <2>1, <2>2, <3>2 DEF BroadcastLast, Subscribers, Closes
    <3>4. stored[r] \in 0..NoRow
      BY <1>0 DEF TypeOK, TasksOK
    <3> QED
      BY <1>0, <3>3, <3>4, ClosesLast DEF IsFinal, Signal
  <2>3. CASE r \notin local
    <3>1. pc[r] # "cut"
      <4>1. CASE pc[r] = "cut"
        <5>1. pc[r] \in Ended
          BY <4>1 DEF Ended
        <5>2. pc'[r] = pc[r]
          BY <4>1, <5>1, EndedStays
        <5> QED
          BY <1>1, <2>1, <4>1, <5>2
      <4> QED
        BY <4>1
    <3>2. /\ queue[s] # <<>>
          /\ IsFinal(queue[s][Len(queue[s])])
      BY <1>1, <2>1, <2>3, <3>1 DEF ListenersTold
    <3>3. CASE queue'[s] = queue[s]
      BY <3>2, <3>3
    <3>4. CASE StreamRead(s)
      <4>1. ~IsFinal(Head(queue[s])) /\ queue'[s] = Tail(queue[s])
        BY <1>0, <3>4 DEF StreamRead, IsFinal, TypeOK, StreamsOK, QueuesOK
      <4>2. Len(queue[s]) > 1
        BY <1>0, <3>2, <4>1
      <4>3. /\ Tail(queue[s]) # <<>>
            /\ Tail(queue[s])[Len(Tail(queue[s]))] = queue[s][Len(queue[s])]
        BY <1>0, <4>2, TailLast
      <4> QED
        BY <3>2, <4>1, <4>3
    <3> QED
      BY <1>1, <2>1, <2>3, <3>3, <3>4, QueueMoves DEF Follows
  <2> QED
    BY <2>2, <2>3
<1>2. CASE ~(spc[s] = "listen" /\ srun'[s] = srun[s] /\ (s \notin late))
  <2>1. StreamStep(s) \/ \E r \in Runs : StreamOpen(s, r)
    BY <1>2, StreamMoves
  <2>2. StreamSubscribe(s)
    BY <1>0, <1>2, <2>1 DEF StreamStep, StreamOpen, StreamNotFound, StreamState, StreamAlreadyOver,
      StreamFoundStale, StreamRepair, StreamRepaired, StreamRead
  <2>3. /\ srun[s] \in Runs
        /\ pc[srun[s]] \in Suspended
        /\ UNCHANGED <<srun, local>>
    BY <1>0, <2>2 DEF StreamSubscribe, WillTell, taskAndRegistry, registryVars, TypeOK, StreamsOK
  <2> QED
    BY <1>0, <2>3 DEF RegistryTracksTasks
<1> QED
  BY <1>1, <1>2

(* A client that subscribed while its run was registered has the end of it  *)
(* in its queue when the run leaves, whatever the queue has dropped: _pop   *)
(* follows the last broadcast, and a cancel handler's early one is behind   *)
(* it (RunRegistry.broadcast, _run_chat_in_background).                     *)
THEOREM ListenersAreTold == Spec => []ListenersTold
<1>1. Init => TaskInv /\ ListenersTold
  BY TaskInvInit DEF Init, ListenersTold
<1>2. TaskInv /\ ListenersTold /\ [Next]_vars => (TaskInv /\ ListenersTold)'
  BY TaskInvNext, ListenersStep
<1> QED
  BY <1>1, <1>2, PTL DEF Spec

-----------------------------------------------------------------------------
(* The row of a run has left "running", for good. *)
Landed(r) == row[r].st \notin {"absent", "running"}

(* The queue of s holds an event that ends its client's wait. *)
HoldsFinal(s) == \E i \in 1..Len(queue[s]) : IsFinal(queue[s][i])

(* Whoever is about to announce an end has stored it, and whoever heard of  *)
(* one, in an event or in the row it read, heard the truth.                 *)
EndsHeld ==
  /\ \A r \in Runs : pc[r] \in {"meta", "failed", "halted"} => Landed(r)
  /\ \A k \in Cancellers :
       /\ kpc[k] # "idle" => row[krun[k]].st # "absent"
       /\ kpc[k] = "announce" => Landed(krun[k])
  /\ \A s \in Streams :
       /\ spc[s] # "idle" => row[srun[s]].st # "absent"
       /\ spc[s] # "idle" /\ sread[s].st # "running" => Landed(srun[s])
       /\ spc[s] = "repaired" => sread[s].st # "running"
       /\ spc[s] \in {"idle", "read", "sent"} => queue[s] = <<>>
       /\ spc[s] \in {"done", "error"} \/ HoldsFinal(s) => Landed(srun[s])

LEMMA LandedStays ==
  ASSUME RowsInv, [Next]_vars, NEW r \in Runs
  PROVE  /\ Landed(r) => row'[r].st \notin {"absent", "running"}
         /\ row[r].st # "absent" => row'[r].st # "absent"
BY RowMoves DEF Landed

(* A write of update_run_row to a row that was once inserted. *)
LEMMA PatchedLands ==
  ASSUME row \in [Runs -> Row], NEW r \in Runs, NEW st \in Terminal, NEW why, NEW txt,
         row' = Patched(r, st, why, txt), row[r].st # "absent"
  PROVE  row'[r].st \notin {"absent", "running"}
BY DEF Patched, Exists, Terminal, Row, RowStatus

(* A task comes to where it announces an end by storing it. *)
LEMMA StoreMoves ==
  ASSUME TaskInv, [Next]_vars, NEW r \in Runs, pc'[r] \in {"meta", "failed", "halted"}
  PROVE  pc[r] = pc'[r] \/ DoneWrite(r) \/ ErrorWrite(r) \/ HaltWrite(r)
<1>0. pc \in [Runs -> {"none"} \union Suspended \union Ended]
  BY DEF TaskInv, TypeOK, TasksOK
<1>1. ASSUME NEW q \in Runs, TaskStep(q), ~DoneWrite(r), ~ErrorWrite(r), ~HaltWrite(r)
      PROVE  pc[r] = pc'[r]
  <2>1. CASE q # r
    BY <1>1, <2>1, TaskMoves
  <2>2. CASE q = r
    BY <1>0, <1>1, <2>2
       DEF TaskStep, Begin, InterruptUnstarted, Prepared, Emit, Ask, TakeAnswer, AskTimeout,
      StreamEnd, SaveDone, Fail, Unwound, Announce, ErrorAnnounce,
      HaltAnnounce, InterruptRunning, InterruptAsk, InterruptHandler, Goto
  <2> QED
    BY <2>1, <2>2
<1>2. ASSUME NEW c \in Creators, CreateStep(c) PROVE pc[r] = pc'[r]
  <2>1. CASE CreateRegister(c)
    BY <1>0, <2>1 DEF CreateRegister
  <2>2. CASE ~CreateRegister(c)
    BY <1>2, <2>2, CreateFrame
  <2> QED
    BY <2>1, <2>2
<1>3. CASE UNCHANGED pc
  BY <1>3
<1>4. ASSUME Restart PROVE pc[r] = pc'[r]
  BY <1>0, <1>4 DEF Restart
<1> QED
  BY <1>1, <1>2, <1>3, <1>4, StreamFrame, CancelFrame, UserFrame, StutterFrame DEF Next

LEMMA EventsFinal ==
  /\ ~IsFinal(Delta) /\ \A name \in {"asked", "resolved"} : ~IsFinal(Signal(name))
  /\ \A txt : ~IsFinal(Snapshot(txt))
BY DEF IsFinal, Delta, Signal, Snapshot

(* A final event is in a queue because it was there or its run had ended.   *)
LEMMA FinalMoves ==
  ASSUME RowsInv, EndsHeld, [Next]_vars, NEW s \in Streams,
         \E i \in 1..Len(queue'[s]) : IsFinal(queue'[s][i])
  PROVE  HoldsFinal(s) \/ (Follows(s) /\ Landed(srun[s]))
<1>0. TaskInv /\ TypeOK /\ queue[s] \in Seq(Event) /\ Len(queue[s]) <= QueueSize
  BY DEF RowsInv, TaskInv, TypeOK, QueuesOK
<1>1. CASE queue'[s] = queue[s]
  BY <1>1 DEF HoldsFinal
<1>2. CASE queue'[s] = <<>>
  BY <1>2
<1>3. CASE StreamRead(s)
  <2>1. queue[s] # <<>> /\ queue'[s] = Tail(queue[s])
    BY <1>0, <1>3 DEF StreamRead, TypeOK, QueuesOK
  <2>2. PICK i \in 1..(Len(queue[s]) - 1) : IsFinal(queue'[s][i])
    BY <1>0, <2>1, TailShape
  <2>3. queue'[s][i] = queue[s][i + 1] /\ i + 1 \in 1..Len(queue[s])
    BY <1>0, <2>1, TailShape
  <2> QED
    BY <2>2, <2>3 DEF HoldsFinal
<1>4. ASSUME Follows(s), NEW e \in Event, ~IsFinal(e), queue'[s] = Push(queue[s], e)
      PROVE  HoldsFinal(s)
  <2>1. PICK i \in 1..Len(queue'[s]) : IsFinal(queue'[s][i])
    OBVIOUS
  <2>2. Len(queue'[s]) \in Nat /\ queue'[s][Len(queue'[s])] = e
    <3>1. Push(queue[s], e) \in Seq(Event) /\ Push(queue[s], e)[Len(Push(queue[s], e))] = e
      BY <1>0, PushType
    <3> QED
      BY <1>4, <3>1
  <2>3. i \in 1..(Len(queue'[s]) - 1)
    BY <1>4, <2>1, <2>2
  <2>4. PICK j \in 1..Len(queue[s]) : queue'[s][i] = queue[s][j]
    BY <1>0, <1>4, <2>3, PushShape
  <2> QED
    BY <2>1, <2>4 DEF HoldsFinal
<1>5. CASE Emit(srun[s]) /\ Follows(s) /\ queue'[s] = Push(queue[s], Delta)
  <2>1. Delta \in Event
    BY <1>0, <1>5, EventTypes, ConstantsAssumption
    DEF Emit, Follows, TypeOK, TasksOK, StreamsOK, Delta, Event
  <2> QED
    BY <1>4, <1>5, <2>1, EventsFinal
<1>6. ASSUME NEW name \in {"asked", "resolved"}, Follows(s),
             queue'[s] = Push(queue[s], Signal(name))
      PROVE  HoldsFinal(s)
  BY <1>4, <1>6, EventsFinal, EventTypes
<1>7. ASSUME Announce(srun[s]) \/ ErrorAnnounce(srun[s]) \/ HaltAnnounce(srun[s]), Follows(s)
      PROVE  Landed(srun[s])
  <2>1. srun[s] \in Runs
    BY <1>0, <1>7 DEF Follows, TypeOK, StreamsOK
  <2>2. pc[srun[s]] \in {"meta", "failed", "halted"}
    BY <1>7 DEF Announce, ErrorAnnounce, HaltAnnounce, Goto
  <2> QED
    BY <2>1, <2>2 DEF EndsHeld
<1>8. ASSUME NEW k \in Cancellers, CancelAnnounce(k), krun[k] = srun[s]
      PROVE  Landed(srun[s])
  BY <1>8 DEF CancelAnnounce, EndsHeld
<1> QED
  BY <1>0, <1>1, <1>2, <1>3, <1>5, <1>6, <1>7, <1>8, QueueMoves

LEMMA EndsHeldStep ==
  ASSUME RowsInv, EndsHeld, [Next]_vars
  PROVE  EndsHeld'
<1>0. /\ TaskInv /\ TypeOK /\ RowsFresh
      /\ row \in [Runs -> Row]
  BY DEF RowsInv, TaskInv, TypeOK, RowsOK
<1>1. ASSUME NEW r \in Runs, pc'[r] \in {"meta", "failed", "halted"}
      PROVE  row'[r].st \notin {"absent", "running"}
  <2>1. CASE pc[r] = pc'[r]
    BY <1>1, <2>1, LandedStays DEF EndsHeld
  <2>2. CASE DoneWrite(r) \/ ErrorWrite(r) \/ HaltWrite(r)
    <3>1. row[r].st # "absent"
      BY <1>0, <2>2 DEF DoneWrite, ErrorWrite, HaltWrite, Goto, RowsFresh
    <3>2. \E why, txt : \E st \in Terminal : row' = Patched(r, st, why, txt)
      BY <2>2 DEF DoneWrite, ErrorWrite, HaltWrite, Terminal
    <3> QED
      BY <1>0, <3>1, <3>2, PatchedLands
  <2> QED
    BY <1>0, <1>1, <2>1, <2>2, StoreMoves
<1>2. ASSUME NEW k \in Cancellers, kpc'[k] # "idle"
      PROVE  row'[krun'[k]].st # "absent"
  <2>1. CASE kpc[k] # "idle"
    <3>1. krun'[k] = krun[k] /\ krun[k] \in Runs
      BY <1>0, <1>2, <2>1, CancelMoves DEF TypeOK, CancellersOK
    <3> QED
      BY <2>1, <3>1, LandedStays DEF EndsHeld
  <2>2. CASE kpc[k] = "idle"
    <3>1. CancelRead(k, krun'[k])
      BY <1>0, <1>2, <2>2, CancelMoves
    <3> QED
      BY <3>1 DEF CancelRead, Exists
  <2> QED
    BY <2>1, <2>2
<1>3. ASSUME NEW k \in Cancellers, kpc'[k] = "announce"
      PROVE  row'[krun'[k]].st \notin {"absent", "running"}
  <2>1. CASE kpc[k] = "announce" /\ krun'[k] = krun[k]
    <3>1. krun[k] \in Runs
      BY <1>0, <2>1 DEF TypeOK, CancellersOK
    <3> QED
      BY <2>1, <3>1, LandedStays DEF EndsHeld
  <2>2. CASE CancelWrite(k)
    <3>1. krun[k] \in Runs /\ krun'[k] = krun[k] /\ row[krun[k]].st # "absent"
      BY <1>0, <2>2 DEF CancelWrite, TypeOK, CancellersOK, EndsHeld
    <3>2. \E why, txt : \E st \in Terminal : row' = Patched(krun[k], st, why, txt)
      BY <2>2 DEF CancelWrite, Terminal
    <3> QED
      BY <1>0, <3>1, <3>2, PatchedLands
  <2> QED
    BY <1>0, <1>3, <2>1, <2>2, CancelMoves
<1>4. ASSUME NEW s \in Streams
      PROVE  /\ spc'[s] # "idle" => row'[srun'[s]].st # "absent"
             /\ spc'[s] # "idle" /\ sread'[s].st # "running"
                  => row'[srun'[s]].st \notin {"absent", "running"}
             /\ spc'[s] = "repaired" => sread'[s].st # "running"
             /\ spc'[s] \in {"idle", "read", "sent"} => queue'[s] = <<>>
             /\ spc'[s] \in {"done", "error"}
                  \/ (\E i \in 1..Len(queue'[s]) : IsFinal(queue'[s][i]))
                  => row'[srun'[s]].st \notin {"absent", "running"}
  <2> DEFINE FinalNext == \E i \in 1..Len(queue'[s]) : IsFinal(queue'[s][i])
             Goal == /\ spc'[s] # "idle" => row'[srun'[s]].st # "absent"
                     /\ spc'[s] # "idle" /\ sread'[s].st # "running"
                          => row'[srun'[s]].st \notin {"absent", "running"}
                     /\ spc'[s] = "repaired" => sread'[s].st # "running"
                     /\ spc'[s] \in {"idle", "read", "sent"} => queue'[s] = <<>>
                     /\ spc'[s] \in {"done", "error"} \/ FinalNext
                          => row'[srun'[s]].st \notin {"absent", "running"}
  <2>0. /\ spc \in [Streams -> {"idle", "read", "sent", "listen", "repair", "repaired",
                                "missing", "done", "error", "gone"}]
        /\ srun \in [Streams -> 0..MaxRuns] /\ sread \in [Streams -> Row]
        /\ spc[s] # "idle" => srun[s] \in Runs
    BY <1>0 DEF TypeOK, StreamsOK
  <2>1. spc[s] # "idle" => /\ row'[srun[s]].st # "absent"
                           /\ Landed(srun[s]) => row'[srun[s]].st \notin {"absent", "running"}
    BY <2>0, LandedStays DEF EndsHeld
  <2>2. FinalNext => HoldsFinal(s) \/ (Follows(s) /\ Landed(srun[s]))
    BY FinalMoves
  <2>3. HoldsFinal(s) => spc[s] # "idle" /\ Landed(srun[s])
    <3> SUFFICES ASSUME HoldsFinal(s) PROVE spc[s] # "idle" /\ Landed(srun[s])
      OBVIOUS
    <3>1. queue[s] # <<>>
      BY DEF HoldsFinal
    <3> QED
      BY <3>1 DEF EndsHeld
  <2>4. FinalNext => spc[s] # "idle" /\ Landed(srun[s])
    BY <2>2, <2>3 DEF Follows
  <2>5. CASE spc'[s] = spc[s] /\ srun'[s] = srun[s] /\ sread'[s] = sread[s]
    <3>1. ~Follows(s) /\ ~StreamRead(s) => queue'[s] \in {queue[s], <<>>}
      BY <1>0, QueueMoves
    <3>2. spc[s] \in {"idle", "read", "sent"} => ~Follows(s) /\ ~StreamRead(s)
      BY DEF Follows, StreamRead
    <3> QED
      BY <2>1, <2>4, <2>5, <3>1, <3>2 DEF EndsHeld
  <2>6. CASE spc'[s] = "gone" /\ spc[s] # "idle" /\ srun'[s] = srun[s]
             /\ sread'[s] = sread[s]
    BY <2>1, <2>4, <2>6 DEF EndsHeld
  <2>7. ASSUME NEW r \in Runs, StreamOpen(s, r) PROVE Goal
    <3>1. /\ spc[s] = "idle" /\ spc'[s] = "read" /\ srun'[s] = r /\ sread'[s] = row[r]
          /\ row[r].st # "absent" /\ UNCHANGED <<row, queue>>
      BY <2>0, <2>7 DEF StreamOpen
    <3> QED
      BY <2>4, <3>1 DEF EndsHeld
  <2>8. CASE StreamRepair(s)
    <3>1. /\ spc[s] = "repair" /\ spc'[s] = "repaired" /\ srun'[s] = srun[s]
          /\ sread'[s] = row'[srun[s]]
          /\ row' = Patched(srun[s], "error", "interrupted", row[srun[s]].text)
      BY <2>0, <2>8 DEF StreamRepair
    <3>2. row[srun[s]].st # "absent" /\ srun[s] \in Runs
      BY <2>0, <3>1 DEF EndsHeld
    <3>3. row'[srun[s]].st \notin {"absent", "running"}
      BY <1>0, <3>1, <3>2, PatchedLands DEF Terminal
    <3> QED
      BY <3>1, <3>3
  <2>9. CASE StreamRead(s)
    <3>1. /\ spc[s] = "listen" /\ spc'[s] \in {"listen", "done", "error"}
          /\ srun'[s] = srun[s] /\ sread'[s] = sread[s]
          /\ spc'[s] # "listen" => IsFinal(Head(queue[s]))
          /\ queue[s] # <<>>
      BY <2>0, <2>9 DEF StreamRead, IsFinal
    <3>2. Head(queue[s]) = queue[s][1] /\ 1 \in 1..Len(queue[s])
      BY <1>0, <3>1, TailShape DEF TypeOK, QueuesOK
    <3>3. spc'[s] # "listen" => HoldsFinal(s)
      BY <3>1, <3>2 DEF HoldsFinal
    <3> QED
      BY <2>1, <2>3, <2>4, <3>1, <3>3 DEF EndsHeld
  <2>10. CASE StreamNotFound(s) \/ StreamState(s) \/ StreamAlreadyOver(s)
              \/ StreamSubscribe(s) \/ StreamFoundStale(s) \/ StreamRepaired(s)
    <3>1. /\ spc[s] # "idle" /\ srun'[s] = srun[s] /\ sread'[s] = sread[s]
          /\ UNCHANGED queue
          /\ spc'[s] \notin {"idle", "read", "repaired"}
          /\ spc'[s] = "sent" => spc[s] = "read"
          /\ spc'[s] \in {"done", "error"} => sread[s].st \in Terminal \/ spc[s] = "repaired"
      BY <2>0, <2>10 DEF StreamNotFound, StreamState, StreamAlreadyOver,
        StreamSubscribe, StreamFoundStale, StreamRepaired
    <3>2. spc'[s] \in {"done", "error"} => Landed(srun[s])
      BY <3>1 DEF Terminal, EndsHeld
    <3> QED
      BY <2>1, <2>4, <3>1, <3>2 DEF EndsHeld
  <2> QED
    BY <1>0, <2>5, <2>6, <2>7, <2>8, <2>9, <2>10, StreamMoves DEF StreamStep
<1> QED
  BY <1>1, <1>2, <1>3, <1>4 DEF EndsHeld, Landed, HoldsFinal

(* The item before the one just put in is the one that was last. *)
LEMMA PushBehind ==
  ASSUME NEW q \in Seq(Event), NEW e \in Event, Len(q) <= QueueSize, q # <<>>
  PROVE  /\ Len(Push(q, e)) # 1
         /\ Push(q, e)[Len(Push(q, e)) - 1] = q[Len(q)]
<1>1. CASE Len(q) < QueueSize
  <2>1. PICK n \in Nat \ {0} : n = Len(q)
    BY TailShape
  <2>2. /\ Push(q, e) = Append(q, e) /\ Len(Append(q, e)) = n + 1
        /\ Append(q, e)[n] = q[n]
    BY <1>1, <2>1 DEF Push
  <2> QED
    BY <2>1, <2>2
<1>2. CASE ~(Len(q) < QueueSize)
  <2>1. PICK n \in Nat \ {0} : n = Len(Tail(q)) /\ Len(q) = n + 1
    BY <1>2, TailShape, ConstantsAssumption
  <2>2. Tail(q) \in Seq(Event) /\ Tail(q)[n] = q[n + 1]
    BY <2>1, TailShape
  <2>3. /\ Push(q, e) = Append(Tail(q), e) /\ Len(Append(Tail(q), e)) = n + 1
        /\ Append(Tail(q), e)[n] = Tail(q)[n]
    BY <1>2, <2>1, <2>2 DEF Push
  <2> QED
    BY <2>1, <2>2, <2>3
<1> QED
  BY <1>1, <1>2

(* What the last broadcast of a run leaves in a queue that had no "done". *)
LEMMA ClosesDone ==
  ASSUME TypeOK, NEW s \in Streams, NEW txt \in 0..NoRow, NEW name \in {"done", "error"},
         Closes(s, txt, name),
         \A j \in 1..Len(queue[s]) : queue[s][j].ev # "done",
         NEW i \in 1..Len(queue'[s]), queue'[s][i].ev = "done"
  PROVE  /\ name = "done"
         /\ i = Len(queue'[s])
         /\ txt # NoRow => i # 1 /\ queue'[s][i - 1] = Snapshot(txt)
<1> DEFINE With == IF txt = NoRow THEN queue[s] ELSE Push(queue[s], Snapshot(txt))
<1>1. queue[s] \in Seq(Event) /\ Len(queue[s]) <= QueueSize
  BY DEF TypeOK, QueuesOK
<1>2. txt # NoRow => Snapshot(txt) \in Event /\ Snapshot(txt).ev # "done"
  BY EventTypes, ConstantsAssumption DEF NoRow, Snapshot
<1>3. /\ With \in Seq(Event) /\ Len(With) <= QueueSize
      /\ txt # NoRow => With # <<>> /\ With[Len(With)] = Snapshot(txt)
  BY <1>1, <1>2, PushType
<1>4. ASSUME NEW j \in 1..Len(With) PROVE With[j].ev # "done"
  <2>1. CASE txt = NoRow
    BY <1>4, <2>1
  <2>2. CASE txt # NoRow /\ j = Len(With)
    BY <1>2, <1>3, <2>2
  <2>3. CASE txt # NoRow /\ j # Len(With)
    <3>1. j \in 1..(Len(Push(queue[s], Snapshot(txt))) - 1)
      BY <1>3, <1>4, <2>3
    <3>2. \E m \in 1..Len(queue[s]) : With[j] = queue[s][m]
      BY <1>1, <1>2, <2>3, <3>1, PushShape
    <3> QED
      BY <3>2
  <2> QED
    BY <2>1, <2>2, <2>3
<1>5. Signal(name) \in Event /\ Signal(name).ev = name
  BY EventTypes DEF Signal
<1>6. queue'[s] = Push(With, Signal(name))
  BY DEF Closes
<1>7. /\ queue'[s] \in Seq(Event) /\ queue'[s] # <<>>
      /\ queue'[s][Len(queue'[s])] = Signal(name)
  <2>1. LET p == Push(With, Signal(name))
        IN  p \in Seq(Event) /\ p # <<>> /\ p[Len(p)] = Signal(name)
    <3> HIDE DEF With
    <3> QED
      BY <1>3, <1>5, PushType
  <2> QED
    BY <1>6, <2>1
<1>8. \A m \in 1..(Len(queue'[s]) - 1) : queue'[s][m].ev # "done"
  <2> SUFFICES ASSUME NEW m \in 1..(Len(queue'[s]) - 1) PROVE queue'[s][m].ev # "done"
    OBVIOUS
  <2>1. \A x \in 1..(Len(Push(With, Signal(name))) - 1) :
          \E j \in 1..Len(With) : Push(With, Signal(name))[x] = With[j]
    <3> HIDE DEF With
    <3> QED
      BY <1>3, <1>5, PushShape
  <2>2. PICK j \in 1..Len(With) : queue'[s][m] = With[j]
    BY <1>6, <2>1
  <2> QED
    BY <1>4, <2>2
<1>9. i = Len(queue'[s])
  BY <1>7, <1>8
<1>10. name = "done"
  BY <1>5, <1>7, <1>9
<1>11. ASSUME txt # NoRow PROVE i # 1 /\ queue'[s][i - 1] = Snapshot(txt)
  <2>1. With # <<>> /\ With[Len(With)] = Snapshot(txt) /\ Len(With) \in Nat
    BY <1>3, <1>11
  <2>2. /\ Len(Push(With, Signal(name))) # 1
        /\ Push(With, Signal(name))[Len(Push(With, Signal(name))) - 1] = With[Len(With)]
    <3> HIDE DEF With
    <3> QED
      BY <1>3, <1>5, <2>1, PushBehind
  <2> QED
    BY <1>6, <1>9, <2>1, <2>2
<1> QED
  BY <1>9, <1>10, <1>11

LEMMA StoredMoves ==
  ASSUME TaskInv, [Next]_vars, NEW r \in Runs, pc[r] = "meta"
  PROVE  pc'[r] = "meta" => stored'[r] = stored[r]
<1>0. pc \in [Runs -> {"none"} \union Suspended \union Ended] /\ stored \in [Runs -> 0..NoRow]
  BY DEF TaskInv, TypeOK, TasksOK
<1>1. ASSUME NEW q \in Runs, TaskStep(q), pc'[r] = "meta" PROVE stored'[r] = stored[r]
  <2>1. CASE DoneWrite(q) \/ ErrorWrite(q) \/ HaltWrite(q)
    <3>1. pc[q] # "meta"
      BY <2>1 DEF DoneWrite, ErrorWrite, HaltWrite, Goto
    <3> QED
      BY <1>0, <2>1, <3>1 DEF DoneWrite, ErrorWrite, HaltWrite
  <2>2. CASE ~(DoneWrite(q) \/ ErrorWrite(q) \/ HaltWrite(q))
    BY <1>1, <2>2
       DEF TaskStep, Begin, InterruptUnstarted, Prepared, Emit, Ask, TakeAnswer, AskTimeout,
           StreamEnd,
      SaveDone, Fail, Unwound, Announce, ErrorAnnounce, HaltAnnounce, InterruptRunning,
      InterruptAsk, InterruptHandler
  <2> QED
    BY <2>1, <2>2
<1>2. CASE UNCHANGED stored
  BY <1>2
<1> QED
  BY <1>1, <1>2, CreateFrame, StreamFrame, CancelFrame, UserFrame, StutterFrame
  DEF Next, Restart

-----------------------------------------------------------------------------
(* A client that is told "done" has the whole text: the row it read at the  *)
(* start holds it, or the snapshot before the event does, which is in its   *)
(* queue just before it or was the last thing read.                         *)
DoneShown ==
  /\ \A r \in Runs : pc[r] = "meta" /\ Exists(r) => stored[r] = text[r]
  /\ \A s \in Streams :
       /\ spc[s] # "idle" /\ sread[s].st = "done" =>
            Over(srun[s]) /\ (srun[s] \in erased \/ sread[s].text = text[srun[s]])
       /\ spc[s] = "sent" /\ sread[s].st = "done" =>
            srun[s] \in erased \/ view[s] = text[srun[s]]
       /\ spc[s] = "done" => Over(srun[s])
       /\ \A i \in 1..Len(queue[s]) : spc[s] = "listen" /\ queue[s][i].ev = "done" =>
            /\ pc[srun[s]] = "finished"
            /\ i = Len(queue[s])
            /\ Exists(srun[s]) => IF i = 1 THEN view[s] = text[srun[s]]
                                  ELSE queue[s][i - 1] = Snapshot(text[srun[s]])

ClientsInv ==
  /\ RowsInv
  /\ EndsHeld
  /\ DoneShown
  /\ DoneViewComplete

(* A row that exists after a step existed before it, if its task had started. *)
LEMMA ExistsBefore ==
  ASSUME RowsInv, [Next]_vars, NEW r \in Runs, pc[r] # "none"
  PROVE  Exists(r)' => Exists(r)
BY RowMoves DEF RowsInv, RowsFresh

(* What the task has stored stays what its last write returned. *)
LEMMA StoredStep ==
  ASSUME RowsInv, DoneShown, [Next]_vars, NEW r \in Runs, pc'[r] = "meta", Exists(r)'
  PROVE  stored'[r] = text'[r]
<1>0. TaskInv /\ TypeOK
  BY DEF RowsInv, TaskInv
<1>1. CASE DoneWrite(r)
  <2>1. pc[r] # "none" /\ stored \in [Runs -> 0..NoRow]
    BY <1>0, <1>1 DEF DoneWrite, Goto, TypeOK, TasksOK
  <2>2. Exists(r)
    BY <2>1, ExistsBefore
  <2>3. stored'[r] = text[r] /\ UNCHANGED text
    BY <1>1, <2>1, <2>2 DEF DoneWrite, ReturnedText
  <2> QED
    BY <2>3
<1>2. CASE pc[r] = "meta"
  <2>1. Exists(r) /\ Over(r)
    BY <1>2, ExistsBefore DEF Over
  <2>2. text'[r] = text[r]
    BY <1>0, <2>1, TextMoves
  <2>3. stored'[r] = stored[r]
    BY <1>0, <1>2, StoredMoves
  <2> QED
    BY <1>2, <2>1, <2>2, <2>3 DEF DoneShown
<1>3. pc[r] = "meta" \/ DoneWrite(r)
  <2>1. pc[r] = pc'[r] \/ DoneWrite(r) \/ ErrorWrite(r) \/ HaltWrite(r)
    BY <1>0, StoreMoves
  <2>2. ErrorWrite(r) => pc'[r] = "failed"
    BY <1>0 DEF ErrorWrite, Goto, TypeOK, TasksOK
  <2>3. HaltWrite(r) => pc'[r] = "halted"
    BY <1>0 DEF HaltWrite, Goto, TypeOK, TasksOK
  <2> QED
    BY <2>1, <2>2, <2>3
<1> QED
  BY <1>1, <1>2, <1>3

(* Its own events: the "done" a queue holds comes from the task's end. *)
LEMMA DoneQueueStep ==
  ASSUME ClientsInv, [Next]_vars, NEW s \in Streams, spc'[s] = "listen",
         NEW i \in 1..Len(queue'[s]), queue'[s][i].ev = "done"
  PROVE  /\ pc'[srun'[s]] = "finished"
         /\ i = Len(queue'[s])
         /\ Exists(srun[s]) => IF i = 1 THEN view'[s] = text[srun[s]]
                               ELSE queue'[s][i - 1] = Snapshot(text[srun[s]])
         /\ srun'[s] = srun[s] /\ srun[s] \in Runs /\ Over(srun[s])
<1>0. /\ TaskInv /\ TypeOK /\ queue[s] \in Seq(Event) /\ Len(queue[s]) <= QueueSize
      /\ spc \in [Streams -> {"idle", "read", "sent", "listen", "repair", "repaired",
                              "missing", "done", "error", "gone"}]
      /\ view \in [Streams -> Nat] /\ DoneShown /\ RegistryTracksTasks
      /\ pc \in [Runs -> {"none"} \union Suspended \union Ended]
  BY DEF ClientsInv, RowsInv, TaskInv, TypeOK, QueuesOK, StreamsOK, TasksOK
<1>1. queue[s] # <<>> /\ spc[s] # "listen" => spc[s] \notin {"idle", "read", "sent"}
  BY DEF ClientsInv, EndsHeld
<1>2. spc[s] = "listen" /\ srun'[s] = srun[s] /\ (view'[s] = view[s] \/ StreamRead(s))
  <2>1. CASE StreamStep(s) /\ spc[s] # "listen"
    <3>1. StreamSubscribe(s)
      BY <1>0, <2>1 DEF StreamStep, StreamNotFound, StreamState, StreamAlreadyOver,
        StreamFoundStale, StreamRepair, StreamRepaired, StreamRead
    <3>2. queue'[s] = <<>>
      BY <3>1 DEF StreamSubscribe, ClientsInv, EndsHeld
    <3> QED
      BY <3>2
  <2>2. CASE StreamStep(s) /\ spc[s] = "listen"
    <3>1. StreamRead(s)
      BY <2>2 DEF StreamStep, StreamNotFound, StreamState, StreamAlreadyOver,
        StreamSubscribe, StreamFoundStale, StreamRepair, StreamRepaired
    <3> QED
      BY <2>2, <3>1 DEF StreamRead
  <2>3. ASSUME NEW r \in Runs, StreamOpen(s, r) PROVE FALSE
    BY <1>0, <2>3 DEF StreamOpen
  <2> QED
    BY <1>0, <2>1, <2>2, <2>3, StreamMoves
<1>3. PICK r \in Runs : r = srun[s]
  BY <1>0, <1>2 DEF TypeOK, StreamsOK
<1>4. ASSUME NEW j \in 1..Len(queue[s]), queue[s][j].ev = "done"
      PROVE  /\ pc[r] = "finished" /\ r \notin local /\ pc'[r] = "finished" /\ Over(r)
             /\ j = Len(queue[s])
             /\ Exists(r) => IF j = 1 THEN view[s] = text[r]
                             ELSE queue[s][j - 1] = Snapshot(text[r])
  <2>1. /\ pc[r] = "finished" /\ j = Len(queue[s])
        /\ Exists(r) => IF j = 1 THEN view[s] = text[r]
                        ELSE queue[s][j - 1] = Snapshot(text[r])
    BY <1>0, <1>2, <1>3, <1>4 DEF DoneShown
  <2>2. "finished" \in Ended /\ "finished" \notin Suspended
    BY DEF Ended, Suspended
  <2>3. pc'[r] = "finished" /\ r \notin local
    BY <1>0, <2>1, <2>2, EndedStays DEF RegistryTracksTasks
  <2> QED
    BY <2>1, <2>3 DEF Over
<1>5. CASE queue'[s] = queue[s] /\ ~StreamRead(s)
  BY <1>2, <1>3, <1>4, <1>5
<1>6. CASE StreamRead(s)
  <2>1. /\ queue[s] # <<>> /\ queue'[s] = Tail(queue[s])
        /\ view'[s] = Shown(view[s], Head(queue[s]))
    BY <1>0, <1>6 DEF StreamRead, TypeOK, QueuesOK
  <2>2. /\ i + 1 \in 1..Len(queue[s]) /\ queue'[s][i] = queue[s][i + 1]
        /\ Len(queue'[s]) = Len(queue[s]) - 1 /\ Len(queue[s]) \in Nat
    BY <1>0, <2>1, TailShape
  <2>3. /\ pc'[r] = "finished" /\ Over(r) /\ i + 1 = Len(queue[s])
        /\ Exists(r) => queue[s][i] = Snapshot(text[r])
    BY <1>4, <2>2
  <2>4. CASE i = 1
    <3>1. Exists(r) => view'[s] = Shown(view[s], Snapshot(text[r]))
      BY <1>0, <2>1, <2>3, <2>4, TailShape
    <3> QED
      BY <1>2, <1>3, <2>2, <2>3, <2>4, <3>1 DEF Shown, Snapshot
  <2>5. CASE i # 1
    <3>1. i - 1 \in 1..(Len(queue[s]) - 1) /\ i - 1 + 1 = i
      BY <2>2, <2>5
    <3>2. queue'[s][i - 1] = queue[s][i]
      BY <1>0, <2>1, <3>1, TailShape
    <3> QED
      BY <1>2, <1>3, <2>2, <2>3, <2>5, <3>2
  <2> QED
    BY <2>4, <2>5
<1>7. CASE Follows(s)
  <2>1. r \in local
    BY <1>3, <1>7 DEF Follows
  <2>2. \A j \in 1..Len(queue[s]) : queue[s][j].ev # "done"
    BY <1>4, <2>1
  <2>3. ASSUME NEW e \in Event, e.ev # "done", queue'[s] = Push(queue[s], e) PROVE FALSE
    <3>1. /\ Push(queue[s], e) \in Seq(Event)
          /\ Push(queue[s], e)[Len(Push(queue[s], e))] = e
      BY <1>0, PushType
    <3>2. i \in 1..(Len(queue'[s]) - 1)
      BY <2>3, <3>1
    <3>3. \A m \in 1..(Len(Push(queue[s], e)) - 1) :
            \E j \in 1..Len(queue[s]) : Push(queue[s], e)[m] = queue[s][j]
      BY <1>0, PushShape
    <3>4. PICK j \in 1..Len(queue[s]) : queue'[s][i] = queue[s][j]
      BY <2>3, <3>2, <3>3
    <3> QED
      BY <2>2, <2>3, <3>4
  <2>4. ASSUME NEW txt \in 0..NoRow, Closes(s, txt, "error") PROVE FALSE
    BY <1>0, <2>2, <2>4, ClosesDone
  <2>5. CASE Announce(r) /\ Closes(s, stored[r], "done")
    <3>1. stored[r] \in 0..NoRow /\ pc[r] = "meta" /\ pc'[r] = "finished"
      BY <1>0, <2>5 DEF Announce, Goto, TypeOK, TasksOK
    <3>2. /\ i = Len(queue'[s])
          /\ stored[r] # NoRow => i # 1 /\ queue'[s][i - 1] = Snapshot(stored[r])
      BY <1>0, <2>2, <2>5, <3>1, ClosesDone
    <3>3. Exists(r) => stored[r] = text[r] /\ text[r] # NoRow
      BY <1>0, <3>1, ConstantsAssumption DEF DoneShown, TypeOK, TasksOK, NoRow
    <3> QED
      BY <1>2, <1>3, <3>1, <3>2, <3>3 DEF Over
  <2>6. ASSUME NEW name \in {"asked", "resolved"}, queue'[s] = Push(queue[s], Signal(name))
        PROVE  FALSE
    <3>1. Signal(name) \in Event /\ Signal(name).ev # "done"
      BY EventTypes DEF Signal
    <3> QED
      BY <2>3, <2>6, <3>1
  <2>7. CASE Emit(r) /\ queue'[s] = Push(queue[s], Delta)
    <3>1. Delta \in Event /\ Delta.ev # "done"
      BY <1>0, <2>7, EventTypes, ConstantsAssumption DEF Emit, TypeOK, TasksOK, Delta
    <3> QED
      BY <2>3, <2>7, <3>1
  <2>8. CASE queue'[s] = queue[s]
    BY <2>2, <2>8
  <2>9. ~StreamRead(s) \/ StreamRead(s)
    OBVIOUS
  <2> QED
    BY <1>0, <1>3, <1>6, <2>4, <2>5, <2>6, <2>7, <2>8, <2>9, QueueMoves
<1>8. CASE queue'[s] = <<>>
  BY <1>8
<1> QED
  BY <1>0, <1>5, <1>6, <1>7, <1>8, QueueMoves

(* The rest of what one stream knows of its run. *)
LEMMA DoneViewStep ==
  ASSUME ClientsInv, [Next]_vars, NEW s \in Streams, NEW r \in Runs, srun'[s] = r,
         spc'[s] # "idle"
  PROVE  /\ sread'[s].st = "done" => Over(r)' /\ (r \in erased' \/ sread'[s].text = text'[r])
         /\ spc'[s] = "sent" /\ sread'[s].st = "done" => r \in erased' \/ view'[s] = text'[r]
         /\ spc'[s] = "done" => Over(r)'
         /\ spc'[s] = "done" /\ Exists(r)' /\ r \notin erased' => view'[s] = text'[r]
<1> DEFINE Goal ==
      /\ sread'[s].st = "done" => Over(r)' /\ (r \in erased' \/ sread'[s].text = text'[r])
      /\ spc'[s] = "sent" /\ sread'[s].st = "done" => r \in erased' \/ view'[s] = text'[r]
      /\ spc'[s] = "done" => Over(r)'
      /\ spc'[s] = "done" /\ Exists(r)' /\ r \notin erased' => view'[s] = text'[r]
<1>0. /\ RowsInv /\ TaskInv /\ TypeOK /\ DoneShown /\ DoneViewComplete
      /\ spc \in [Streams -> {"idle", "read", "sent", "listen", "repair", "repaired",
                              "missing", "done", "error", "gone"}]
      /\ srun \in [Streams -> 0..MaxRuns] /\ sread \in [Streams -> Row]
      /\ view \in [Streams -> Nat] /\ queue[s] \in Seq(Event)
  BY DEF ClientsInv, RowsInv, TaskInv, TypeOK, StreamsOK, QueuesOK
<1>1. /\ Over(r) => Over(r)' /\ text'[r] = text[r] /\ (Exists(r)' => Exists(r))
      /\ erased \subseteq erased'
  BY <1>0, TextMoves, ExistsBefore, RowMoves DEF Over
<1>2. ASSUME spc[s] # "idle", srun[s] = r
      PROVE  /\ sread[s].st = "done" => Over(r) /\ (r \in erased \/ sread[s].text = text[r])
             /\ spc[s] = "sent" /\ sread[s].st = "done" => r \in erased \/ view[s] = text[r]
             /\ spc[s] = "done" => Over(r)
             /\ spc[s] = "done" /\ Exists(r) /\ r \notin erased => view[s] = text[r]
  BY <1>0, <1>2 DEF DoneShown, DoneViewComplete
<1>3. CASE spc'[s] = spc[s] /\ srun'[s] = srun[s] /\ sread'[s] = sread[s] /\ view'[s] = view[s]
  BY <1>1, <1>2, <1>3
<1>4. CASE spc'[s] = "gone" /\ spc[s] # "idle" /\ srun'[s] = srun[s] /\ sread'[s] = sread[s]
  BY <1>1, <1>2, <1>4
<1>5. ASSUME NEW q \in Runs, StreamOpen(s, q) PROVE Goal
  <2>1. spc'[s] = "read" /\ q = r /\ sread'[s] = row[r]
    BY <1>0, <1>5 DEF StreamOpen
  <2>2. row[r].st = "done" => Over(r) /\ (r \in erased \/ row[r].text = text[r])
    BY <1>0 DEF RowsInv, RowsKept, Exists
  <2> QED
    BY <1>1, <2>1, <2>2
<1>6. CASE StreamNotFound(s) \/ StreamSubscribe(s) \/ StreamFoundStale(s) \/ StreamRepaired(s)
  <2>1. /\ spc[s] # "idle" /\ srun[s] = r /\ sread'[s] = sread[s]
        /\ spc'[s] \in {"missing", "listen", "repair", "error"}
    BY <1>0, <1>6 DEF StreamNotFound, StreamSubscribe, StreamFoundStale, StreamRepaired
  <2> QED
    BY <1>1, <1>2, <2>1
<1>7. CASE StreamState(s)
  <2>1. /\ spc[s] = "read" /\ srun[s] = r /\ sread'[s] = sread[s] /\ spc'[s] = "sent"
        /\ view'[s] \in {text[r], sread[s].text}
    BY <1>0, <1>7 DEF StreamState
  <2> QED
    BY <1>1, <1>2, <2>1
<1>8. CASE StreamAlreadyOver(s)
  <2>1. /\ spc[s] = "sent" /\ srun[s] = r /\ sread'[s] = sread[s] /\ view'[s] = view[s]
        /\ spc'[s] = IF sread[s].st = "done" THEN "done" ELSE "error"
    BY <1>0, <1>8 DEF StreamAlreadyOver
  <2> QED
    BY <1>1, <1>2, <2>1
<1>9. CASE StreamRepair(s)
  <2>1. /\ spc'[s] = "repaired" /\ srun[s] = r /\ sread'[s] = row'[r]
    BY <1>0, <1>9 DEF StreamRepair
  <2>2. RowsKept'
    BY <1>0, RowsKeptStep
  <2>3. row'[r].st = "done" => Over(r)' /\ (r \in erased' \/ row'[r].text = text'[r])
    BY <2>2 DEF RowsKept, Exists
  <2> QED
    BY <2>1, <2>3
<1>10. CASE StreamRead(s)
  <2>1. /\ spc[s] = "listen" /\ srun[s] = r /\ sread'[s] = sread[s] /\ queue[s] # <<>>
        /\ view'[s] = Shown(view[s], Head(queue[s]))
        /\ spc'[s] = IF IsFinal(Head(queue[s])) THEN Head(queue[s]).ev ELSE "listen"
    BY <1>0, <1>10 DEF StreamRead
  <2>2. /\ Head(queue[s]) = queue[s][1] /\ 1 \in 1..Len(queue[s])
    BY <1>0, <2>1, TailShape
  <2>3. ASSUME spc'[s] = "done"
        PROVE  Over(r) /\ (Exists(r) => view'[s] = text[r])
    <3>1. queue[s][1].ev = "done"
      BY <2>1, <2>2, <2>3
    <3>2. view'[s] = view[s]
      BY <2>1, <2>2, <3>1 DEF Shown
    <3>3. pc[r] = "finished" /\ (Exists(r) => view[s] = text[r])
      BY <1>0, <2>1, <2>2, <3>1 DEF DoneShown
    <3> QED
      BY <3>2, <3>3 DEF Over
  <2>4. spc'[s] # "sent"
    BY <2>1 DEF IsFinal
  <2> QED
    BY <1>1, <1>2, <2>1, <2>3, <2>4
<1> QED
  BY <1>0, <1>3, <1>4, <1>5, <1>6, <1>7, <1>8, <1>9, <1>10, StreamMoves DEF StreamStep

LEMMA ClientsStep ==
  ASSUME ClientsInv, [Next]_vars
  PROVE  DoneShown' /\ DoneViewComplete'
<1>0. RowsInv /\ TaskInv /\ DoneShown
  BY DEF ClientsInv, RowsInv
<1>1. TypeOK'
  BY <1>0, TaskInvNext DEF TaskInv
<1>2. ASSUME NEW r \in Runs, pc'[r] = "meta", Exists(r)' PROVE stored'[r] = text'[r]
  BY <1>0, <1>2, StoredStep
<1>3. ASSUME NEW s \in Streams, spc'[s] # "idle"
      PROVE  /\ sread'[s].st = "done" =>
                  /\ pc'[srun'[s]] \notin {"none", "start", "prepare", "stream", "ask"}
                  /\ srun'[s] \in erased' \/ sread'[s].text = text'[srun'[s]]
             /\ spc'[s] = "sent" /\ sread'[s].st = "done" =>
                  srun'[s] \in erased' \/ view'[s] = text'[srun'[s]]
             /\ spc'[s] = "done" =>
                  pc'[srun'[s]] \notin {"none", "start", "prepare", "stream", "ask"}
             /\ spc'[s] = "done" /\ row'[srun'[s]].st \notin {"absent", "deleted"}
                  /\ srun'[s] \notin erased' => view'[s] = text'[srun'[s]]
  <2>1. PICK r \in Runs : r = srun'[s]
    BY <1>1, <1>3 DEF TypeOK, StreamsOK
  <2> QED
    BY <1>3, <2>1, DoneViewStep DEF Over, Exists
<1>4. ASSUME NEW s \in Streams, NEW i \in 1..Len(queue'[s]), spc'[s] = "listen",
             queue'[s][i].ev = "done"
      PROVE  /\ pc'[srun'[s]] = "finished"
             /\ i = Len(queue'[s])
             /\ row'[srun'[s]].st \notin {"absent", "deleted"} =>
                  IF i = 1 THEN view'[s] = text'[srun'[s]]
                  ELSE queue'[s][i - 1] = Snapshot(text'[srun'[s]])
  <2>1. /\ pc'[srun'[s]] = "finished"
        /\ i = Len(queue'[s])
        /\ Exists(srun[s]) => IF i = 1 THEN view'[s] = text[srun[s]]
                              ELSE queue'[s][i - 1] = Snapshot(text[srun[s]])
        /\ srun'[s] = srun[s] /\ srun[s] \in Runs /\ Over(srun[s])
    BY <1>4, DoneQueueStep
  <2>2. PICK r \in Runs : r = srun[s]
    BY <2>1
  <2>3. Over(r) /\ text'[r] = text[r] /\ (Exists(r)' => Exists(r))
    BY <1>0, <2>1, <2>2, TextMoves, ExistsBefore DEF Over
  <2> QED
    BY <2>1, <2>2, <2>3 DEF Exists
<1>5. DoneShown'
  BY <1>2, <1>3, <1>4 DEF DoneShown, Over, Exists
<1>6. DoneViewComplete'
  BY <1>3 DEF DoneViewComplete, Exists
<1> QED
  BY <1>5, <1>6

(* The rows, the requests and the queues together, in every reachable state. *)
THEOREM ClientsInvHolds == Spec => []ClientsInv
<1>1. Init => ClientsInv
  <2>1. ASSUME Init PROVE EndsHeld /\ DoneShown /\ DoneViewComplete
    BY <2>1 DEF Init, EndsHeld, DoneShown, DoneViewComplete, HoldsFinal
  <2> QED
    BY <2>1, RowsInvInit DEF ClientsInv
<1>2. ClientsInv /\ [Next]_vars => ClientsInv'
  BY RowsInvNext, EndsHeldStep, ClientsStep DEF ClientsInv
<1> QED
  BY <1>1, <1>2, PTL DEF Spec

(* No client is told of an end that is not in the database, and one that is *)
(* told "done" shows the whole text, however late it joined, whatever its   *)
(* queue dropped and whoever else cancelled, deleted or restarted meanwhile *)
(* (execute_run_loop, cancel_chat_run, stream_chat_run, _enqueue).          *)
THEOREM ClientsToldTheTruth == Spec => []ToldTheTruth
<1>1. ClientsInv => ToldTheTruth
  BY DEF ClientsInv, EndsHeld, ToldTheTruth, AnnouncedOnlyIfStored, Landed, HoldsFinal
<1> QED
  BY <1>1, ClientsInvHolds, PTL
=============================================================================
