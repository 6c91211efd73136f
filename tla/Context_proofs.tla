---------------------------- MODULE Context_proofs ----------------------------
(* What holds of the context of a turn for every number of operations,        *)
(* memories, attachments, conversations and requests: the long-term memory,   *)
(* the attachments and the files of the tools, each on its own and beside the *)
(* other components that Context puts together.                               *)
EXTENDS Context, FiniteSetTheorems, SequenceTheorems, TLAPS

-----------------------------------------------------------------------------
(* Memory.                                                                    *)

Fields == {"kind", "pc", "seen", "todo", "doc", "then", "before", "open"}

(* Where an operation of each kind can be. *)
Working ==
  {"insert", "save", "ask", "persist", "get", "patch", "find", "drop", "index", "get project",
   "bind", "list", "consolidate", "gather", "summary", "sources", "candidates", "promote",
   "archive"}
Path(kind) ==
  CASE kind = "none" -> {"idle"}
    [] kind = "forget" -> {"session", "conversation", "unindex", "unbind", "done", "cut"}
    [] kind = "unbind" -> {"drop project", "done", "cut"}
    [] kind = "review" -> {"get promotion", "decide", "done", "cut"}
    [] kind = "recall" -> {"read", "query", "touch", "done", "cut"}
    [] OTHER -> Working \union {"done", "cut"}

OnPath(r) ==
  /\ DOMAIN r = Fields
  /\ r.pc \in Path(r.kind)
  /\ r.pc = "index" => r.then \in {"done", "gather", "sources"}
  /\ r.pc = "get promotion" => r.todo = {}
  /\ r.kind = "none" => r = Idle

(* Whose a memory is never changes, and a reading knows it. *)
SameOwner(r, s) == r.scope = s.scope /\ r.conv = s.conv /\ r.by = s.by
Known(f) ==
  \A i \in DOMAIN f :
    /\ i \in 1..used /\ f[i] \in RowType /\ f[i].says \subseteq told
    /\ i \in DOMAIN rows => SameOwner(f[i], rows[i])

(* What an operation works on it has read. *)
DropsSources(r) == r.pc = "sources" \/ (r.pc = "index" /\ r.then = "sources")
Holding(r) == r.pc \in {"patch", "summary", "promote", "archive"} \/ DropsSources(r)
Works(r) ==
  /\ r.todo \subseteq 1..used /\ r.before \subseteq 1..used
  /\ Holding(r) => r.todo \subseteq DOMAIN r.seen
  /\ r.pc = "archive" => DOMAIN r.doc \subseteq DOMAIN r.seen
  /\ r.pc = "index" => DOMAIN r.doc \subseteq 1..used
  /\ r.pc = "consolidate" => r.doc \in RowType /\ r.doc.by = 0
  /\ r.pc = "decide" => r.todo \subseteq DOMAIN promos

(* A compaction has memories before it, none of them locked when it read them; *)
(* once the summary is stored, each fact of theirs is in a memory newer than   *)
(* all of them, or somebody removed it there, or the summary left it out.      *)
Elsewhere(f, r) ==
  \/ f \in gone \union shed
  \/ \E j \in DOMAIN rows : f \in rows[j].says /\ \A i \in DOMAIN r.seen : i < j
Compacts(r) ==
  /\ r.pc = "summary" => DOMAIN r.seen # {}
  /\ r.pc = "summary" \/ DropsSources(r) => \A i \in r.todo : ~r.seen[i].locked
  /\ DropsSources(r) => \A i \in DOMAIN r.seen : \A f \in r.seen[i].says : Elsewhere(f, r)

(* What is to be forgotten and still there. *)
Clears(r) ==
  LET there == r.before \intersect DOMAIN rows
  IN /\ r.kind = "forget" =>
          /\ r.pc = "session" => \A i \in there : rows[i].scope = "session" \/ rows[i].conv
          /\ r.pc = "conversation" => \A i \in there : rows[i].conv
          /\ r.pc \in {"unindex", "unbind", "done"} => there = {}
     /\ r.kind = "unbind" =>
          /\ r.pc = "drop project" =>
               /\ \A i \in there : rows[i].scope = "project"
               /\ ~project => there = {}
          /\ r.pc = "done" => there = {}

(* A recall finds nothing that was deleted before. *)
Recalls(r) ==
  r.kind = "recall" =>
    /\ r.before \intersect DOMAIN rows = {}
    /\ r.before \intersect DOMAIN r.seen = {}
    /\ r.before \intersect r.todo = {}

OpOK(r) == OnPath(r) /\ Known(r.seen) /\ Works(r) /\ Compacts(r) /\ Clears(r) /\ Recalls(r)

(* Each copy of a proposal is the work of a review of its own, and a proposal *)
(* with a copy that does not say so was reviewed twice.                       *)
Finished(i) == {o \in Reviewers(i) : op[o].pc = "done"}
DecidedOf(i) ==
  /\ Cardinality(Copies(i)) <= Cardinality(Finished(i))
  /\ Copies(i) # {} => i \in DOMAIN promos
  /\ Copies(i) # {} /\ promos[i].st # "approved" => \E o, p \in Reviewers(i) : o # p
Decided == \A i \in Ids : DecidedOf(i)

MemoryInv ==
  /\ TypeOK /\ DOMAIN op = Ops
  /\ \A i \in DOMAIN rows : rows[i].says \subseteq told
  /\ \A o \in Ops : OpOK(op[o])
  /\ NothingErased /\ Decided

(* What every step does to memories: ids are new, a memory keeps its owner,   *)
(* a fact that leaves one was removed or is in a newer one, and a project     *)
(* goes with the memories that are its own.                                   *)
Progress ==
  /\ used' \in 0..MaxId /\ used <= used'
  /\ DOMAIN rows' \subseteq 1..used' /\ DOMAIN index' \subseteq 1..used'
  /\ \A i \in DOMAIN rows' : rows'[i] \in RowType /\ rows'[i].says \subseteq told'
  /\ \A i \in DOMAIN rows' : i <= used => i \in DOMAIN rows /\ SameOwner(rows'[i], rows[i])
  /\ gone \subseteq gone' /\ shed \subseteq shed' /\ told \subseteq told'
  /\ gone' \subseteq Facts /\ told' \subseteq Facts /\ shed' \subseteq told'
  /\ \A i \in DOMAIN rows : \A f \in rows[i].says :
       f \in gone' \union shed' \/ \E j \in DOMAIN rows' : i <= j /\ f \in rows'[j].says
  /\ \A f \in told' : f \in told \/ \E j \in DOMAIN rows' : f \in rows'[j].says
  /\ project' = project \/ \A i \in DOMAIN rows' : rows'[i].scope # "project"
  /\ DOMAIN promos \subseteq DOMAIN promos' /\ DOMAIN promos' \subseteq 1..used'
  /\ \A i \in DOMAIN promos' : promos'[i] \in PromotionType

(* Only a review makes copies and decides. *)
NoDecision ==
  /\ \A i \in DOMAIN rows' : i <= used \/ rows'[i].by = 0
  /\ \A i \in DOMAIN promos : promos'[i].st = promos[i].st

-----------------------------------------------------------------------------
(* What an operation has read and is to do stays right while others work.     *)
LEMMA KnownStays ==
  ASSUME NEW f, Known(f), Progress, TypeOK
  PROVE  Known(f)'
<1>1. ASSUME NEW i \in DOMAIN f
      PROVE  /\ i \in 1..used' /\ f[i] \in RowType /\ f[i].says \subseteq told'
             /\ i \in DOMAIN rows' => SameOwner(f[i], rows'[i])
  <2>1. i \in 1..used /\ f[i] \in RowType /\ f[i].says \subseteq told
        /\ (i \in DOMAIN rows => SameOwner(f[i], rows[i]))
    BY <1>1 DEF Known
  <2>2. i \in 1..used'
    BY <2>1 DEF Progress, TypeOK
  <2>3. i \in DOMAIN rows' => i \in DOMAIN rows /\ SameOwner(rows'[i], rows[i])
    BY <2>1 DEF Progress, TypeOK
  <2> QED
    BY <2>1, <2>2, <2>3 DEF Progress, SameOwner
<1> QED
  BY <1>1 DEF Known, SameOwner

LEMMA ElsewhereStays ==
  ASSUME NEW f, NEW r, Elsewhere(f, r), \A i \in DOMAIN r.seen : i \in Nat, Progress, TypeOK
  PROVE  Elsewhere(f, r)'
<1>1. CASE f \in gone \union shed
  BY <1>1 DEF Progress, Elsewhere
<1>2. ASSUME NEW j \in DOMAIN rows, f \in rows[j].says, \A i \in DOMAIN r.seen : i < j
      PROVE  Elsewhere(f, r)'
  <2>1. j \in Nat /\ \A k \in DOMAIN rows' : k \in Nat
    BY DEF TypeOK, Progress
  <2>2. f \in gone' \union shed' \/ \E k \in DOMAIN rows' : j <= k /\ f \in rows'[k].says
    BY <1>2 DEF Progress
  <2>3. ASSUME NEW k \in DOMAIN rows', j <= k
        PROVE  \A i \in DOMAIN r.seen : i < k
    BY <1>2, <2>1, <2>3
  <2> QED
    BY <2>2, <2>3 DEF Elsewhere
<1> QED
  BY <1>1, <1>2 DEF Elsewhere

LEMMA ClearsStays ==
  ASSUME NEW r, Clears(r), Progress, TypeOK, r.before \subseteq 1..used
  PROVE  Clears(r)'
<1>1. \A i \in r.before \intersect DOMAIN rows' :
        i \in r.before \intersect DOMAIN rows /\ rows'[i].scope = rows[i].scope
          /\ rows'[i].conv = rows[i].conv
  BY DEF Progress, TypeOK, SameOwner
<1>2. ~project' => ~project \/ \A i \in DOMAIN rows' : rows'[i].scope # "project"
  BY DEF Progress
<1>3. r.kind = "unbind" /\ r.pc = "drop project" =>
        /\ \A i \in r.before \intersect DOMAIN rows' : rows'[i].scope = "project"
        /\ ~project' => r.before \intersect DOMAIN rows' = {}
  BY <1>1, <1>2 DEF Clears
<1> QED
  BY <1>1, <1>3 DEF Clears

LEMMA OpStays ==
  ASSUME NEW r, OpOK(r), Progress, TypeOK
  PROVE  OpOK(r)'
<1>1. OnPath(r) /\ Known(r.seen) /\ Works(r) /\ Compacts(r) /\ Clears(r) /\ Recalls(r)
  BY DEF OpOK
<1>2. used \in Nat /\ used' \in Nat /\ used <= used'
  BY DEF Progress, TypeOK
<1>3. OnPath(r)'
  BY <1>1 DEF OnPath
<1>4. Known(r.seen)'
  BY <1>1, KnownStays
<1>5. Works(r)'
  <2>1. 1..used \subseteq 1..used'
    BY <1>2
  <2> QED
    BY <1>1, <2>1 DEF Works, Progress, Holding, DropsSources
<1>6. Compacts(r)'
  <2>1. \A i \in DOMAIN r.seen : i \in Nat
    BY <1>1 DEF Known
  <2>2. ASSUME NEW i \in DOMAIN r.seen, NEW f \in r.seen[i].says, DropsSources(r)
        PROVE  Elsewhere(f, r)'
    BY <1>1, <2>1, <2>2, ElsewhereStays DEF Compacts
  <2> QED
    BY <1>1, <2>2 DEF Compacts, DropsSources
<1>7. Clears(r)'
  BY <1>1, ClearsStays DEF Works
<1>8. Recalls(r)'
  BY <1>1, <1>2 DEF Recalls, Progress, TypeOK, Works
<1> QED
  BY <1>3, <1>4, <1>5, <1>6, <1>7, <1>8 DEF OpOK

LEMMA OpIs ==
  ASSUME NEW r, NEW p, r = op'[p], OpOK(r)'
  PROVE  OpOK(op[p])'
<1>1. OnPath(op[p])'
  BY DEF OpOK, OnPath
<1>2. Known(op[p].seen)'
  BY DEF OpOK, Known
<1>3. Works(op[p])'
  BY DEF OpOK, Works, Holding, DropsSources
<1>4. Compacts(op[p])'
  BY DEF OpOK, Compacts, DropsSources, Elsewhere
<1>5. Clears(op[p])'
  BY DEF OpOK, Clears
<1>6. Recalls(op[p])'
  BY DEF OpOK, Recalls
<1> QED
  BY <1>1, <1>2, <1>3, <1>4, <1>5, <1>6 DEF OpOK

-----------------------------------------------------------------------------
(* At first nothing has happened.                                             *)
LEMMA MemoryStarts == Init => MemoryInv
<1> SUFFICES ASSUME Init
             PROVE  MemoryInv
  OBVIOUS
<1>1. PICK s \in Starts : rows = s.rows /\ bound = s.bound /\ promos = s.promos
  BY DEF Init
<1>2. PICK n \in 0..MaxId : s.rows \in [1..n -> {r \in RowType : r.by = 0}]
  BY MemoryAssumption
<1>3. /\ index = [i \in DOMAIN rows |-> Document(rows[i])] /\ used = Cardinality(DOMAIN rows)
           /\ op = [o \in Ops |-> Idle]
      /\ told = Says(rows, DOMAIN rows) /\ gone = {} /\ shed = {}
  BY DEF Init
<1>4. /\ DOMAIN rows = 1..n /\ n \in Nat /\ MaxId \in Nat
      /\ \A i \in DOMAIN rows : rows[i] \in RowType /\ rows[i].by = 0
  BY <1>1, <1>2, MemoryAssumption
<1>5. used = n
  <2>1. 1 \in Int /\ n \in Int
    BY <1>4
  <2>2. Cardinality(1..n) = IF 1 > n THEN 0 ELSE n - 1 + 1
    BY <2>1, FS_Interval
  <2> QED
    BY <1>3, <1>4, <2>2
<1>6. \A i \in DOMAIN rows : rows[i].says \subseteq told /\ rows[i].says \subseteq Facts
  BY <1>3, <1>4 DEF Says, RowType
<1>7. told \subseteq Facts /\ \A f \in told : \E i \in DOMAIN rows : f \in rows[i].says
  BY <1>3, <1>6 DEF Says
<1>8. DOMAIN promos \subseteq 1..used /\ \A i \in DOMAIN promos : promos[i] \in PromotionType
  BY <1>1, <1>4, <1>5, MemoryAssumption
<1>9. TypeOK
  BY <1>3, <1>4, <1>5, <1>7, <1>8 DEF TypeOK, Idle
<1>10. \A o \in Ops : op[o] = Idle
  BY <1>3
<1>11. OpOK(Idle)
  <2>1. DOMAIN Idle.seen = {} /\ DOMAIN Idle.doc = {}
    BY DEF Idle, Nothing
  <2>2. OnPath(Idle)
    BY DEF Idle, OnPath, Path, Fields
  <2>3. Known(Idle.seen)
    BY <2>1 DEF Known
  <2>4. Works(Idle) /\ Compacts(Idle) /\ Clears(Idle) /\ Recalls(Idle)
    BY DEF Idle, Works, Holding, DropsSources, Compacts, Clears, Recalls
  <2> QED
    BY <2>2, <2>3, <2>4 DEF OpOK
<1>12. NothingErased
  BY <1>7 DEF NothingErased, Says
<1>13. Decided
  <2>1. ASSUME NEW i \in Ids
        PROVE  Copies(i) = {} /\ Finished(i) = {}
    BY <1>4, <1>10, <2>1 DEF Copies, Finished, Reviewers, Idle, Ids
  <2>2. Cardinality({}) = 0
    BY FS_EmptySet
  <2> QED
    BY <2>1, <2>2 DEF Decided, DecidedOf
<1> QED
  BY <1>3, <1>6, <1>9, <1>10, <1>11, <1>12, <1>13 DEF MemoryInv

-----------------------------------------------------------------------------
(* The memories after a step.                                                 *)
LEMMA StepTaken ==
  ASSUME MemoryInv, NEW o \in Ops, Progress, DOMAIN op' = Ops, \A p \in Ops \ {o} : op'[p] = op[p],
         NEW r, r = op'[o], OpOK(r)', Decided'
  PROVE  MemoryInv'
<1>1. ASSUME NEW p \in Ops
      PROVE  OpOK(op[p])'
  <2>1. CASE p = o
    BY <2>1, OpIs
  <2>2. CASE p # o
    <3>1. PICK q : q = op[p]
      OBVIOUS
    <3>2. OpOK(q)
      BY <3>1 DEF MemoryInv
    <3>3. OpOK(q)'
      BY <3>2, OpStays DEF MemoryInv
    <3>4. q = op'[p]
      BY <2>2, <3>1
    <3> QED
      BY <3>3, <3>4, OpIs
  <2> QED
    BY <2>1, <2>2
<1>2. \A p \in Ops : op'[p].todo \subseteq 1..used'
  BY <1>1 DEF OpOK, Works
<1>3. used' \in Nat /\ MaxId \in Nat /\ used' <= MaxId
  BY MemoryAssumption DEF Progress
<1>4. TypeOK'
  BY <1>2, <1>3 DEF TypeOK, Progress, Ids
<1>5. NothingErased'
  <2>1. ASSUME NEW f \in told
        PROVE  f \in gone' \union shed' \/ \E j \in DOMAIN rows' : f \in rows'[j].says
    <3>1. f \in gone \union shed \/ \E j \in DOMAIN rows : f \in rows[j].says
      BY DEF MemoryInv, NothingErased, Says
    <3> QED
      BY <3>1 DEF Progress
  <2> QED
    BY <2>1 DEF Progress, NothingErased, Says
<1>6. \A i \in DOMAIN rows' : rows'[i].says \subseteq told'
  BY DEF Progress
<1> QED
  BY <1>1, <1>4, <1>5, <1>6 DEF MemoryInv

LEMMA CopiesCount ==
  ASSUME MemoryInv, NEW i
  PROVE  /\ IsFiniteSet(Copies(i)) /\ Cardinality(Copies(i)) \in Nat
         /\ IsFiniteSet(Finished(i)) /\ Cardinality(Finished(i)) \in Nat
         /\ IsFiniteSet(Finished(i)') /\ Cardinality(Finished(i)') \in Nat
<1>1. Finished(i) \subseteq Ops /\ Finished(i)' \subseteq Ops
  BY DEF Finished, Reviewers
<1>2. IsFiniteSet(1..used)
  BY FS_Interval DEF MemoryInv, TypeOK
<1>3. Copies(i) \subseteq 1..used
  BY DEF Copies, MemoryInv, TypeOK
<1>4. IsFiniteSet(Copies(i)) /\ IsFiniteSet(Finished(i)) /\ IsFiniteSet(Finished(i)')
  BY <1>1, <1>2, <1>3, FS_Subset, MemoryAssumption
<1> QED
  BY <1>4, FS_CardinalityType

(* Reviews stay reviews, and what is done stays done. *)
LEMMA ReviewersStay ==
  ASSUME NEW o \in Ops, \A p \in Ops \ {o} : op'[p] = op[p], op[o].pc # "done",
         op[o].kind = "review" /\ op[o].todo # {} =>
           op'[o].kind = op[o].kind /\ op'[o].open = op[o].open /\ op'[o].todo = op[o].todo,
         NEW i
  PROVE  Reviewers(i) \subseteq Reviewers(i)' /\ Finished(i) \subseteq Finished(i)'
<1>1. ASSUME NEW p \in Reviewers(i)
      PROVE  p \in Reviewers(i)' /\ (op[p].pc = "done" => op'[p].pc = "done")
  <2>1. p \in Ops /\ op[p].kind = "review" /\ op[p].open /\ i \in op[p].todo
    BY <1>1 DEF Reviewers
  <2> QED
    BY <2>1 DEF Reviewers
<1> QED
  BY <1>1 DEF Finished

(* A proposal of which no copy is made and whose state stays. *)
LEMMA DecidedStays ==
  ASSUME MemoryInv, NEW i \in Ids, Reviewers(i) \subseteq Reviewers(i)',
         Finished(i) \subseteq Finished(i)',
         Copies(i)' \subseteq Copies(i), DOMAIN promos \subseteq DOMAIN promos',
         i \in DOMAIN promos => promos'[i].st = promos[i].st
  PROVE  DecidedOf(i)'
<1>1. DecidedOf(i)
  BY DEF MemoryInv, Decided
<1>2. /\ Cardinality(Copies(i)) \in Nat /\ Cardinality(Finished(i)) \in Nat
      /\ IsFiniteSet(Copies(i)) /\ IsFiniteSet(Finished(i)') /\ Cardinality(Finished(i)') \in Nat
  BY CopiesCount
<1>3. /\ Cardinality(Copies(i)') <= Cardinality(Copies(i)) /\ Cardinality(Copies(i)') \in Nat
      /\ Cardinality(Finished(i)) <= Cardinality(Finished(i)')
  BY <1>2, FS_Subset, FS_CardinalityType
<1>4. Cardinality(Copies(i)') <= Cardinality(Finished(i)')
  BY <1>1, <1>2, <1>3 DEF DecidedOf
<1> QED
  BY <1>1, <1>4 DEF DecidedOf

LEMMA NothingDecided ==
  ASSUME MemoryInv, NEW o \in Ops, Progress, NoDecision, \A p \in Ops \ {o} : op'[p] = op[p],
         op[o].pc # "done",
         op[o].kind = "review" /\ op[o].todo # {} =>
           op'[o].kind = op[o].kind /\ op'[o].open = op[o].open /\ op'[o].todo = op[o].todo
  PROVE  Decided'
<1>1. ASSUME NEW i \in Ids
      PROVE  DecidedOf(i)'
  <2>1. Reviewers(i) \subseteq Reviewers(i)' /\ Finished(i) \subseteq Finished(i)'
    BY ReviewersStay
  <2>2. Copies(i)' \subseteq Copies(i)
    <3>1. i # 0 /\ used \in Nat /\ \A j \in DOMAIN rows' : j \in Nat
      BY MemoryAssumption DEF Ids, MemoryInv, TypeOK, Progress
    <3> QED
      BY <3>1 DEF Copies, Progress, NoDecision, SameOwner
  <2> QED
    BY <2>1, <2>2, DecidedStays DEF Progress, NoDecision
<1> QED
  BY <1>1 DEF Decided

-----------------------------------------------------------------------------
(* How an operation moves on.                                                 *)
Alone(o) == DOMAIN op' = Ops /\ \A p \in Ops \ {o} : op'[p] = op[p]
SameTask(o) == op'[o].kind = op[o].kind /\ op'[o].before = op[o].before /\ op'[o].open = op[o].open

LEMMA GotoIs ==
  ASSUME DOMAIN op = Ops, NEW o \in Ops, DOMAIN op[o] = Fields, NEW step, Goto(o, step)
  PROVE  /\ Alone(o) /\ SameTask(o) /\ DOMAIN op'[o] = Fields /\ op'[o].pc = step
         /\ op'[o].todo = op[o].todo /\ op'[o].then = op[o].then
         /\ op'[o].seen = (IF step \in Over THEN Nothing ELSE op[o].seen)
         /\ op'[o].doc = (IF step \in Over THEN Nothing ELSE op[o].doc)
BY DEF Goto, Fields, Alone, SameTask

LEMMA HoldIs ==
  ASSUME DOMAIN op = Ops, NEW o \in Ops, DOMAIN op[o] = Fields, NEW step, NEW f, NEW S,
         Hold(o, step, f, S)
  PROVE  /\ Alone(o) /\ SameTask(o) /\ DOMAIN op'[o] = Fields /\ op'[o].pc = step
         /\ op'[o].todo = S /\ op'[o].seen = f /\ op'[o].doc = op[o].doc /\ op'[o].then = op[o].then
BY DEF Hold, Fields, Alone, SameTask

LEMMA ThenIs ==
  ASSUME DOMAIN op = Ops, NEW o \in Ops, DOMAIN op[o] = Fields, NEW doc, NEW next, NEW todo,
         Then(o, doc, next, todo)
  PROVE  /\ Alone(o) /\ SameTask(o) /\ DOMAIN op'[o] = Fields
         /\ op'[o].pc = (IF op[o].kind \in Indexed THEN "index" ELSE next)
         /\ op'[o].todo = todo /\ op'[o].then = next
         /\ op'[o].seen = (IF next = "sources" THEN op[o].seen ELSE Nothing)
         /\ op'[o].pc = "index" => op'[o].doc = doc
BY DEF Then, Fields, Alone, SameTask

-----------------------------------------------------------------------------
(* What a step does to the memories.                                          *)
LEMMA RowsStay ==
  ASSUME MemoryInv, UNCHANGED <<rows, used, project, told, gone, shed>>,
         DOMAIN index' \subseteq 1..used,
         DOMAIN promos \subseteq DOMAIN promos', DOMAIN promos' \subseteq 1..used,
         \A i \in DOMAIN promos' : promos'[i] \in PromotionType
  PROVE  Progress
<1>1. used \in 0..MaxId /\ DOMAIN rows \subseteq 1..used
  BY DEF MemoryInv, TypeOK
<1>2. used <= used /\ \A i \in DOMAIN rows : i <= i
  BY <1>1
<1>3. \A i \in DOMAIN rows : rows[i] \in RowType /\ rows[i].says \subseteq told
  BY DEF MemoryInv, TypeOK
<1>4. gone \subseteq Facts /\ told \subseteq Facts /\ shed \subseteq told
  BY DEF MemoryInv, TypeOK
<1> QED
  BY <1>1, <1>2, <1>3, <1>4 DEF Progress, SameOwner

LEMMA RowAdded ==
  ASSUME MemoryInv, NEW row \in RowType, Insert(row), UNCHANGED <<index, promos, project>>,
         gone' = gone, shed \subseteq shed', shed' \subseteq told'
  PROVE  /\ Progress /\ used' = used + 1
         /\ Fresh \in DOMAIN rows' /\ rows'[Fresh] = row /\ Fresh \notin 1..used
         /\ DOMAIN rows' = DOMAIN rows \union {Fresh}
         /\ row.by = 0 => NoDecision
<1>1. /\ used < MaxId /\ used' = used + 1 /\ told' = told \union row.says /\ Fresh = used + 1
      /\ DOMAIN rows' = DOMAIN rows \union {Fresh}
      /\ \A i \in DOMAIN rows' : rows'[i] = IF i = Fresh THEN row ELSE rows[i]
  BY DEF Insert, Fresh
<1>2. used \in Nat /\ MaxId \in Nat /\ DOMAIN rows \subseteq 1..used
  BY MemoryAssumption DEF MemoryInv, TypeOK
<1>3. Fresh \notin 1..used /\ Fresh \in 1..used' /\ used' \in 0..MaxId /\ used <= used'
      /\ 1..used \subseteq 1..used'
  BY <1>1, <1>2
<1>4. /\ Fresh \in DOMAIN rows' /\ rows'[Fresh] = row
      /\ \A i \in DOMAIN rows : i \in DOMAIN rows' /\ rows'[i] = rows[i]
  BY <1>1, <1>2, <1>3
<1>5. row.says \subseteq Facts
  BY DEF RowType
<1>6. \A i \in DOMAIN rows' : rows'[i] \in RowType /\ rows'[i].says \subseteq told'
  BY <1>1 DEF MemoryInv, TypeOK
<1>7. \A i \in DOMAIN rows' : i <= used => i \in DOMAIN rows /\ SameOwner(rows'[i], rows[i])
  BY <1>1, <1>2 DEF SameOwner
<1>8. \A i \in DOMAIN rows : i <= i
  BY <1>2
<1>9. Progress
  <2>1. DOMAIN rows' \subseteq 1..used' /\ DOMAIN index' \subseteq 1..used'
    BY <1>1, <1>2, <1>3 DEF MemoryInv, TypeOK
  <2>2. gone' \subseteq Facts /\ told' \subseteq Facts /\ shed' \subseteq told'
    BY <1>1, <1>5 DEF MemoryInv, TypeOK
  <2>3. \A f \in told' : f \in told \/ \E j \in DOMAIN rows' : f \in rows'[j].says
    BY <1>1, <1>4
  <2>4. DOMAIN promos' \subseteq 1..used' /\ \A i \in DOMAIN promos' : promos'[i] \in PromotionType
    BY <1>3 DEF MemoryInv, TypeOK
  <2>5. \A i \in DOMAIN rows : \A f \in rows[i].says :
          f \in gone' \union shed' \/ \E j \in DOMAIN rows' : i <= j /\ f \in rows'[j].says
    BY <1>4, <1>8
  <2> QED
    BY <1>1, <1>3, <1>6, <1>7, <2>1, <2>2, <2>3, <2>4, <2>5 DEF Progress
<1>10. row.by = 0 => NoDecision
  BY <1>1, <1>2 DEF NoDecision
<1> QED
  BY <1>1, <1>3, <1>4, <1>9, <1>10

LEMMA RowInserted ==
  ASSUME MemoryInv, NEW row \in RowType, Insert(row), UNCHANGED <<index, promos, project, gone,
         shed>>
  PROVE  /\ Progress /\ used' = used + 1
         /\ Fresh \in DOMAIN rows' /\ rows'[Fresh] = row /\ Fresh \notin 1..used
         /\ DOMAIN rows' = DOMAIN rows \union {Fresh}
         /\ row.by = 0 => NoDecision
<1>1. shed' \subseteq told'
  BY DEF Insert, MemoryInv, TypeOK
<1> QED
  BY <1>1, RowAdded

(* A row is written over: what it loses was removed, or is overlooked. *)
LEMMA RowWritten ==
  ASSUME MemoryInv, NEW i, NEW row \in RowType, WriteRow(i, row), UNCHANGED <<index, promos,
         project, used>>,
         SameOwner(row, rows[i]),
         gone \subseteq gone', shed \subseteq shed', told \subseteq told',
         gone' \subseteq Facts, shed' \subseteq told', told' \subseteq told \union row.says,
         row.says \subseteq told', rows[i].says \ row.says \subseteq gone' \union shed'
  PROVE  /\ Progress /\ NoDecision /\ DOMAIN rows' = DOMAIN rows
         /\ \A j \in DOMAIN rows : rows'[j] = IF j = i THEN row ELSE rows[j]
<1>1. i \in DOMAIN rows /\ DOMAIN rows' = DOMAIN rows
      /\ \A j \in DOMAIN rows : rows'[j] = IF j = i THEN row ELSE rows[j]
  BY DEF WriteRow
<1>2. used \in 0..MaxId /\ DOMAIN rows \subseteq 1..used /\ \A j \in DOMAIN rows : j <= j
  BY DEF MemoryInv, TypeOK
<1>3. used <= used'
  BY <1>2
<1>4. told' \subseteq Facts
  BY DEF RowType, MemoryInv, TypeOK
<1>5. \A j \in DOMAIN rows' : rows'[j] \in RowType /\ rows'[j].says \subseteq told'
  BY <1>1 DEF MemoryInv, TypeOK
<1>6. \A j \in DOMAIN rows' : j \in DOMAIN rows /\ SameOwner(rows'[j], rows[j])
  BY <1>1 DEF SameOwner
<1>7. \A j \in DOMAIN rows : \A f \in rows[j].says :
        f \in gone' \union shed' \/ \E k \in DOMAIN rows' : j <= k /\ f \in rows'[k].says
  <2>1. ASSUME NEW j \in DOMAIN rows, NEW f \in rows[j].says
        PROVE  f \in gone' \union shed' \/ f \in rows'[j].says
    BY <1>1
  <2> QED
    BY <1>1, <1>2, <2>1
<1>8. \A f \in told' : f \in told \/ \E j \in DOMAIN rows' : f \in rows'[j].says
  BY <1>1
<1>9. Progress
  BY <1>1, <1>2, <1>3, <1>4, <1>5, <1>6, <1>7, <1>8 DEF Progress, MemoryInv, TypeOK
<1>10. NoDecision
  BY <1>1, <1>2 DEF NoDecision
<1> QED
  BY <1>1, <1>9, <1>10

(* Rows are dropped. *)
LEMMA RowsAreDropped ==
  ASSUME MemoryInv, NEW S, rows' = Without(rows, S), UNCHANGED <<index, promos, used, told>>,
         project' = project \/ \A i \in DOMAIN rows \ S : rows[i].scope # "project",
         gone \subseteq gone', shed \subseteq shed', gone' \subseteq Facts, shed' \subseteq told,
         \A i \in S \intersect DOMAIN rows : \A f \in rows[i].says :
           f \in gone' \union shed' \/ \E j \in DOMAIN rows \ S : i <= j /\ f \in rows[j].says
  PROVE  Progress /\ NoDecision /\ DOMAIN rows' = DOMAIN rows \ S
<1>1. DOMAIN rows' = DOMAIN rows \ S /\ \A j \in DOMAIN rows' : rows'[j] = rows[j]
  BY DEF Without
<1>2. used \in 0..MaxId /\ DOMAIN rows \subseteq 1..used /\ \A j \in DOMAIN rows : j <= j
  BY DEF MemoryInv, TypeOK
<1>3. used <= used' /\ told' \subseteq Facts
  BY <1>2 DEF MemoryInv, TypeOK
<1>4. \A j \in DOMAIN rows' : rows'[j] \in RowType /\ rows'[j].says \subseteq told'
  BY <1>1 DEF MemoryInv, TypeOK
<1>5. \A j \in DOMAIN rows' : j \in DOMAIN rows /\ SameOwner(rows'[j], rows[j])
  BY <1>1 DEF SameOwner
<1>6. \A j \in DOMAIN rows : \A f \in rows[j].says :
        f \in gone' \union shed' \/ \E k \in DOMAIN rows' : j <= k /\ f \in rows'[k].says
  <2>1. ASSUME NEW j \in DOMAIN rows, NEW f \in rows[j].says, j \in S, f \notin gone' \union shed'
        PROVE  \E k \in DOMAIN rows' : j <= k /\ f \in rows'[k].says
    BY <1>1, <2>1
  <2>2. ASSUME NEW j \in DOMAIN rows, NEW f \in rows[j].says, j \notin S
        PROVE  j \in DOMAIN rows' /\ j <= j /\ f \in rows'[j].says
    BY <1>1, <1>2, <2>2
  <2> QED
    BY <2>1, <2>2
<1>7. Progress
  <2>1. DOMAIN rows' \subseteq 1..used' /\ DOMAIN index' \subseteq 1..used'
    BY <1>1, <1>2 DEF MemoryInv, TypeOK
  <2>2. project' = project \/ \A i \in DOMAIN rows' : rows'[i].scope # "project"
    BY <1>1
  <2> QED
    BY <1>1, <1>2, <1>3, <1>4, <1>5, <1>6, <2>1, <2>2 DEF Progress, MemoryInv, TypeOK
<1>8. NoDecision
  BY <1>1, <1>2 DEF NoDecision
<1> QED
  BY <1>1, <1>7, <1>8

-----------------------------------------------------------------------------
(* Handlers, tools and extractions that neither forget, review nor recall.    *)
LEMMA OpHas ==
  ASSUME MemoryInv, NEW o \in Ops
  PROVE  /\ DOMAIN op = Ops /\ DOMAIN op[o] = Fields /\ op[o].pc \in Path(op[o].kind)
         /\ OnPath(op[o]) /\ Known(op[o].seen) /\ Works(op[o]) /\ Compacts(op[o])
         /\ Clears(op[o]) /\ Recalls(op[o])
BY DEF MemoryInv, OpOK, OnPath

LEMMA WorkerKind ==
  ASSUME MemoryInv, NEW o \in Ops, op[o].pc \in Working
  PROVE  /\ op[o].kind \notin {"none", "forget", "unbind", "review", "recall"}
         /\ Path(op[o].kind) = Working \union {"done", "cut"}
<1>1. op[o].pc \in Path(op[o].kind)
  BY OpHas
<1>2. op[o].kind \notin {"none", "forget", "unbind", "review", "recall"}
  BY <1>1 DEF Path, Working
<1> QED
  BY <1>2 DEF Path

LEMMA WorkGoesOn ==
  ASSUME MemoryInv, NEW o \in Ops, op[o].pc \in Working, Progress, NoDecision, Alone(o),
         SameTask(o),
         DOMAIN op'[o] = Fields, op'[o].pc \in Working \union {"done", "cut"},
         op'[o].pc = "index" => op'[o].then \in {"done", "gather", "sources"},
         Known(op[o].seen)', Works(op[o])', Compacts(op[o])'
  PROVE  MemoryInv'
<1>1. PICK r : r = op'[o]
  OBVIOUS
<1>2. /\ r.kind \notin {"none", "forget", "unbind", "review", "recall"}
      /\ Path(r.kind) = Working \union {"done", "cut"} /\ r.kind = op[o].kind
  BY <1>1, WorkerKind DEF SameTask
<1>3. OnPath(r)'
  <2>1. r.pc # "get promotion"
    BY <1>1 DEF Working
  <2> QED
    BY <1>1, <1>2, <2>1 DEF OnPath
<1>4. Clears(r)' /\ Recalls(r)'
  BY <1>2 DEF Clears, Recalls
<1>5. Known(r.seen)'
  BY <1>1 DEF Known
<1>6. Works(r)'
  BY <1>1 DEF Works, Holding, DropsSources
<1>7. Compacts(r)'
  BY <1>1 DEF Compacts, DropsSources, Elsewhere
<1>8. OpOK(r)'
  BY <1>3, <1>4, <1>5, <1>6, <1>7 DEF OpOK
<1>9. Decided'
  BY <1>1, <1>2, NothingDecided, WorkerKind DEF Alone, Working
<1> QED
  BY <1>1, <1>8, <1>9, StepTaken DEF Alone

(* Where nothing that was read is worked on. *)
LEMMA WorkRests ==
  ASSUME MemoryInv, NEW o \in Ops, op[o].pc \in Working, Progress, NoDecision, Alone(o),
         SameTask(o),
         DOMAIN op'[o] = Fields,
         \/ op'[o].pc \in {"done", "cut", "ask", "drop", "bind", "gather", "candidates"}
         \/ /\ op'[o].pc = "index" /\ op'[o].then \in {"done", "gather"}
            /\ DOMAIN op'[o].doc \subseteq 1..used',
         op'[o].todo \subseteq 1..used', op'[o].seen \in {Nothing, op[o].seen}
  PROVE  MemoryInv'
<1>1. Known(op[o].seen)'
  <2>1. PICK f : f = op'[o].seen
    OBVIOUS
  <2>2. Known(f)
    <3>1. CASE f = Nothing
      BY <3>1 DEF Known, Nothing
    <3>2. CASE f = op[o].seen
      BY <3>2, OpHas
    <3> QED
      BY <2>1, <3>1, <3>2
  <2>3. Known(f)'
    BY <2>2, KnownStays DEF MemoryInv
  <2> QED
    BY <2>1, <2>3 DEF Known
<1>2. op[o].before \subseteq 1..used'
  BY OpHas DEF Works, Progress, MemoryInv, TypeOK
<1>3. Works(op[o])' /\ Compacts(op[o])'
  BY <1>2 DEF Works, Compacts, Holding, DropsSources, SameTask
<1> QED
  BY <1>1, <1>3, WorkGoesOn DEF Working

(* What changes no memory, no index and no proposal. *)
LEMMA NothingStored ==
  ASSUME MemoryInv, UNCHANGED <<rows, index, used, promos, project, told, gone, shed>>
  PROVE  Progress /\ NoDecision
<1>1. Progress
  BY RowsStay DEF MemoryInv, TypeOK
<1>2. NoDecision
  BY DEF NoDecision, MemoryInv, TypeOK
<1> QED
  BY <1>1, <1>2

-----------------------------------------------------------------------------
(* Each action.                                                               *)

(* An operation begins. *)
LEMMA BeginStep ==
  ASSUME MemoryInv, NEW o \in Ops, Begin(o)
  PROVE  MemoryInv'
<1>1. PICK kind \in KindsOf[o] :
        op' = [op EXCEPT ![o] = [Idle EXCEPT !.kind = kind, !.pc = First[kind],
                                             !.before = Scoped(kind)]]
  BY DEF Begin
<1>2. op[o].pc = "idle"
        /\ UNCHANGED <<rows, index, used, promos, project, bound, told, gone, shed>>
  BY DEF Begin
<1>3. kind \in Indexed \union Plain
  BY MemoryAssumption
<1>4. PICK r : r = op'[o]
  OBVIOUS
<1>5. /\ r.kind = kind /\ r.pc = First[kind] /\ r.before = Scoped(kind) /\ r.seen = Nothing
      /\ r.todo = {}
      /\ r.doc = Nothing /\ r.then = "done" /\ r.open = FALSE /\ DOMAIN r = Fields
  BY <1>1, <1>4, OpHas DEF Idle, Fields
<1>6. DOMAIN op' = Ops /\ \A p \in Ops \ {o} : op'[p] = op[p]
  BY <1>1, OpHas
<1>7. /\ First[kind] \in Path(kind) \ {"done", "conversation", "unindex", "unbind", "decide",
                                       "index", "archive", "consolidate", "summary", "sources",
                                       "promote", "patch"}
      /\ kind # "none" /\ (kind = "forget" => First[kind] = "session")
      /\ kind = "unbind" => First[kind] = "drop project"
  <2>1. /\ First["create"] = "insert" /\ First["save"] = "save" /\ First["persist"] = "persist"
        /\ First["patch"] = "get" /\ First["delete"] = "drop" /\ First["remove"] = "find"
        /\ First["bind"] = "get project" /\ First["remember"] = "list" /\ First["extract"] = "list"
        /\ First["promote"] = "list" /\ First["propose"] = "list" /\ First["compact"] = "gather"
    BY DEF First
  <2>2. /\ First["forget"] = "session" /\ First["unbind"] = "drop project"
        /\ First["review"] = "get promotion" /\ First["recall"] = "read"
    BY DEF First
  <2>3. kind \in {"create", "save", "persist", "patch", "delete", "remove", "bind", "remember",
                  "extract", "promote", "propose", "compact", "forget", "unbind", "review",
                  "recall"}
    BY <1>3 DEF Indexed, Plain, Promoting
  <2>4. CASE kind \in {"forget", "unbind", "review", "recall"}
    BY <2>2, <2>4 DEF Path
  <2>5. CASE kind \notin {"forget", "unbind", "review", "recall"}
    <3>1. First[kind] \in {"insert", "save", "persist", "get", "drop", "find", "get project",
                           "list", "gather"}
      BY <2>1, <2>3, <2>5
    <3>2. Path(kind) = Working \union {"done", "cut"}
      BY <2>3, <2>5 DEF Path
    <3> QED
      BY <2>3, <2>5, <3>1, <3>2 DEF Working
  <2> QED
    BY <2>4, <2>5
<1>9. OnPath(r)
  BY <1>5, <1>7 DEF OnPath
<1>10. Known(r.seen)
  BY <1>5 DEF Known, Nothing
<1>11. Works(r) /\ Compacts(r)
  <2>1. Scoped(kind) \subseteq 1..used
    BY DEF Scoped, MemoryInv, TypeOK
  <2> QED
    BY <1>5, <1>7, <2>1 DEF Works, Compacts, Holding, DropsSources
<1>12. Clears(r)
  BY <1>5, <1>7 DEF Clears, Scoped
<1>13. Recalls(r)
  BY <1>5 DEF Recalls, Scoped, Nothing
<1>14. Progress /\ NoDecision
  BY <1>2, NothingStored
<1>15. OpOK(r)'
  BY <1>9, <1>10, <1>11, <1>12, <1>13, <1>14, OpStays DEF OpOK, MemoryInv
<1>16. Decided'
  <2>1. op[o].kind # "review"
    BY <1>2, OpHas DEF Path
  <2> QED
    BY <1>2, <1>6, <1>14, <2>1, NothingDecided
<1> QED
  BY <1>4, <1>6, <1>14, <1>15, <1>16, StepTaken

(* It is cut off. *)
LEMMA CutStep ==
  ASSUME MemoryInv, NEW o \in Ops, Cut(o)
  PROVE  MemoryInv'
<1>1. /\ op[o].pc \notin {"idle", "done", "cut"} /\ Goto(o, "cut")
      /\ UNCHANGED <<rows, index, used, promos, project, told, gone, shed>>
  BY DEF Cut, Over
<1>2. /\ Alone(o) /\ SameTask(o) /\ DOMAIN op'[o] = Fields /\ op'[o].pc = "cut"
      /\ op'[o].todo = op[o].todo /\ op'[o].then = op[o].then /\ op'[o].seen = Nothing
      /\ op'[o].doc = Nothing
  BY <1>1, GotoIs, OpHas DEF Over
<1>3. PICK r : r = op'[o]
  OBVIOUS
<1>4. Progress /\ NoDecision
  BY <1>1, NothingStored
<1>5. r.kind = op[o].kind /\ r.kind # "none" /\ "cut" \in Path(r.kind)
  BY <1>1, <1>2, <1>3, OpHas DEF Path, SameTask
<1>6. OnPath(r) /\ Known(r.seen)
  BY <1>2, <1>3, <1>5 DEF OnPath, Known, Nothing
<1>7. Works(r) /\ Compacts(r) /\ Clears(r)
  BY <1>2, <1>3, OpHas DEF Works, Compacts, Clears, Holding, DropsSources, SameTask
<1>8. Recalls(r)
  BY <1>2, <1>3, OpHas DEF Recalls, SameTask, Nothing
<1>9. OpOK(r)'
  BY <1>4, <1>6, <1>7, <1>8, OpStays DEF OpOK, MemoryInv
<1>10. Decided'
  BY <1>1, <1>2, <1>4, NothingDecided DEF Alone, SameTask
<1> QED
  BY <1>2, <1>3, <1>4, <1>9, <1>10, StepTaken DEF Alone

(* The index is told. *)
LEMMA UpdateIndexStep ==
  ASSUME MemoryInv, NEW o \in Ops, UpdateIndex(o)
  PROVE  MemoryInv'
<1> DEFINE doc == op[o].doc
           up == {i \in DOMAIN doc : doc[i].st # "none"}
<1>1. /\ op[o].pc = "index" /\ Goto(o, op[o].then)
      /\ index' \in {index, [i \in (DOMAIN index \ DOMAIN doc) \union up |->
                               IF i \in up THEN Document(doc[i]) ELSE index[i]]}
      /\ UNCHANGED <<rows, used, promos, project, told, gone, shed>>
  BY DEF UpdateIndex
<1>2. /\ op[o].then \in {"done", "gather", "sources"} /\ DOMAIN doc \subseteq 1..used
      /\ op[o].todo \subseteq 1..used
  BY <1>1, OpHas DEF OnPath, Works
<1>3. DOMAIN index' \subseteq 1..used
  <2>1. DOMAIN index \subseteq 1..used
    BY DEF MemoryInv, TypeOK
  <2>2. DOMAIN index' \subseteq DOMAIN index \union DOMAIN doc
    BY <1>1
  <2> QED
    BY <1>2, <2>1, <2>2
<1>4. Progress /\ NoDecision
  <2>1. Progress
    BY <1>1, <1>3, RowsStay DEF MemoryInv, TypeOK
  <2> QED
    BY <1>1, <2>1 DEF NoDecision, MemoryInv, TypeOK
<1>5. /\ Alone(o) /\ SameTask(o) /\ DOMAIN op'[o] = Fields /\ op'[o].pc = op[o].then
      /\ op'[o].todo = op[o].todo /\ op'[o].then = op[o].then
      /\ op'[o].seen = (IF op[o].then \in Over THEN Nothing ELSE op[o].seen)
  BY <1>1, GotoIs, OpHas
<1>6. CASE op[o].then # "sources"
  BY <1>1, <1>2, <1>4, <1>5, <1>6, WorkRests DEF Working, Over
<1>7. CASE op[o].then = "sources"
  <2>1. op'[o].seen = op[o].seen
    BY <1>5, <1>7 DEF Over
  <2>2. PICK r : r = op[o]
    OBVIOUS
  <2>3. OpOK(r)'
    BY <1>4, <2>2, OpStays DEF MemoryInv
  <2>4. Known(r.seen)' /\ Works(r)' /\ Compacts(r)' /\ DropsSources(r)
    BY <1>1, <1>7, <2>2, <2>3 DEF OpOK, DropsSources
  <2>5. Known(op[o].seen)'
    BY <2>1, <2>2, <2>4 DEF Known
  <2>6. Works(op[o])'
    BY <1>5, <1>7, <2>1, <2>2, <2>4 DEF Works, Holding, DropsSources, SameTask
  <2>7. Compacts(op[o])'
    BY <1>5, <1>7, <2>1, <2>2, <2>4 DEF Compacts, DropsSources, Elsewhere
  <2> QED
    BY <1>1, <1>4, <1>5, <1>7, <2>5, <2>6, <2>7, WorkGoesOn DEF Working
<1> QED
  BY <1>6, <1>7

(* A new memory. *)
LEMMA SaidTyped ==
  ASSUME NEW says \in SUBSET Facts, NEW scope \in Scopes \union {"unowned"},
         NEW inConv \in BOOLEAN
  PROVE  /\ Row(scope, says, inConv) \in RowType /\ Row(scope, says, inConv).by = 0
         /\ Row(scope, says, inConv).says = says
<1>1. 0 \in 0..PromoteUses /\ 0 \in Ids \union {0}
  BY MemoryAssumption
<1> QED
  BY <1>1 DEF Row, RowType

LEMMA RowTyped ==
  ASSUME NEW o \in Ops, NEW scope \in Scopes, NEW inConv \in BOOLEAN
  PROVE  Row(scope, {o}, inConv) \in RowType /\ Row(scope, {o}, inConv).by = 0
BY MemoryAssumption DEF Row, RowType, Facts

LEMMA InsertAsStep ==
  ASSUME MemoryInv, NEW o \in Ops, op[o].pc \in Working, NEW row \in RowType, row.by = 0,
         InsertAs(o, row)
  PROVE  MemoryInv'
<1>1. /\ Insert(row) /\ Then(o, [i \in {Fresh} |-> row], "done", {})
      /\ UNCHANGED <<index, promos, project, gone, shed>>
  BY DEF InsertAs
<1>2. Progress /\ NoDecision /\ Fresh \in DOMAIN rows'
  BY <1>1, RowInserted
<1>3. /\ Alone(o) /\ SameTask(o) /\ DOMAIN op'[o] = Fields
      /\ op'[o].pc = (IF op[o].kind \in Indexed THEN "index" ELSE "done")
      /\ op'[o].todo = {} /\ op'[o].then = "done" /\ op'[o].seen = Nothing
      /\ op'[o].pc = "index" => op'[o].doc = [i \in {Fresh} |-> row]
  BY <1>1, ThenIs, OpHas
<1>4. op'[o].pc = "index" => DOMAIN op'[o].doc \subseteq 1..used'
  BY <1>2, <1>3 DEF Progress
<1> QED
  BY <1>2, <1>3, <1>4, WorkRests

(* What ends, or goes on, with nothing stored. *)
LEMMA RestStep ==
  ASSUME MemoryInv, NEW o \in Ops, op[o].pc \in Working,
         NEW step \in {"done", "cut", "ask", "drop", "bind", "gather", "candidates"}, Goto(o, step),
         UNCHANGED <<rows, index, used, promos, project, told, gone, shed>>
  PROVE  MemoryInv'
<1>1. /\ Alone(o) /\ SameTask(o) /\ DOMAIN op'[o] = Fields /\ op'[o].pc = step
      /\ op'[o].todo = op[o].todo
      /\ op'[o].seen = (IF step \in Over THEN Nothing ELSE op[o].seen)
  BY GotoIs, OpHas
<1>2. op[o].todo \subseteq 1..used
  BY OpHas DEF Works
<1> QED
  BY <1>1, <1>2, NothingStored, WorkRests

(* New memories, of the API, of a tool, of the compaction of a history. *)
LEMMA NewMemoryStep ==
  ASSUME MemoryInv, NEW o \in Ops, CreateMemory(o) \/ SaveMemory(o) \/ Answer(o)
         \/ PersistSummary(o)
  PROVE  MemoryInv'
<1>1. op[o].pc \in Working
  BY DEF CreateMemory, SaveMemory, Answer, PersistSummary, Working
<1>2. CASE \E scope \in Scopes, inConv \in BOOLEAN : InsertAs(o, Row(scope, {o}, inConv))
  BY <1>1, <1>2, RowTyped, InsertAsStep
<1>3. CASE CreateMemory(o)
  <2>1. PICK scope \in {"session", "user"} : InsertAs(o, Row(scope, {o}, scope = "session"))
    BY <1>3 DEF CreateMemory
  <2>2. scope \in Scopes /\ (scope = "session") \in BOOLEAN
    BY DEF Scopes
  <2> QED
    BY <1>2, <2>1, <2>2
<1>4. CASE SaveMemory(o) \/ Answer(o) \/ PersistSummary(o)
  <2>1. CASE \E step \in {"ask", "done"} :
               Goto(o, step) /\ UNCHANGED <<rows, index, used, promos, project, told, gone, shed>>
    BY <1>1, <2>1, RestStep
  <2>2. CASE InsertAs(o, Row("session", {o}, FALSE)) \/ InsertAs(o, Row("user", {o}, FALSE))
             \/ InsertAs(o, Row("session", {o}, TRUE))
    BY <1>2, <2>2 DEF Scopes
  <2> QED
    BY <1>4, <2>1, <2>2 DEF SaveMemory, Answer, PersistSummary
<1> QED
  BY <1>3, <1>4

(* A reading of rows. *)
LEMMA PartKnown ==
  ASSUME MemoryInv, NEW S, S \subseteq DOMAIN rows
  PROVE  Known(Part(S)) /\ DOMAIN Part(S) = S /\ \A i \in S : Part(S)[i] = rows[i]
BY DEF Part, Known, SameOwner, MemoryInv, TypeOK

(* A memory is read to be patched. *)
LEMMA GetMemoryStep ==
  ASSUME MemoryInv, NEW o \in Ops, GetMemory(o)
  PROVE  MemoryInv'
<1>1. op[o].pc = "get" /\ op[o].pc \in Working
        /\ UNCHANGED <<rows, index, used, promos, project, told, gone, shed>>
  BY DEF GetMemory, Working
<1>2. CASE Goto(o, "done")
  BY <1>1, <1>2, RestStep
<1>3. ASSUME NEW i \in DOMAIN rows, Hold(o, "patch", Part({i}), {i})
      PROVE  MemoryInv'
  <2>1. /\ Alone(o) /\ SameTask(o) /\ DOMAIN op'[o] = Fields /\ op'[o].pc = "patch"
        /\ op'[o].todo = {i} /\ op'[o].seen = Part({i})
    BY <1>3, HoldIs, OpHas
  <2>2. PICK f : f = Part({i})
    OBVIOUS
  <2>3. Known(f) /\ DOMAIN f = {i}
    BY <1>3, <2>2, PartKnown
  <2>4. Progress /\ NoDecision
    BY <1>1, NothingStored
  <2>5. Known(f)'
    BY <2>3, <2>4, KnownStays DEF MemoryInv
  <2>6. Known(op[o].seen)'
    BY <2>1, <2>2, <2>5 DEF Known
  <2>7. Works(op[o])' /\ Compacts(op[o])'
    BY <1>1, <2>1, <2>2, <2>3, OpHas DEF Works, Compacts, Holding, DropsSources, SameTask, Known
  <2> QED
    BY <1>1, <2>1, <2>4, <2>6, <2>7, WorkGoesOn DEF Working
<1> QED
  BY <1>2, <1>3 DEF GetMemory

(* And is patched. *)
LEMMA PatchMemoryStep ==
  ASSUME MemoryInv, NEW o \in Ops, PatchMemory(o)
  PROVE  MemoryInv'
<1>1. op[o].pc = "patch" /\ op[o].pc \in Working /\ UNCHANGED <<index, used, promos, project>>
  BY DEF PatchMemory, Working
<1>2. PICK i \in op[o].todo :
        \/ Missing(i) /\ Goto(o, "done") /\ UNCHANGED <<rows, told, gone, shed>>
        \/ \E row \in Patched(o, op[o].seen[i]) :
             /\ WriteRow(i, row)
             /\ told' = told \union row.says
             /\ gone' = gone \union (op[o].seen[i].says \ row.says)
             /\ shed' = shed \union (Overlooked(o, i) \ row.says)
             /\ Then(o, [j \in {i} |-> row], "done", {})
  BY DEF PatchMemory
<1>3. CASE Goto(o, "done") /\ UNCHANGED <<rows, told, gone, shed>>
  BY <1>1, <1>3, RestStep
<1>4. ASSUME NEW row \in Patched(o, op[o].seen[i]), WriteRow(i, row),
             told' = told \union row.says,
             gone' = gone \union (op[o].seen[i].says \ row.says),
             shed' = shed \union (Overlooked(o, i) \ row.says),
             Then(o, [j \in {i} |-> row], "done", {})
      PROVE  MemoryInv'
  <2>1. /\ i \in DOMAIN op[o].seen /\ i \in DOMAIN rows /\ i \in 1..used
        /\ op[o].seen[i] \in RowType /\ op[o].seen[i].says \subseteq told
        /\ SameOwner(op[o].seen[i], rows[i])
    BY <1>1, <1>4, OpHas DEF Works, Holding, Known, WriteRow
  <2>2. row \in RowType /\ SameOwner(row, rows[i])
    <3>1. PICK old : old = op[o].seen[i]
      OBVIOUS
    <3>2. old \in RowType /\ SameOwner(old, rows[i]) /\ {o} \in SUBSET Facts
      BY <2>1, <3>1 DEF Facts
    <3>3. CASE row = [old EXCEPT !.says = {o}]
      BY <3>2, <3>3 DEF RowType, SameOwner
    <3>4. CASE row = [old EXCEPT !.locked = ~old.locked]
      BY <3>2, <3>4 DEF RowType, SameOwner
    <3>5. CASE row = [old EXCEPT !.st = IF old.st = "active" THEN "archived" ELSE "active"]
      BY <3>2, <3>5 DEF RowType, SameOwner
    <3> QED
      BY <1>4, <3>1, <3>3, <3>4, <3>5 DEF Patched
  <2>3. op[o].seen[i].says \subseteq Facts /\ rows[i].says \subseteq told /\ shed \subseteq told
          /\ gone \subseteq Facts
    BY <2>1 DEF RowType, MemoryInv, TypeOK
  <2>4. Overlooked(o, i) = rows[i].says \ op[o].seen[i].says
    BY <2>1 DEF Overlooked
  <2>5. /\ gone \subseteq gone' /\ shed \subseteq shed' /\ told \subseteq told'
        /\ gone' \subseteq Facts /\ shed' \subseteq told' /\ told' \subseteq told \union row.says
        /\ row.says \subseteq told' /\ rows[i].says \ row.says \subseteq gone' \union shed'
    BY <1>4, <2>3, <2>4
  <2>6. Progress /\ NoDecision
    BY <1>1, <1>4, <2>2, <2>5, RowWritten
  <2>7. /\ Alone(o) /\ SameTask(o) /\ DOMAIN op'[o] = Fields
        /\ op'[o].pc = (IF op[o].kind \in Indexed THEN "index" ELSE "done")
        /\ op'[o].todo = {} /\ op'[o].then = "done" /\ op'[o].seen = Nothing
        /\ op'[o].pc = "index" => op'[o].doc = [j \in {i} |-> row]
    BY <1>4, ThenIs, OpHas
  <2>8. op'[o].pc = "index" => DOMAIN op'[o].doc \subseteq 1..used'
    BY <1>1, <2>1, <2>7
  <2> QED
    BY <1>1, <2>6, <2>7, <2>8, WorkRests
<1> QED
  BY <1>2, <1>3, <1>4

(* What is said by memories there are. *)
LEMMA SaysIs ==
  ASSUME MemoryInv, NEW S
  PROVE  /\ Says(rows, S) \subseteq Facts
         /\ \A i \in S \intersect DOMAIN rows : rows[i].says \subseteq Says(rows, S)
<1>1. \A f : f \in Says(rows, S) <=> \E i \in S \intersect DOMAIN rows : f \in rows[i].says
  BY DEF Says
<1>2. \A i \in DOMAIN rows : rows[i].says \subseteq Facts
  BY DEF MemoryInv, TypeOK
<1> QED
  BY <1>1, <1>2

(* Memories are deleted, one or all there are. *)
LEMMA DeleteStep ==
  ASSUME MemoryInv, NEW o \in Ops, FindMemory(o) \/ DeleteMemories(o)
  PROVE  MemoryInv'
<1>1. op[o].pc \in {"find", "drop"} /\ op[o].pc \in Working
  BY DEF FindMemory, DeleteMemories, Working
<1>2. CASE FindMemory(o)
  BY <1>1, <1>2, RestStep DEF FindMemory
<1>3. CASE DeleteMemories(o)
  <2>1. PICK i \in 1..used :
          \E S \in {{i}} \union (IF op[o].kind = "delete" THEN {1..used} ELSE {}) :
            rows' = Without(rows, S) /\ gone' = gone \union Says(rows, S)
              /\ Then(o, Removed(S), "done", {})
    BY <1>3 DEF DeleteMemories
  <2>2. PICK S \in {{i}, 1..used} :
          rows' = Without(rows, S) /\ gone' = gone \union Says(rows, S)
            /\ Then(o, Removed(S), "done", {})
    BY <2>1
  <2>3. UNCHANGED <<index, used, promos, project, told, shed>>
    BY <1>3 DEF DeleteMemories
  <2>4. /\ Says(rows, S) \subseteq Facts
        /\ \A j \in S \intersect DOMAIN rows : rows[j].says \subseteq Says(rows, S)
    BY SaysIs
  <2>5. Progress /\ NoDecision
    BY <2>2, <2>3, <2>4, RowsAreDropped DEF MemoryInv, TypeOK
  <2>6. /\ Alone(o) /\ SameTask(o) /\ DOMAIN op'[o] = Fields
        /\ op'[o].pc = (IF op[o].kind \in Indexed THEN "index" ELSE "done")
        /\ op'[o].todo = {} /\ op'[o].then = "done" /\ op'[o].seen = Nothing
        /\ op'[o].pc = "index" => op'[o].doc = Removed(S)
    BY <2>2, ThenIs, OpHas
  <2>7. op'[o].pc = "index" => DOMAIN op'[o].doc \subseteq 1..used'
    BY <2>1, <2>2, <2>3, <2>6 DEF Removed
  <2> QED
    BY <1>1, <2>5, <2>6, <2>7, WorkRests
<1> QED
  BY <1>2, <1>3

(* The steps of a deletion of a conversation or of a project. *)
LEMMA ForgettingGoesOn ==
  ASSUME MemoryInv, NEW o \in Ops, op[o].kind \in Forgetting, op[o].pc # "done",
         NEW step \in {"conversation", "unindex", "unbind", "done"}, Goto(o, step),
         step = "done" \/ op[o].kind = "forget",
         Progress, NoDecision, NEW r, r = op'[o], Clears(r)'
  PROVE  MemoryInv'
<1>1. /\ Alone(o) /\ SameTask(o) /\ DOMAIN op'[o] = Fields /\ op'[o].pc = step
      /\ op'[o].todo = op[o].todo
      /\ op'[o].seen = (IF step \in Over THEN Nothing ELSE op[o].seen)
  BY GotoIs, OpHas
<1>2. OnPath(r)'
  BY <1>1 DEF OnPath, Path, Forgetting, SameTask
<1>3. Known(r.seen)'
  <2>1. Known(r.seen)
    <3>1. Known(Nothing)
      BY DEF Known, Nothing
    <3>2. PICK f : f = r.seen
      OBVIOUS
    <3>3. Known(f)
      BY <1>1, <3>1, <3>2, OpHas
    <3> QED
      BY <3>2, <3>3
  <2> QED
    BY <2>1, KnownStays DEF MemoryInv
<1>4. Works(r)' /\ Compacts(r)'
  <2>1. r.todo \subseteq 1..used' /\ r.before \subseteq 1..used'
    BY <1>1, OpHas DEF Works, Progress, MemoryInv, TypeOK, SameTask
  <2> QED
    BY <1>1, <2>1 DEF Works, Compacts, Holding, DropsSources
<1>5. Recalls(r)'
  BY <1>1 DEF Recalls, Forgetting, SameTask
<1>6. OpOK(r)'
  BY <1>2, <1>3, <1>4, <1>5 DEF OpOK
<1>7. Decided'
  BY <1>1, NothingDecided DEF Alone, SameTask, Forgetting
<1> QED
  BY <1>1, <1>6, <1>7, StepTaken DEF Alone

(* The rows it drops are removed on purpose. *)
LEMMA DropRowsIs ==
  ASSUME MemoryInv, NEW o \in Ops, NEW S, NEW step, DropRows(o, S, step),
         UNCHANGED <<index, used, promos, told, shed>>,
         project' = project \/ \A i \in DOMAIN rows \ S : rows[i].scope # "project"
  PROVE  /\ Progress /\ NoDecision /\ Goto(o, step)
         /\ DOMAIN rows' = DOMAIN rows \ S /\ \A i \in DOMAIN rows' : rows'[i] = rows[i]
<1>1. rows' = Without(rows, S) /\ gone' = gone \union Says(rows, S) /\ Goto(o, step)
  BY DEF DropRows
<1>2. Progress /\ NoDecision /\ DOMAIN rows' = DOMAIN rows \ S
  BY <1>1, SaysIs, RowsAreDropped DEF MemoryInv, TypeOK
<1>3. \A i \in DOMAIN rows' : rows'[i] = rows[i]
  BY <1>1 DEF Without
<1> QED
  BY <1>1, <1>2, <1>3

LEMMA ForgetStep ==
  ASSUME MemoryInv, NEW o \in Ops,
         ForgetSession(o) \/ ForgetConversation(o) \/ UnindexConversation(o)
           \/ UnbindConversation(o)
  PROVE  MemoryInv'
<1>1. op[o].pc \in {"session", "conversation", "unindex", "unbind"} /\ op[o].kind = "forget"
  <2>1. op[o].pc \in {"session", "conversation", "unindex", "unbind"}
    BY DEF ForgetSession, ForgetConversation, UnindexConversation, UnbindConversation
  <2> QED
    BY <2>1, OpHas DEF Path, Working
<1>2. PICK r : r = op'[o]
  OBVIOUS
<1>3. \A step : Goto(o, step) => r.kind = "forget" /\ r.pc = step /\ r.before = op[o].before
  BY <1>1, <1>2, GotoIs, OpHas DEF SameTask
<1>4. CASE ForgetSession(o)
  <2> DEFINE S == {i \in DOMAIN rows : rows[i].scope = "session"}
  <2>1. op[o].pc = "session" /\ DropRows(o, S, "conversation")
          /\ UNCHANGED <<index, used, promos, project, told, shed>>
    BY <1>4 DEF ForgetSession
  <2>2. /\ Progress /\ NoDecision /\ Goto(o, "conversation")
        /\ DOMAIN rows' = DOMAIN rows \ S /\ \A i \in DOMAIN rows' : rows'[i] = rows[i]
    BY <2>1, DropRowsIs
  <2>3. \A i \in op[o].before \intersect DOMAIN rows : rows[i].scope = "session" \/ rows[i].conv
    BY <1>1, <2>1, OpHas DEF Clears
  <2>4. \A i \in op[o].before \intersect DOMAIN rows' : rows'[i].conv
    BY <2>2, <2>3
  <2>5. Clears(r)'
    <3>1. r.kind = "forget" /\ r.pc = "conversation" /\ r.before = op[o].before
      BY <1>3, <2>2
    <3>2. \A i \in r.before \intersect DOMAIN rows' : rows'[i].conv
      BY <2>4, <3>1
    <3> QED
      BY <3>1, <3>2 DEF Clears
  <2> QED
    BY <1>1, <1>2, <2>1, <2>2, <2>5, ForgettingGoesOn DEF Forgetting
<1>5. CASE ForgetConversation(o)
  <2> DEFINE S == {i \in DOMAIN rows : rows[i].conv}
  <2>1. op[o].pc = "conversation" /\ DropRows(o, S, "unindex")
          /\ UNCHANGED <<index, used, promos, project, told, shed>>
    BY <1>5 DEF ForgetConversation
  <2>2. /\ Progress /\ NoDecision /\ Goto(o, "unindex")
        /\ DOMAIN rows' = DOMAIN rows \ S /\ \A i \in DOMAIN rows' : rows'[i] = rows[i]
    BY <2>1, DropRowsIs
  <2>3. \A i \in op[o].before \intersect DOMAIN rows : rows[i].conv
    BY <1>1, <2>1, OpHas DEF Clears
  <2>4. op[o].before \intersect DOMAIN rows' = {}
    BY <2>2, <2>3
  <2>5. Clears(r)'
    BY <1>3, <2>2, <2>4 DEF Clears
  <2> QED
    BY <1>1, <1>2, <2>1, <2>2, <2>5, ForgettingGoesOn DEF Forgetting
<1>6. CASE UnindexConversation(o) \/ UnbindConversation(o)
  <2>1. PICK step \in {"unbind", "done"} : Goto(o, step)
    BY <1>6 DEF UnindexConversation, UnbindConversation
  <2>2. /\ op[o].pc \in {"unindex", "unbind"}
        /\ UNCHANGED <<rows, used, promos, project, told, gone, shed>>
        /\ index' \in {index, Without(index, {i \in DOMAIN index : index[i].conv})}
    BY <1>6 DEF UnindexConversation, UnbindConversation
  <2>3. Progress /\ NoDecision
    <3>1. DOMAIN index' \subseteq 1..used
      BY <2>2 DEF Without, MemoryInv, TypeOK
    <3>2. Progress
      BY <2>2, <3>1, RowsStay DEF MemoryInv, TypeOK
    <3> QED
      BY <2>2, <3>2 DEF NoDecision, MemoryInv, TypeOK
  <2>4. op[o].before \intersect DOMAIN rows = {}
    BY <1>1, <2>2, OpHas DEF Clears
  <2>5. Clears(r)'
    BY <1>3, <2>1, <2>2, <2>4 DEF Clears
  <2> QED
    BY <1>1, <1>2, <2>1, <2>2, <2>3, <2>5, ForgettingGoesOn DEF Forgetting
<1> QED
  BY <1>4, <1>5, <1>6

(* A project is deleted. *)
LEMMA DeleteProjectStep ==
  ASSUME MemoryInv, NEW o \in Ops, DeleteProject(o)
  PROVE  MemoryInv'
<1> DEFINE S == {i \in DOMAIN rows : rows[i].scope = "project"}
<1>1. op[o].pc = "drop project" /\ UNCHANGED <<index, used, promos, told, shed>>
  BY DEF DeleteProject
<1>2. op[o].kind = "unbind"
  BY <1>1, OpHas DEF Path, Working
<1>3. /\ \A i \in op[o].before \intersect DOMAIN rows : rows[i].scope = "project"
      /\ ~project => op[o].before \intersect DOMAIN rows = {}
  BY <1>1, <1>2, OpHas DEF Clears
<1>4. /\ Progress /\ NoDecision /\ Goto(o, "done")
      /\ op[o].before \intersect DOMAIN rows' = {}
  <2>1. CASE project
    <3>1. DropRows(o, S, "done")
      BY <2>1 DEF DeleteProject
    <3>2. \A i \in DOMAIN rows \ S : rows[i].scope # "project"
      OBVIOUS
    <3>3. /\ Progress /\ NoDecision /\ Goto(o, "done")
          /\ DOMAIN rows' = DOMAIN rows \ S
      BY <1>1, <3>1, <3>2, DropRowsIs
    <3> QED
      BY <1>3, <3>3
  <2>2. CASE ~project
    <3>1. Goto(o, "done") /\ UNCHANGED <<rows, gone, project>>
      BY <2>2 DEF DeleteProject
    <3>2. Progress /\ NoDecision
      BY <1>1, <3>1, NothingStored
    <3> QED
      BY <1>3, <2>2, <3>1, <3>2
  <2> QED
    BY <2>1, <2>2
<1>5. PICK r : r = op'[o]
  OBVIOUS
<1>6. r.kind = "unbind" /\ r.pc = "done" /\ r.before = op[o].before
  BY <1>2, <1>4, <1>5, GotoIs, OpHas DEF SameTask
<1>7. Clears(r)'
  BY <1>4, <1>6 DEF Clears
<1> QED
  BY <1>1, <1>2, <1>4, <1>5, <1>7, ForgettingGoesOn DEF Forgetting

(* A conversation is bound. *)
LEMMA BindStep ==
  ASSUME MemoryInv, NEW o \in Ops, GetProject(o) \/ BindConversation(o)
  PROVE  MemoryInv'
<1>1. op[o].pc \in Working /\ UNCHANGED <<rows, index, used, promos, project, told, gone, shed>>
  BY DEF GetProject, BindConversation, Working
<1>2. PICK step \in {"bind", "done"} : Goto(o, step)
  BY DEF GetProject, BindConversation
<1> QED
  BY <1>1, <1>2, RestStep

-----------------------------------------------------------------------------
(* Extraction.                                                                *)

(* Candidates and readings. *)
LEMMA ListCandidatesStep ==
  ASSUME MemoryInv, NEW o \in Ops, ListCandidates(o)
  PROVE  MemoryInv'
<1>1. op[o].pc = "list" /\ op[o].pc \in Working
        /\ UNCHANGED <<rows, index, used, promos, project, told, gone, shed>>
  BY DEF ListCandidates, Working
<1>2. CASE Goto(o, "gather")
  BY <1>1, <1>2, RestStep
<1>3. CASE ~Goto(o, "gather")
  <2>1. PICK scope \in Asked(op[o].kind) :
          op' = [op EXCEPT ![o].pc = "consolidate", ![o].seen = Part(Listed(ScopeFor(scope))),
                           ![o].doc = Row(ScopeFor(scope), {o}, TRUE)]
    BY <1>3 DEF ListCandidates
  <2>2. PICK f : f = Part(Listed(ScopeFor(scope)))
    OBVIOUS
  <2>3. PICK row : row = Row(ScopeFor(scope), {o}, TRUE)
    OBVIOUS
  <2>4. row \in RowType /\ row.by = 0
    BY <2>3, RowTyped DEF ScopeFor, Asked, Scopes
  <2>5. Known(f)
    BY <2>2, PartKnown DEF Listed
  <2>6. /\ Alone(o) /\ SameTask(o) /\ DOMAIN op'[o] = Fields /\ op'[o].pc = "consolidate"
        /\ op'[o].todo = op[o].todo /\ op'[o].seen = f /\ op'[o].doc = row
    BY <2>1, <2>2, <2>3, OpHas DEF Alone, SameTask, Fields
  <2>7. Progress /\ NoDecision
    BY <1>1, NothingStored
  <2>8. Known(f)'
    BY <2>5, <2>7, KnownStays DEF MemoryInv
  <2>9. Known(op[o].seen)'
    BY <2>6, <2>8 DEF Known
  <2>10. Works(op[o])' /\ Compacts(op[o])'
    BY <1>1, <2>4, <2>6, OpHas DEF Works, Compacts, Holding, DropsSources, SameTask
  <2> QED
    BY <1>1, <2>6, <2>7, <2>9, <2>10, WorkGoesOn DEF Working
<1> QED
  BY <1>2, <1>3

(* A candidate becomes a memory, or is kept aside. *)
LEMMA AddCandidateStep ==
  ASSUME MemoryInv, NEW o \in Ops, AddCandidate(o) \/ RejectCandidate(o)
  PROVE  MemoryInv'
<1>1. /\ op[o].pc = "consolidate" /\ op[o].pc \in Working
      /\ UNCHANGED <<index, promos, project, gone, shed>>
      /\ Candidate(o) = op[o].doc
  BY DEF AddCandidate, RejectCandidate, Working, Candidate
<1>2. Candidate(o) \in RowType /\ Candidate(o).by = 0
  BY <1>1, OpHas DEF Works
<1>3. CASE AddCandidate(o)
  <2>1. Insert(Candidate(o)) /\ Then(o, [i \in {Fresh} |-> Candidate(o)], "gather", {})
    BY <1>3 DEF AddCandidate
  <2>2. Progress /\ NoDecision /\ Fresh \in DOMAIN rows'
    BY <1>1, <1>2, <2>1, RowInserted
  <2>3. /\ Alone(o) /\ SameTask(o) /\ DOMAIN op'[o] = Fields
        /\ op'[o].pc = (IF op[o].kind \in Indexed THEN "index" ELSE "gather")
        /\ op'[o].todo = {} /\ op'[o].then = "gather" /\ op'[o].seen = Nothing
        /\ op'[o].pc = "index" => op'[o].doc = [i \in {Fresh} |-> Candidate(o)]
    BY <2>1, ThenIs, OpHas
  <2>4. op'[o].pc = "index" => DOMAIN op'[o].doc \subseteq 1..used'
    BY <2>2, <2>3 DEF Progress
  <2> QED
    BY <1>1, <2>2, <2>3, <2>4, WorkRests
<1>4. CASE RejectCandidate(o)
  <2>1. PICK row : row = [Candidate(o) EXCEPT !.st = "rejected"]
    OBVIOUS
  <2>2. Insert(row) /\ Goto(o, "gather")
    BY <1>4, <2>1 DEF RejectCandidate
  <2>3. row \in RowType /\ row.by = 0
    BY <1>2, <2>1 DEF RowType
  <2>4. Progress /\ NoDecision
    BY <1>1, <2>2, <2>3, RowInserted
  <2>5. /\ Alone(o) /\ SameTask(o) /\ DOMAIN op'[o] = Fields /\ op'[o].pc = "gather"
        /\ op'[o].todo = op[o].todo /\ op'[o].seen = op[o].seen
    BY <2>2, GotoIs, OpHas DEF Over
  <2>6. op'[o].todo \subseteq 1..used'
    BY <2>4, <2>5, OpHas DEF Works, Progress, MemoryInv, TypeOK
  <2> QED
    BY <1>1, <2>4, <2>5, <2>6, WorkRests
<1> QED
  BY <1>3, <1>4

(* A counted use changes nothing else. *)
LEMMA TouchedIs ==
  ASSUME NEW row \in RowType
  PROVE  /\ Touched(row) \in RowType /\ SameOwner(Touched(row), row)
         /\ Touched(row).says = row.says
<1>1. PromoteUses \in Nat
  BY MemoryAssumption
<1>2. row.uses \in 0..PromoteUses
  BY DEF RowType
<1>3. (IF row.uses < PromoteUses THEN row.uses + 1 ELSE row.uses) \in 0..PromoteUses
  BY <1>1, <1>2
<1>4. PICK n \in 0..PromoteUses : Touched(row) = [row EXCEPT !.uses = n]
  BY <1>3 DEF Touched
<1> QED
  BY <1>4 DEF RowType, SameOwner

(* Or goes into the memory that is most alike. *)
LEMMA MergeCandidateStep ==
  ASSUME MemoryInv, NEW o \in Ops, MergeCandidate(o)
  PROVE  MemoryInv'
<1>1. op[o].pc = "consolidate" /\ op[o].pc \in Working /\ UNCHANGED <<index, used, promos, project>>
  BY DEF MergeCandidate, Working
<1>2. PICK i \in DOMAIN op[o].seen :
        \/ Missing(i) /\ Goto(o, "cut") /\ UNCHANGED <<rows, told, gone, shed>>
        \/ \E says \in Texts(op[o].seen[i], o) :
             LET row == [Touched(op[o].seen[i]) EXCEPT !.says = says] IN
             /\ WriteRow(i, row)
             /\ told' = told \union says
             /\ gone' = gone \union (op[o].seen[i].says \ says)
             /\ shed' = shed \union Overlooked(o, i)
             /\ Then(o, [j \in {i} |-> row], "gather", {})
  BY DEF MergeCandidate, Alike
<1>3. CASE Goto(o, "cut") /\ UNCHANGED <<rows, told, gone, shed>>
  BY <1>1, <1>3, RestStep
<1>4. ASSUME NEW says \in Texts(op[o].seen[i], o), NEW row,
             row = [Touched(op[o].seen[i]) EXCEPT !.says = says],
             WriteRow(i, row), told' = told \union says,
             gone' = gone \union (op[o].seen[i].says \ says),
             shed' = shed \union Overlooked(o, i),
             Then(o, [j \in {i} |-> row], "gather", {})
      PROVE  MemoryInv'
  <2>1. PICK old : old = op[o].seen[i]
    OBVIOUS
  <2>2. /\ i \in DOMAIN rows /\ i \in 1..used
        /\ old \in RowType /\ old.says \subseteq told /\ SameOwner(old, rows[i])
    BY <1>4, <2>1, OpHas DEF Known, WriteRow
  <2>3. /\ old.says \subseteq Facts /\ rows[i].says \subseteq told /\ shed \subseteq told
             /\ gone \subseteq Facts
        /\ o \in Facts
    BY <2>2 DEF RowType, MemoryInv, TypeOK, Facts
  <2>4. says \in SUBSET Facts
    BY <1>4, <2>1, <2>2, <2>3 DEF Texts
  <2>5. Touched(old) \in RowType /\ SameOwner(Touched(old), old)
    BY <2>2, TouchedIs
  <2>6. row \in RowType /\ SameOwner(row, rows[i]) /\ row.says = says
    BY <1>4, <2>1, <2>2, <2>4, <2>5 DEF RowType, SameOwner
  <2>7. Overlooked(o, i) = rows[i].says \ old.says
    BY <2>1, <2>2 DEF Overlooked
  <2>8. /\ gone \subseteq gone' /\ shed \subseteq shed' /\ told \subseteq told'
        /\ gone' \subseteq Facts /\ shed' \subseteq told' /\ told' \subseteq told \union row.says
        /\ row.says \subseteq told' /\ rows[i].says \ row.says \subseteq gone' \union shed'
    BY <1>4, <2>1, <2>3, <2>4, <2>6, <2>7
  <2>9. Progress /\ NoDecision
    BY <1>1, <1>4, <2>6, <2>8, RowWritten
  <2>10. /\ Alone(o) /\ SameTask(o) /\ DOMAIN op'[o] = Fields
         /\ op'[o].pc = (IF op[o].kind \in Indexed THEN "index" ELSE "gather")
         /\ op'[o].todo = {} /\ op'[o].then = "gather" /\ op'[o].seen = Nothing
         /\ op'[o].pc = "index" => op'[o].doc = [j \in {i} |-> row]
    BY <1>4, ThenIs, OpHas
  <2>11. op'[o].pc = "index" => DOMAIN op'[o].doc \subseteq 1..used'
    BY <1>1, <2>2, <2>10
  <2> QED
    BY <1>1, <2>9, <2>10, <2>11, WorkRests
<1> QED
  BY <1>2, <1>3, <1>4

-----------------------------------------------------------------------------
(* Compaction.                                                                *)

(* What is to be compacted is chosen and read. *)
LEMMA GatherStep ==
  ASSUME MemoryInv, NEW o \in Ops, Gather(o)
  PROVE  MemoryInv'
<1>1. op[o].pc = "gather" /\ op[o].pc \in Working
        /\ UNCHANGED <<rows, index, used, promos, project, told, gone, shed>>
  BY DEF Gather, Working
<1>2. CASE Goto(o, AfterCompaction(o))
  <2>1. AfterCompaction(o) \in {"candidates", "done"}
    BY DEF AfterCompaction
  <2> QED
    BY <1>1, <1>2, <2>1, RestStep
<1>3. CASE ~Goto(o, AfterCompaction(o))
  <2>1. \E keep : LET S == Compressible(Listed("session"), keep)
                  IN ~(Cardinality(S) < 2) /\ Hold(o, "summary", Part(S), S)
    BY <1>3 DEF Gather
  <2>2. PICK keep : LET S == Compressible(Listed("session"), keep)
                    IN ~(Cardinality(S) < 2) /\ Hold(o, "summary", Part(S), S)
    BY <2>1
  <2>3. PICK S : S = Compressible(Listed("session"), keep)
    OBVIOUS
  <2>4. S \subseteq DOMAIN rows /\ \A i \in S : ~rows[i].locked
    BY <2>3 DEF Compressible, Listed
  <2>5. S # {}
    <3>1. Cardinality({}) = 0
      BY FS_EmptySet
    <3> QED
      BY <2>2, <2>3, <3>1
  <2>6. PICK f : f = Part(S)
    OBVIOUS
  <2>7. Known(f) /\ DOMAIN f = S /\ \A i \in S : f[i] = rows[i]
    BY <2>4, <2>6, PartKnown
  <2>8. Hold(o, "summary", f, S)
    BY <2>2, <2>3, <2>6
  <2>9. /\ Alone(o) /\ SameTask(o) /\ DOMAIN op'[o] = Fields /\ op'[o].pc = "summary"
        /\ op'[o].todo = S /\ op'[o].seen = f
    BY <2>8, HoldIs, OpHas
  <2>10. Progress /\ NoDecision
    BY <1>1, NothingStored
  <2>11. Known(f)'
    BY <2>7, <2>10, KnownStays DEF MemoryInv
  <2>12. Known(op[o].seen)'
    BY <2>9, <2>11 DEF Known
  <2>13. Works(op[o])'
    BY <1>1, <2>7, <2>9, OpHas DEF Works, Holding, DropsSources, SameTask, Known
  <2>14. Compacts(op[o])'
    BY <2>4, <2>5, <2>7, <2>9 DEF Compacts, DropsSources
  <2> QED
    BY <1>1, <2>9, <2>10, <2>12, <2>13, <2>14, WorkGoesOn DEF Working
<1> QED
  BY <1>2, <1>3

(* The summary is stored. *)
LEMMA AddSummaryStep ==
  ASSUME MemoryInv, NEW o \in Ops, AddSummary(o)
  PROVE  MemoryInv'
<1>1. PICK seen : seen = op[o].seen
  OBVIOUS
<1>2. PICK row \in Summaries(seen) :
        /\ Insert(row) /\ Then(o, [i \in {Fresh} |-> row], "sources", op[o].todo)
        /\ shed' = shed \union (Says(seen, DOMAIN seen) \ row.says)
  BY <1>1 DEF AddSummary
<1>3. /\ op[o].pc = "summary" /\ op[o].pc \in Working /\ UNCHANGED <<index, promos, project, gone>>
  BY DEF AddSummary, Working
<1>4. /\ Known(seen) /\ DOMAIN seen # {} /\ op[o].todo \subseteq DOMAIN seen
      /\ op[o].before \subseteq 1..used
      /\ \A i \in op[o].todo : ~seen[i].locked
  BY <1>1, <1>3, OpHas DEF Works, Compacts, Holding
<1>5. \A f : f \in Says(seen, DOMAIN seen) <=> \E i \in DOMAIN seen : f \in seen[i].says
  BY DEF Says
<1>6. /\ Says(seen, DOMAIN seen) \subseteq Facts /\ Says(seen, DOMAIN seen) \subseteq told
  <2>1. \A i \in DOMAIN seen : seen[i].says \subseteq Facts /\ seen[i].says \subseteq told
    BY <1>4 DEF Known, RowType
  <2> QED
    BY <1>5, <2>1
<1>7. row \in RowType /\ row.by = 0
  <2>1. PICK says \in SUBSET Says(seen, DOMAIN seen) : row = Row("session", says, TRUE)
    BY <1>2 DEF Summaries
  <2>2. says \in SUBSET Facts
    BY <1>6, <2>1
  <2> QED
    BY <2>1, <2>2, SaidTyped DEF Scopes
<1>8. Progress /\ NoDecision /\ Fresh \in DOMAIN rows' /\ rows'[Fresh] = row
  <2>1. shed \subseteq shed' /\ shed' \subseteq told'
    BY <1>2, <1>6 DEF Insert, MemoryInv, TypeOK
  <2> QED
    BY <1>2, <1>3, <1>7, <2>1, RowAdded
<1>9. /\ Alone(o) /\ SameTask(o) /\ DOMAIN op'[o] = Fields
      /\ op'[o].pc = (IF op[o].kind \in Indexed THEN "index" ELSE "sources")
      /\ op'[o].todo = op[o].todo /\ op'[o].then = "sources" /\ op'[o].seen = seen
      /\ op'[o].pc = "index" => op'[o].doc = [i \in {Fresh} |-> row]
  BY <1>1, <1>2, ThenIs, OpHas
<1>10. Known(op[o].seen)'
  <2>1. Known(seen)'
    BY <1>4, <1>8, KnownStays DEF MemoryInv
  <2> QED
    BY <1>9, <2>1 DEF Known
<1>11. Works(op[o])'
  <2>1. 1..used \subseteq 1..used' /\ DOMAIN rows' \subseteq 1..used'
    BY <1>8 DEF Progress, MemoryInv, TypeOK
  <2>2. DOMAIN seen \subseteq 1..used
    BY <1>4 DEF Known
  <2>3. op'[o].pc = "index" => DOMAIN op'[o].doc \subseteq 1..used'
    BY <1>8, <1>9, <2>1
  <2> QED
    BY <1>4, <1>9, <2>1, <2>2, <2>3 DEF Works, Holding, DropsSources, SameTask
<1>12. Compacts(op[o])'
  <2>1. \A i \in DOMAIN seen : i < Fresh
    BY <1>4 DEF Known, Fresh, MemoryInv, TypeOK
  <2>2. ASSUME NEW i \in DOMAIN seen, NEW f \in seen[i].says
        PROVE  f \in shed' \/ f \in rows'[Fresh].says
    BY <1>2, <1>5, <1>8, <2>2
  <2>3. PICK j : j = Fresh
    OBVIOUS
  <2>4. /\ j \in DOMAIN rows'
        /\ \A i \in DOMAIN seen :
             i < j /\ \A f \in seen[i].says : f \in shed' \/ f \in rows'[j].says
    BY <1>8, <2>1, <2>2, <2>3
  <2> QED
    BY <1>4, <1>9, <2>4 DEF Compacts, DropsSources, Elsewhere
<1> QED
  BY <1>3, <1>8, <1>9, <1>10, <1>11, <1>12, WorkGoesOn DEF Working

(* And its sources go, one by one. *)
LEMMA DropSourceStep ==
  ASSUME MemoryInv, NEW o \in Ops, DropSource(o)
  PROVE  MemoryInv'
<1>1. op[o].pc = "sources" /\ op[o].pc \in Working
        /\ UNCHANGED <<index, used, promos, project, told, gone>>
  BY DEF DropSource, Working
<1>2. CASE Goto(o, AfterCompaction(o)) /\ UNCHANGED <<rows, shed>>
  <2>1. AfterCompaction(o) \in {"candidates", "done"}
    BY DEF AfterCompaction
  <2> QED
    BY <1>1, <1>2, <2>1, RestStep
<1>3. ASSUME NEW i \in op[o].todo, rows' = Without(rows, {i}),
             shed' = shed \union Overlooked(o, i),
             Then(o, Removed({i}), "sources", op[o].todo \ {i})
      PROVE  MemoryInv'
  <2>1. PICK r : r = op[o]
    OBVIOUS
  <2>2. OpOK(r) /\ DropsSources(r) /\ i \in DOMAIN r.seen /\ r.todo \subseteq DOMAIN r.seen
    BY <1>1, <1>3, <2>1, OpHas DEF MemoryInv, DropsSources, Works, Holding
  <2>3. i \in DOMAIN rows => Overlooked(o, i) = rows[i].says \ r.seen[i].says
    BY <2>1 DEF Overlooked
  <2>4. i \notin DOMAIN rows => Overlooked(o, i) = {}
    BY DEF Overlooked
  <2>5. \A j \in DOMAIN r.seen : j \in Nat
    BY <2>2 DEF OpOK, Known
  <2>6. shed' \subseteq told
    BY <1>3, <2>3, <2>4 DEF MemoryInv, TypeOK
  <2>7. ASSUME i \in DOMAIN rows, NEW f \in rows[i].says, f \notin gone \union shed'
        PROVE  \E j \in DOMAIN rows \ {i} : i <= j /\ f \in rows[j].says
    <3>1. f \in r.seen[i].says /\ f \notin gone \union shed
      BY <1>3, <2>3, <2>7
    <3>2. Elsewhere(f, r)
      BY <2>2, <3>1 DEF OpOK, Compacts
    <3>3. PICK j \in DOMAIN rows : f \in rows[j].says /\ \A k \in DOMAIN r.seen : k < j
      BY <3>1, <3>2 DEF Elsewhere
    <3>4. i < j /\ j \in Nat
      BY <2>2, <3>3 DEF MemoryInv, TypeOK
    <3> QED
      BY <2>2, <2>5, <3>3, <3>4
  <2>8. Progress /\ NoDecision
    BY <1>1, <1>3, <2>6, <2>7, RowsAreDropped DEF MemoryInv, TypeOK
  <2>9. /\ Alone(o) /\ SameTask(o) /\ DOMAIN op'[o] = Fields
        /\ op'[o].pc = (IF op[o].kind \in Indexed THEN "index" ELSE "sources")
        /\ op'[o].todo = r.todo \ {i} /\ op'[o].then = "sources" /\ op'[o].seen = r.seen
        /\ op'[o].pc = "index" => op'[o].doc = Removed({i})
    BY <1>3, <2>1, ThenIs, OpHas
  <2>10. OpOK(r)'
    BY <2>2, <2>8, OpStays DEF MemoryInv
  <2>11. Known(r.seen)' /\ Works(r)' /\ Compacts(r)'
    BY <2>10 DEF OpOK
  <2>12. Known(op[o].seen)'
    BY <2>9, <2>11 DEF Known
  <2>13. Works(op[o])'
    <3>1. op'[o].before = r.before
      BY <2>1, <2>9 DEF SameTask
    <3>2. op'[o].pc = "index" => DOMAIN op'[o].doc \subseteq 1..used'
      BY <1>1, <1>3, <2>9, OpHas DEF Removed, Works
    <3> QED
      BY <2>2, <2>9, <2>11, <3>1, <3>2 DEF Works, Holding, DropsSources
  <2>14. Compacts(op[o])'
    BY <2>2, <2>9, <2>11 DEF Compacts, DropsSources, Elsewhere
  <2> QED
    BY <1>1, <2>8, <2>9, <2>12, <2>13, <2>14, WorkGoesOn DEF Working
<1> QED
  BY <1>2, <1>3 DEF DropSource

-----------------------------------------------------------------------------
(* Promotion.                                                                 *)

(* Between two memories the reading stays, and fewer are left. *)
LEMMA PromotionGoesOn ==
  ASSUME MemoryInv, NEW o \in Ops, op[o].pc \in {"promote", "archive"}, Progress, NoDecision,
         Alone(o), SameTask(o), DOMAIN op'[o] = Fields, op'[o].pc \in {"promote", "archive"},
         op'[o].seen = op[o].seen, op'[o].todo \subseteq op[o].todo,
         op'[o].pc = "archive" => DOMAIN op'[o].doc \subseteq op[o].todo
  PROVE  MemoryInv'
<1>1. /\ Known(op[o].seen) /\ op[o].todo \subseteq DOMAIN op[o].seen /\ op[o].todo \subseteq 1..used
      /\ op[o].before \subseteq 1..used
  BY OpHas DEF Works, Holding
<1>2. PICK f : f = op[o].seen
  OBVIOUS
<1>3. Known(f)'
  BY <1>1, <1>2, KnownStays DEF MemoryInv
<1>4. Known(op[o].seen)'
  BY <1>2, <1>3 DEF Known
<1>5. 1..used \subseteq 1..used'
  BY DEF Progress, MemoryInv, TypeOK
<1>6. Works(op[o])'
  BY <1>1, <1>5 DEF Works, Holding, DropsSources, SameTask
<1>7. Compacts(op[o])'
  BY DEF Compacts, DropsSources
<1> QED
  BY <1>4, <1>6, <1>7, WorkGoesOn DEF Working

(* The candidates are read. *)
LEMMA ListPromotableStep ==
  ASSUME MemoryInv, NEW o \in Ops, ListPromotable(o)
  PROVE  MemoryInv'
<1>1. op[o].pc = "candidates" /\ op[o].pc \in Working
        /\ UNCHANGED <<rows, index, used, promos, project, told, gone, shed>>
  BY DEF ListPromotable, Working
<1>2. PICK S : /\ S = {i \in Listed("session") : rows[i].locked \/ rows[i].uses >= PromoteUses}
               /\ op' = [op EXCEPT ![o].pc = "promote", ![o].seen = Part(S), ![o].todo = S,
                                   ![o].open = bound]
  BY DEF ListPromotable
<1>3. PICK f : f = Part(S)
  OBVIOUS
<1>4. S \subseteq DOMAIN rows
  BY <1>2 DEF Listed
<1>5. Known(f) /\ DOMAIN f = S
  BY <1>3, <1>4, PartKnown
<1>6. /\ DOMAIN op[o] = Fields /\ DOMAIN op = Ops
      /\ op[o].kind \notin {"none", "forget", "unbind", "review", "recall"}
      /\ Path(op[o].kind) = Working \union {"done", "cut"}
  BY <1>1, OpHas, WorkerKind
<1>7. /\ DOMAIN op' = Ops /\ \A p \in Ops \ {o} : op'[p] = op[p]
      /\ DOMAIN op'[o] = Fields /\ op'[o].pc = "promote" /\ op'[o].seen = f /\ op'[o].todo = S
      /\ op'[o].kind = op[o].kind /\ op'[o].before = op[o].before
  BY <1>2, <1>3, <1>6 DEF Fields
<1>8. PICK r : r = op'[o]
  OBVIOUS
<1>9. Progress /\ NoDecision
  BY <1>1, NothingStored
<1>10. OnPath(r)
  BY <1>6, <1>7, <1>8 DEF OnPath, Working
<1>11. Works(r) /\ Compacts(r)
  <2>1. op[o].before \subseteq 1..used
    BY OpHas DEF Works
  <2> QED
    BY <1>5, <1>7, <1>8, <2>1 DEF Works, Compacts, Holding, DropsSources, Known
<1>12. Clears(r) /\ Recalls(r) /\ Known(r.seen)
  BY <1>5, <1>6, <1>7, <1>8 DEF Clears, Recalls
<1>13. OpOK(r)'
  BY <1>9, <1>10, <1>11, <1>12, OpStays DEF OpOK, MemoryInv
<1>14. Decided'
  BY <1>1, <1>6, <1>7, <1>9, NothingDecided
<1> QED
  BY <1>7, <1>8, <1>9, <1>13, <1>14, StepTaken

(* The model keeps all or one. *)
LEMMA KeepStep ==
  ASSUME MemoryInv, NEW o \in Ops, KeepAll(o) \/ KeepOne(o)
  PROVE  MemoryInv'
<1>1. op[o].pc = "promote" /\ op[o].pc \in Working
        /\ UNCHANGED <<rows, index, used, promos, project, told, gone, shed>>
  BY DEF KeepAll, KeepOne, Working
<1>2. CASE KeepAll(o)
  BY <1>1, <1>2, RestStep DEF KeepAll
<1>3. CASE KeepOne(o)
  <2>1. PICK i \in op[o].todo : op' = [op EXCEPT ![o].todo = @ \ {i}]
    BY <1>3 DEF KeepOne
  <2>2. /\ Alone(o) /\ SameTask(o) /\ DOMAIN op'[o] = Fields /\ op'[o].pc = "promote"
        /\ op'[o].seen = op[o].seen /\ op'[o].todo = op[o].todo \ {i}
    BY <1>1, <2>1, OpHas DEF Alone, SameTask, Fields
  <2> QED
    BY <1>1, <2>2, NothingStored, PromotionGoesOn
<1> QED
  BY <1>2, <1>3

(* A proposal is made, once for each memory. *)
LEMMA ProposeStep ==
  ASSUME MemoryInv, NEW o \in Ops, Propose(o)
  PROVE  MemoryInv'
<1>1. op[o].pc = "promote" /\ UNCHANGED <<rows, index, used, project, told, gone, shed>>
  BY DEF Propose
<1>2. PICK i \in op[o].todo, scope \in {"user", "project"} :
        /\ promos' = IF i \in DOMAIN promos THEN promos
                     ELSE [j \in DOMAIN promos \union {i} |-> IF j = i
                             THEN [st |-> "pending", scope |-> scope, says |-> op[o].seen[i].says]
                             ELSE promos[j]]
        /\ op' = [op EXCEPT ![o].todo = @ \ {i}]
  BY DEF Propose
<1>3. i \in 1..used /\ op[o].seen[i] \in RowType
  BY <1>1, OpHas DEF Works, Holding, Known
<1>4. op[o].seen[i].says \in SUBSET Facts
  BY <1>3 DEF RowType
<1>5. [st |-> "pending", scope |-> scope, says |-> op[o].seen[i].says] \in PromotionType
  BY <1>4 DEF PromotionType
<1>6. /\ DOMAIN promos \subseteq DOMAIN promos' /\ DOMAIN promos' \subseteq DOMAIN promos \union {i}
      /\ \A j \in DOMAIN promos : promos'[j] = promos[j]
      /\ \A j \in DOMAIN promos' : promos'[j] \in PromotionType
  BY <1>2, <1>5 DEF MemoryInv, TypeOK
<1>7. Progress /\ NoDecision
  <2>1. Progress
    BY <1>1, <1>3, <1>6, RowsStay DEF MemoryInv, TypeOK
  <2> QED
    BY <1>1, <1>6, <2>1 DEF NoDecision, MemoryInv, TypeOK
<1>8. /\ Alone(o) /\ SameTask(o) /\ DOMAIN op'[o] = Fields /\ op'[o].pc = "promote"
      /\ op'[o].seen = op[o].seen /\ op'[o].todo = op[o].todo \ {i}
  BY <1>1, <1>2, OpHas DEF Alone, SameTask, Fields
<1> QED
  BY <1>1, <1>7, <1>8, PromotionGoesOn

(* A memory is promoted, and then archived. *)
LEMMA PromoteStep ==
  ASSUME MemoryInv, NEW o \in Ops, Promote(o)
  PROVE  MemoryInv'
<1>1. op[o].pc = "promote" /\ UNCHANGED <<index, promos, project, gone, shed>>
  BY DEF Promote
<1>2. PICK i \in op[o].todo, scope \in {"user", "project"} :
        /\ Insert(Row(scope, op[o].seen[i].says, FALSE))
        /\ op' = [op EXCEPT ![o].pc = "archive", ![o].doc = [j \in {i} |-> op[o].seen[i]]]
  BY DEF Promote
<1>3. op[o].seen[i] \in RowType
  BY <1>1, OpHas DEF Works, Holding, Known
<1>4. PICK says : says = op[o].seen[i].says /\ says \in SUBSET Facts
  BY <1>3 DEF RowType
<1>5. PICK row : row = Row(scope, says, FALSE)
  OBVIOUS
<1>6. row \in RowType /\ row.by = 0
  BY <1>4, <1>5, SaidTyped DEF Scopes
<1>7. Progress /\ NoDecision
  BY <1>1, <1>2, <1>4, <1>5, <1>6, RowInserted
<1>8. /\ Alone(o) /\ SameTask(o) /\ DOMAIN op'[o] = Fields /\ op'[o].pc = "archive"
      /\ op'[o].seen = op[o].seen /\ op'[o].todo = op[o].todo /\ DOMAIN op'[o].doc = {i}
  BY <1>2, OpHas DEF Alone, SameTask, Fields
<1> QED
  BY <1>1, <1>7, <1>8, PromotionGoesOn

LEMMA ArchiveStep ==
  ASSUME MemoryInv, NEW o \in Ops, Archive(o)
  PROVE  MemoryInv'
<1>1. op[o].pc \in {"promote", "archive"} /\ UNCHANGED <<index, used, promos, project, told, gone>>
  BY DEF Archive
<1>2. PICK i \in IF op[o].pc = "archive" THEN DOMAIN op[o].doc ELSE op[o].todo :
        /\ \/ Missing(i) /\ UNCHANGED <<rows, shed>>
           \/ /\ WriteRow(i, [op[o].seen[i] EXCEPT !.st = "archived"])
              /\ shed' = shed \union Overlooked(o, i)
        /\ op' = [op EXCEPT ![o].pc = "promote", ![o].todo = @ \ {i}]
  BY DEF Archive
<1>3. /\ Alone(o) /\ SameTask(o) /\ DOMAIN op'[o] = Fields /\ op'[o].pc = "promote"
      /\ op'[o].seen = op[o].seen /\ op'[o].todo = op[o].todo \ {i}
  BY <1>2, OpHas DEF Alone, SameTask, Fields
<1>4. CASE UNCHANGED <<rows, shed>>
  BY <1>1, <1>3, <1>4, NothingStored, PromotionGoesOn
<1>5. ASSUME WriteRow(i, [op[o].seen[i] EXCEPT !.st = "archived"]),
             shed' = shed \union Overlooked(o, i)
      PROVE  MemoryInv'
  <2>1. PICK old : old = op[o].seen[i]
    OBVIOUS
  <2>2. /\ i \in DOMAIN rows /\ old \in RowType /\ old.says \subseteq told
             /\ SameOwner(old, rows[i])
    BY <1>1, <1>2, <1>5, <2>1, OpHas DEF Works, Holding, Known, WriteRow
  <2>3. PICK row : row = [old EXCEPT !.st = "archived"]
    OBVIOUS
  <2>4. row \in RowType /\ SameOwner(row, rows[i]) /\ row.says = old.says
    BY <2>2, <2>3 DEF RowType, SameOwner
  <2>5. Overlooked(o, i) = rows[i].says \ old.says
    BY <2>1, <2>2 DEF Overlooked
  <2>6. rows[i].says \subseteq told /\ shed \subseteq told /\ gone \subseteq Facts
          /\ told \subseteq Facts
    BY <2>2 DEF MemoryInv, TypeOK
  <2>7. /\ shed \subseteq shed' /\ shed' \subseteq told' /\ row.says \subseteq told'
        /\ rows[i].says \ row.says \subseteq gone' \union shed'
    BY <1>1, <1>5, <2>2, <2>4, <2>5, <2>6
  <2>8. WriteRow(i, row)
    BY <1>5, <2>1, <2>3
  <2>9. Progress /\ NoDecision
    BY <1>1, <2>4, <2>6, <2>7, <2>8, RowWritten
  <2> QED
    BY <1>1, <1>3, <2>9, PromotionGoesOn
<1> QED
  BY <1>2, <1>4, <1>5

-----------------------------------------------------------------------------
(* Review.                                                                    *)

LEMMA ReviewKind ==
  ASSUME MemoryInv, NEW o \in Ops, op[o].pc \in {"get promotion", "decide"}
  PROVE  op[o].kind = "review"
BY OpHas DEF Path, Working

(* The proposal is read. *)
LEMMA GetPromotionStep ==
  ASSUME MemoryInv, NEW o \in Ops, GetPromotion(o)
  PROVE  MemoryInv'
<1>1. op[o].pc = "get promotion"
        /\ UNCHANGED <<rows, index, used, promos, project, told, gone, shed>>
  BY DEF GetPromotion
<1>2. PICK i \in DOMAIN promos :
        op' = [op EXCEPT ![o].pc = "decide", ![o].todo = {i}, ![o].open = promos[i].st = "pending",
                         ![o].seen = Part({i} \intersect DOMAIN rows)]
  BY DEF GetPromotion
<1>3. op[o].kind = "review" /\ op[o].todo = {}
  BY <1>1, OpHas, ReviewKind DEF OnPath
<1>4. PICK f : f = Part({i} \intersect DOMAIN rows)
  OBVIOUS
<1>5. Known(f)
  BY <1>4, PartKnown
<1>6. /\ DOMAIN op' = Ops /\ \A p \in Ops \ {o} : op'[p] = op[p]
      /\ DOMAIN op'[o] = Fields /\ op'[o].pc = "decide" /\ op'[o].todo = {i} /\ op'[o].seen = f
      /\ op'[o].kind = "review" /\ op'[o].before = op[o].before
  BY <1>2, <1>3, <1>4, OpHas DEF Fields
<1>7. PICK r : r = op'[o]
  OBVIOUS
<1>8. Progress /\ NoDecision
  BY <1>1, NothingStored
<1>9. OnPath(r)
  BY <1>6, <1>7 DEF OnPath, Path
<1>10. Works(r) /\ Compacts(r)
  <2>1. op[o].before \subseteq 1..used /\ i \in 1..used
    BY OpHas DEF Works, MemoryInv, TypeOK
  <2> QED
    BY <1>6, <1>7, <2>1 DEF Works, Compacts, Holding, DropsSources
<1>11. Clears(r) /\ Recalls(r) /\ Known(r.seen)
  BY <1>5, <1>6, <1>7 DEF Clears, Recalls
<1>12. OpOK(r)'
  BY <1>8, <1>9, <1>10, <1>11, OpStays DEF OpOK, MemoryInv
<1>13. Decided'
  BY <1>1, <1>3, <1>6, <1>8, NothingDecided
<1> QED
  BY <1>6, <1>7, <1>8, <1>12, <1>13, StepTaken

(* It is decided, or it is not. *)
LEMMA ReviewEnds ==
  ASSUME MemoryInv, NEW o \in Ops, op[o].pc = "decide", Goto(o, "done"), Progress, Decided'
  PROVE  MemoryInv'
<1>1. /\ Alone(o) /\ SameTask(o) /\ DOMAIN op'[o] = Fields /\ op'[o].pc = "done"
      /\ op'[o].todo = op[o].todo /\ op'[o].then = op[o].then /\ op'[o].seen = Nothing
  BY GotoIs, OpHas DEF Over
<1>2. PICK r : r = op'[o]
  OBVIOUS
<1>3. r.kind = "review"
  BY <1>1, <1>2, ReviewKind DEF SameTask
<1>4. OnPath(r) /\ Known(r.seen)
  BY <1>1, <1>2, <1>3 DEF OnPath, Path, Known, Nothing
<1>5. Works(r) /\ Compacts(r) /\ Clears(r) /\ Recalls(r)
  <2>1. r.todo \subseteq 1..used /\ r.before \subseteq 1..used
    BY <1>1, <1>2, OpHas DEF Works, SameTask
  <2> QED
    BY <1>1, <1>2, <1>3, <2>1 DEF Works, Compacts, Clears, Recalls, Holding, DropsSources
<1>6. OpOK(r)'
  BY <1>4, <1>5, OpStays DEF OpOK, MemoryInv
<1> QED
  BY <1>1, <1>2, <1>6, StepTaken DEF Alone

LEMMA ReviewIs ==
  ASSUME MemoryInv, NEW o \in Ops, op[o].pc = "decide", Goto(o, "done")
  PROVE  /\ \A p \in Ops \ {o} : op'[p] = op[p]
         /\ op[o].kind = "review" /\ op[o].todo \subseteq DOMAIN promos
         /\ op[o].todo \subseteq 1..used
         /\ op'[o].kind = "review" /\ op'[o].open = op[o].open /\ op'[o].todo = op[o].todo
         /\ op'[o].pc = "done"
<1>1. Alone(o) /\ SameTask(o) /\ op'[o].pc = "done" /\ op'[o].todo = op[o].todo
  BY GotoIs, OpHas
<1> QED
  BY <1>1, OpHas, ReviewKind DEF Works, Alone, SameTask

LEMMA NotAppliedStep ==
  ASSUME MemoryInv, NEW o \in Ops, NotApplied(o)
  PROVE  MemoryInv'
<1>1. /\ op[o].pc = "decide" /\ Goto(o, "done")
      /\ UNCHANGED <<rows, index, used, promos, project, told, gone, shed>>
  BY DEF NotApplied
<1>2. Progress /\ NoDecision
  BY <1>1, NothingStored
<1>3. Decided'
  BY <1>1, <1>2, ReviewIs, NothingDecided
<1> QED
  BY <1>1, <1>2, <1>3, ReviewEnds

(* Rejected: if there is a copy, another review made it. *)
LEMMA RejectStep ==
  ASSUME MemoryInv, NEW o \in Ops, Reject(o)
  PROVE  MemoryInv'
<1>1. /\ op[o].pc = "decide" /\ op[o].open /\ Goto(o, "done")
      /\ UNCHANGED <<rows, index, used, project, told, gone, shed>>
  BY DEF Reject, StillOpen
<1>2. PICK i \in op[o].todo : promos' = [promos EXCEPT ![i].st = "rejected"]
  BY DEF Reject
<1>3. /\ \A p \in Ops \ {o} : op'[p] = op[p]
      /\ op[o].kind = "review" /\ i \in DOMAIN promos
      /\ op'[o].kind = op[o].kind /\ op'[o].open = op[o].open /\ op'[o].todo = op[o].todo
  BY <1>1, ReviewIs
<1>4. DOMAIN promos' = DOMAIN promos /\ \A j \in DOMAIN promos \ {i} : promos'[j] = promos[j]
  BY <1>2
<1>5. \A j \in DOMAIN promos' : promos'[j] \in PromotionType
  <2>1. promos[i] \in PromotionType /\ promos'[i] = [promos[i] EXCEPT !.st = "rejected"]
    BY <1>2, <1>3 DEF MemoryInv, TypeOK
  <2>2. promos'[i] \in PromotionType
    BY <2>1 DEF PromotionType
  <2> QED
    BY <1>4, <2>2 DEF MemoryInv, TypeOK
<1>6. Progress
  BY <1>1, <1>4, <1>5, RowsStay DEF MemoryInv, TypeOK
<1>7. ASSUME NEW j \in Ids
      PROVE  DecidedOf(j)'
  <2>1. Reviewers(j) \subseteq Reviewers(j)' /\ Finished(j) \subseteq Finished(j)'
    BY <1>1, <1>3, ReviewersStay
  <2>2. Copies(j)' = Copies(j)
    BY <1>1 DEF Copies
  <2>3. CASE j # i
    BY <1>4, <2>1, <2>2, <2>3, DecidedStays
  <2>4. CASE j = i
    <3>1. DecidedOf(i)
      BY <2>4 DEF MemoryInv, Decided
    <3>2. ASSUME Copies(i) # {}
          PROVE  \E p, q \in Reviewers(i)' : p # q
      <4>1. Cardinality(Copies(i)) # 0
        BY <3>2, CopiesCount, FS_EmptySet
      <4>2. Cardinality({}) = 0
        BY FS_EmptySet
      <4>3. Finished(i) # {}
        BY <3>1, <4>1, <4>2, CopiesCount DEF DecidedOf
      <4>4. PICK p \in Finished(i) : TRUE
        BY <4>3
      <4>5. p # o /\ p \in Reviewers(i)'
        BY <1>1, <2>1, <2>4, <4>4 DEF Finished
      <4>6. o \in Reviewers(i)'
        BY <1>1, <1>3 DEF Reviewers
      <4> QED
        BY <4>5, <4>6
    <3>3. /\ Cardinality(Copies(i)) \in Nat /\ Cardinality(Finished(i)) \in Nat
          /\ Cardinality(Finished(i)') \in Nat
          /\ Cardinality(Finished(i)) <= Cardinality(Finished(i)')
      BY <2>1, <2>4, CopiesCount, FS_Subset
    <3>4. Cardinality(Copies(i)') <= Cardinality(Finished(i)')
      BY <2>2, <2>4, <3>1, <3>3 DEF DecidedOf
    <3> QED
      BY <1>3, <1>4, <2>2, <2>4, <3>2, <3>4 DEF DecidedOf
  <2> QED
    BY <2>3, <2>4
<1>8. Decided'
  BY <1>7 DEF Decided
<1> QED
  BY <1>1, <1>6, <1>8, ReviewEnds

(* Approved: one copy more, and one review done more. *)
LEMMA ApproveStep ==
  ASSUME MemoryInv, NEW o \in Ops, Approve(o)
  PROVE  MemoryInv'
<1>1. /\ op[o].pc = "decide" /\ op[o].open /\ Goto(o, "done")
           /\ UNCHANGED <<index, project, gone, shed>>
  BY DEF Approve, StillOpen
<1>2. PICK i \in op[o].todo :
        LET row == [Row(Placed(promos[i].scope), promos[i].says, FALSE) EXCEPT !.by = i]
            source == DOMAIN op[o].seen
        IN /\ source \subseteq DOMAIN rows
           /\ used < MaxId
           /\ rows' = [j \in DOMAIN rows \union {Fresh} |->
                         IF j = Fresh THEN row
                         ELSE IF j \in source THEN [rows[j] EXCEPT !.st = "archived"] ELSE rows[j]]
           /\ used' = Fresh
           /\ told' = told \union row.says
           /\ promos' = [promos EXCEPT ![i].st = "approved"]
  BY DEF Approve
<1>3. /\ \A p \in Ops \ {o} : op'[p] = op[p]
      /\ op[o].kind = "review" /\ i \in DOMAIN promos /\ i \in 1..used
      /\ op'[o].kind = op[o].kind /\ op'[o].open = op[o].open /\ op'[o].todo = op[o].todo
      /\ op'[o].pc = "done"
  BY <1>1, ReviewIs
<1>4. /\ used \in Nat /\ MaxId \in Nat /\ used < MaxId /\ used' = Fresh /\ Fresh = used + 1
      /\ DOMAIN rows \subseteq 1..used /\ 1..used \subseteq Ids
  BY <1>2, MemoryAssumption DEF MemoryInv, TypeOK, Fresh, Ids
<1>5. PICK row : row = [Row(Placed(promos[i].scope), promos[i].says, FALSE) EXCEPT !.by = i]
  OBVIOUS
<1>6. promos[i] \in PromotionType
  BY <1>3 DEF MemoryInv, TypeOK
<1>7. row \in RowType /\ row.by = i /\ row.says = promos[i].says /\ row.says \subseteq Facts
  <2>1. PICK says \in SUBSET Facts : says = promos[i].says
    BY <1>6 DEF PromotionType
  <2>2. PICK scope \in Scopes \union {"unowned"} : scope = Placed(promos[i].scope)
    BY <1>6 DEF PromotionType, Placed, Scopes
  <2>3. PICK base : base = Row(scope, says, FALSE)
    OBVIOUS
  <2>4. base \in RowType /\ base.says = says
    BY <2>3, SaidTyped
  <2>5. row = [base EXCEPT !.by = i] /\ i \in Ids \union {0}
    BY <1>3, <1>4, <1>5, <2>1, <2>2, <2>3
  <2>6. row \in RowType /\ row.by = i /\ row.says = says
    BY <2>4, <2>5 DEF RowType
  <2> QED
    BY <2>1, <2>6
<1>8. /\ told' = told \union row.says
      /\ DOMAIN rows' = DOMAIN rows \union {Fresh} /\ rows'[Fresh] = row
      /\ \A j \in DOMAIN rows : rows'[j] = rows[j] \/ rows'[j] = [rows[j] EXCEPT !.st = "archived"]
  <2>1. Fresh \notin DOMAIN rows
    BY <1>4
  <2> QED
    BY <1>2, <1>5, <2>1
<1>9. \A j \in DOMAIN rows :
        rows'[j] \in RowType /\ SameOwner(rows'[j], rows[j]) /\ rows'[j].says = rows[j].says
  <2>1. ASSUME NEW j \in DOMAIN rows
        PROVE  rows'[j] \in RowType /\ SameOwner(rows'[j], rows[j]) /\ rows'[j].says = rows[j].says
    <3>1. rows[j] \in RowType
      BY DEF MemoryInv, TypeOK
    <3>2. CASE rows'[j] = rows[j]
      BY <3>1, <3>2 DEF SameOwner
    <3>3. CASE rows'[j] = [rows[j] EXCEPT !.st = "archived"]
      BY <3>1, <3>3 DEF SameOwner, RowType
    <3> QED
      BY <1>8, <3>2, <3>3
  <2> QED
    BY <2>1
<1>10. DOMAIN promos' = DOMAIN promos /\ \A j \in DOMAIN promos \ {i} : promos'[j] = promos[j]
  BY <1>2
<1>11. promos'[i] \in PromotionType /\ promos'[i].st = "approved"
  <2>1. promos'[i] = [promos[i] EXCEPT !.st = "approved"]
    BY <1>2, <1>3
  <2> QED
    BY <1>6, <2>1 DEF PromotionType
<1>12. Progress
  <2>1. used' \in 0..MaxId /\ used <= used' /\ 1..used \subseteq 1..used' /\ Fresh \in 1..used'
    BY <1>4
  <2>2. DOMAIN rows' \subseteq 1..used' /\ DOMAIN index' \subseteq 1..used'
          /\ DOMAIN promos' \subseteq 1..used'
    BY <1>1, <1>4, <1>8, <1>10, <2>1 DEF MemoryInv, TypeOK
  <2>3. \A j \in DOMAIN rows' : rows'[j] \in RowType /\ rows'[j].says \subseteq told'
    BY <1>7, <1>8, <1>9 DEF MemoryInv
  <2>4. \A j \in DOMAIN rows' : j <= used => j \in DOMAIN rows /\ SameOwner(rows'[j], rows[j])
    BY <1>4, <1>8, <1>9
  <2>5. \A j \in DOMAIN rows : j <= j /\ j \in DOMAIN rows'
    BY <1>4, <1>8
  <2>6. \A f \in told' : f \in told \/ \E j \in DOMAIN rows' : f \in rows'[j].says
    BY <1>8
  <2>7. gone' \subseteq Facts /\ told' \subseteq Facts /\ shed' \subseteq told'
          /\ told \subseteq told'
    BY <1>1, <1>7, <1>8 DEF MemoryInv, TypeOK
  <2>8. \A j \in DOMAIN promos' : promos'[j] \in PromotionType
    BY <1>10, <1>11 DEF MemoryInv, TypeOK
  <2> QED
    BY <1>1, <1>9, <1>10, <2>1, <2>2, <2>3, <2>4, <2>5, <2>6, <2>7, <2>8 DEF Progress
<1>13. ASSUME NEW j \in Ids
       PROVE  DecidedOf(j)'
  <2>1. Reviewers(j) \subseteq Reviewers(j)' /\ Finished(j) \subseteq Finished(j)'
    BY <1>1, <1>3, ReviewersStay
  <2>2. Copies(j)' = Copies(j) \union (IF j = i THEN {Fresh} ELSE {})
    BY <1>7, <1>8, <1>9 DEF Copies, SameOwner
  <2>3. CASE j # i
    BY <1>10, <2>1, <2>2, <2>3, DecidedStays
  <2>4. CASE j = i
    <3>1. DecidedOf(i)
      BY <2>4 DEF MemoryInv, Decided
    <3>2. Fresh \notin Copies(i)
      BY <1>4 DEF Copies
    <3>3. Cardinality(Copies(i) \union {Fresh}) = Cardinality(Copies(i)) + 1
      BY <3>2, CopiesCount, FS_AddElement
    <3>4. o \notin Finished(i) /\ o \in Finished(i)'
      BY <1>1, <1>3 DEF Finished, Reviewers
    <3>5. Cardinality(Finished(i) \union {o}) = Cardinality(Finished(i)) + 1
      BY <3>4, CopiesCount, FS_AddElement
    <3>6. Cardinality(Finished(i) \union {o}) <= Cardinality(Finished(i)')
      BY <2>1, <2>4, <3>4, CopiesCount, FS_Subset
    <3>7. Cardinality(Copies(i)') <= Cardinality(Finished(i)')
      <4>1. PICK m : m = Cardinality(Copies(i))
        OBVIOUS
      <4>2. PICK n : n = Cardinality(Finished(i))
        OBVIOUS
      <4>3. PICK k : k = Cardinality(Finished(i)')
        OBVIOUS
      <4>4. m \in Nat /\ n \in Nat /\ k \in Nat
        BY <4>1, <4>2, <4>3, CopiesCount
      <4>5. m <= n /\ n + 1 <= k
        BY <3>1, <3>5, <3>6, <4>1, <4>2, <4>3 DEF DecidedOf
      <4>6. Cardinality(Copies(i)') = m + 1
        BY <2>2, <2>4, <3>3, <4>1
      <4> QED
        BY <4>3, <4>4, <4>5, <4>6
    <3> QED
      BY <1>3, <1>10, <1>11, <2>4, <3>7 DEF DecidedOf
  <2> QED
    BY <2>3, <2>4
<1>14. Decided'
  BY <1>13 DEF Decided
<1> QED
  BY <1>1, <1>12, <1>14, ReviewEnds

-----------------------------------------------------------------------------
(* Recall.                                                                    *)

LEMMA RecallGoesOn ==
  ASSUME MemoryInv, NEW o \in Ops, op[o].kind = "recall", op[o].pc # "done", Progress, NoDecision,
         Alone(o), SameTask(o), DOMAIN op'[o] = Fields, NEW r, r = op'[o],
         r.pc \in {"query", "touch", "done"}, Known(r.seen), r.todo \subseteq 1..used,
         r.before \intersect DOMAIN r.seen = {}, r.before \intersect r.todo = {}
  PROVE  MemoryInv'
<1>1. r.kind = "recall" /\ r.before = op[o].before
  BY DEF SameTask
<1>2. OnPath(r)
  BY <1>1 DEF OnPath, Path
<1>3. Works(r) /\ Compacts(r) /\ Clears(r)
  BY <1>1, OpHas DEF Works, Compacts, Clears, Holding, DropsSources
<1>4. Recalls(r)
  BY <1>1, OpHas DEF Recalls
<1>5. OpOK(r)'
  BY <1>2, <1>3, <1>4, OpStays DEF OpOK, MemoryInv
<1>6. Decided'
  BY NothingDecided DEF Alone
<1> QED
  BY <1>5, <1>6, StepTaken DEF Alone

LEMMA RecallStep ==
  ASSUME MemoryInv, NEW o \in Ops, ReadScopes(o) \/ QueryIndex(o) \/ TouchMemories(o)
  PROVE  MemoryInv'
<1>1. op[o].pc \in {"read", "query", "touch"}
  BY DEF ReadScopes, QueryIndex, TouchMemories
<1>2. op[o].kind = "recall"
  BY <1>1, OpHas DEF Path, Working
<1>3. /\ op[o].before \intersect DOMAIN rows = {} /\ op[o].before \intersect DOMAIN op[o].seen = {}
      /\ op[o].before \intersect op[o].todo = {} /\ op[o].todo \subseteq 1..used
      /\ Known(op[o].seen)
  BY <1>2, OpHas DEF Recalls, Works
<1>4. PICK r : r = op'[o]
  OBVIOUS
<1>5. CASE ReadScopes(o)
  <2>1. UNCHANGED <<rows, index, used, promos, project, told, gone, shed>>
    BY <1>5 DEF ReadScopes
  <2>2. PICK S : /\ S = Listed("session") \union Listed("user")
                          \union (IF bound THEN Listed("project") ELSE {})
                 /\ Hold(o, "query", Part(S), {})
    BY <1>5 DEF ReadScopes
  <2>3. S \subseteq DOMAIN rows
    BY <2>2 DEF Listed
  <2>4. /\ Alone(o) /\ SameTask(o) /\ DOMAIN op'[o] = Fields /\ op'[o].pc = "query"
        /\ op'[o].todo = {} /\ op'[o].seen = Part(S)
    BY <2>2, HoldIs, OpHas
  <2>5. Known(Part(S)) /\ DOMAIN Part(S) = S
    BY <2>3, PartKnown
  <2>6. r.before = op[o].before /\ r.seen = Part(S) /\ r.todo = {} /\ r.pc = "query"
    BY <1>4, <2>4 DEF SameTask
  <2>7. Known(r.seen) /\ r.before \intersect DOMAIN r.seen = {}
    BY <1>3, <2>3, <2>5, <2>6
  <2> QED
    BY <1>1, <1>2, <1>4, <2>1, <2>4, <2>6, <2>7, NothingStored, RecallGoesOn
<1>6. CASE QueryIndex(o)
  <2>1. op[o].pc = "query" /\ UNCHANGED <<rows, index, used, promos, project, told, gone, shed>>
    BY <1>6 DEF QueryIndex
  <2>2. PICK hits \in SUBSET Active, words \in {{}, DOMAIN op[o].seen} :
          op' = [op EXCEPT ![o].todo = Selected(o, hits, words),
                           ![o].pc = IF Selected(o, hits, words) = {} THEN "done" ELSE "touch"]
    BY <1>6 DEF QueryIndex
  <2>3. PICK S : S = Selected(o, hits, words)
    OBVIOUS
  <2>4. S \subseteq DOMAIN op[o].seen
    BY <2>2, <2>3 DEF Selected
  <2>5. /\ Alone(o) /\ SameTask(o) /\ DOMAIN op'[o] = Fields /\ op'[o].pc \in {"done", "touch"}
        /\ op'[o].todo = S /\ op'[o].seen = op[o].seen
    BY <2>2, <2>3, OpHas DEF Alone, SameTask, Fields
  <2>6. S \subseteq 1..used
    BY <1>3, <2>4 DEF Known
  <2>7. r.before = op[o].before /\ r.seen = op[o].seen /\ r.todo = S /\ r.pc \in {"done", "touch"}
    BY <1>4, <2>5 DEF SameTask
  <2>8. Known(r.seen) /\ r.before \intersect DOMAIN r.seen = {} /\ r.before \intersect r.todo = {}
    BY <1>3, <2>4, <2>7
  <2> QED
    BY <1>2, <1>4, <2>1, <2>5, <2>6, <2>7, <2>8, NothingStored, RecallGoesOn
<1>7. CASE TouchMemories(o)
  <2>1. /\ op[o].pc = "touch" /\ Goto(o, "done")
             /\ UNCHANGED <<index, used, promos, project, told, gone, shed>>
        /\ rows' = [i \in DOMAIN rows |-> IF i \in op[o].todo THEN Touched(rows[i]) ELSE rows[i]]
    BY <1>7 DEF TouchMemories
  <2>2. \A i \in DOMAIN rows : rows[i] \in RowType /\ rows[i].says \subseteq told
    BY DEF MemoryInv, TypeOK
  <2>3. /\ DOMAIN rows' = DOMAIN rows
        /\ \A i \in DOMAIN rows : /\ rows'[i] \in RowType /\ SameOwner(rows'[i], rows[i])
                                  /\ rows'[i].says = rows[i].says
    BY <2>1, <2>2, TouchedIs DEF SameOwner
  <2>4. used \in 0..MaxId /\ used <= used /\ DOMAIN rows \subseteq 1..used
          /\ \A i \in DOMAIN rows : i <= i
    BY MemoryAssumption DEF MemoryInv, TypeOK
  <2>5. Progress
    BY <2>1, <2>2, <2>3, <2>4 DEF Progress, MemoryInv, TypeOK
  <2>6. NoDecision
    BY <2>1, <2>3, <2>4 DEF NoDecision
  <2>7. /\ Alone(o) /\ SameTask(o) /\ DOMAIN op'[o] = Fields /\ op'[o].pc = "done"
        /\ op'[o].todo = op[o].todo /\ op'[o].seen = Nothing
    BY <2>1, GotoIs, OpHas DEF Over
  <2>8. r.before = op[o].before /\ r.seen = Nothing /\ r.todo = op[o].todo /\ r.pc = "done"
    BY <1>4, <2>7 DEF SameTask
  <2>9. DOMAIN Nothing = {} /\ Known(Nothing)
    BY DEF Nothing, Known
  <2> QED
    BY <1>2, <1>3, <1>4, <2>1, <2>5, <2>6, <2>7, <2>8, <2>9, RecallGoesOn
<1> QED
  BY <1>5, <1>6, <1>7

-----------------------------------------------------------------------------
(* Whatever happens, the invariant holds.                                     *)
LEMMA MemoryGoesOn == MemoryInv /\ [Next]_vars => MemoryInv'
<1> SUFFICES ASSUME MemoryInv, [Next]_vars
             PROVE  MemoryInv'
  OBVIOUS
<1>1. CASE UNCHANGED vars
  <2>1. UNCHANGED <<rows, index, used, promos, project, op, told, gone, shed>>
    BY <1>1 DEF vars
  <2>2. Progress
    BY <2>1, NothingStored
  <2>3. ASSUME NEW o \in Ops
        PROVE  OpOK(op[o])'
    <3>1. PICK r : r = op[o]
      OBVIOUS
    <3>2. OpOK(r)'
      BY <2>2, <3>1, OpStays DEF MemoryInv
    <3> QED
      BY <2>1, <3>1, <3>2, OpIs
  <2>4. /\ TypeOK' /\ NothingErased' /\ DOMAIN op' = Ops
        /\ \A i \in DOMAIN rows' : rows'[i].says \subseteq told'
    BY <2>1 DEF MemoryInv, TypeOK, NothingErased, Says
  <2>5. Decided'
    BY <2>1 DEF MemoryInv, Decided, DecidedOf, Copies, Finished, Reviewers
  <2> QED
    BY <2>3, <2>4, <2>5 DEF MemoryInv
<1>2. ASSUME NEW o \in Ops, Step(o)
      PROVE  MemoryInv'
  <2>1. CASE Begin(o) \/ Cut(o) \/ UpdateIndex(o)
    BY <2>1, BeginStep, CutStep, UpdateIndexStep
  <2>2. CASE CreateMemory(o) \/ SaveMemory(o) \/ Answer(o) \/ PersistSummary(o)
    BY <2>2, NewMemoryStep
  <2>3. CASE GetMemory(o) \/ PatchMemory(o) \/ FindMemory(o) \/ DeleteMemories(o)
    BY <2>3, GetMemoryStep, PatchMemoryStep, DeleteStep
  <2>4. CASE \/ ForgetSession(o) \/ ForgetConversation(o) \/ UnindexConversation(o)
             \/ UnbindConversation(o) \/ DeleteProject(o) \/ GetProject(o) \/ BindConversation(o)
    BY <2>4, ForgetStep, DeleteProjectStep, BindStep
  <2>5. CASE ListCandidates(o) \/ AddCandidate(o) \/ RejectCandidate(o) \/ MergeCandidate(o)
    BY <2>5, ListCandidatesStep, AddCandidateStep, MergeCandidateStep
  <2>6. CASE Gather(o) \/ AddSummary(o) \/ DropSource(o)
    BY <2>6, GatherStep, AddSummaryStep, DropSourceStep
  <2>7. CASE ListPromotable(o) \/ KeepAll(o) \/ KeepOne(o) \/ Propose(o) \/ Promote(o) \/ Archive(o)
    BY <2>7, ListPromotableStep, KeepStep, ProposeStep, PromoteStep, ArchiveStep
  <2>8. CASE GetPromotion(o) \/ Approve(o) \/ Reject(o) \/ NotApplied(o)
    BY <2>8, GetPromotionStep, ApproveStep, RejectStep, NotAppliedStep
  <2>9. CASE ReadScopes(o) \/ QueryIndex(o) \/ TouchMemories(o)
    BY <2>9, RecallStep
  <2> QED
    BY <1>2, <2>1, <2>2, <2>3, <2>4, <2>5, <2>6, <2>7, <2>8, <2>9 DEF Step
<1> QED
  BY <1>1, <1>2 DEF Next, Finish

(* What follows of it. *)
LEMMA MemorySays == MemoryInv => NothingErased /\ DecidedOnce /\ Forgotten /\ NoGhostsRecalled
<1> SUFFICES ASSUME MemoryInv
             PROVE  NothingErased /\ DecidedOnce /\ Forgotten /\ NoGhostsRecalled
  OBVIOUS
<1>1. NothingErased
  BY DEF MemoryInv
<1>2. ASSUME NEW i \in DOMAIN promos
      PROVE  /\ Cardinality(Copies(i)) <= Cardinality(Reviewers(i))
             /\ Cardinality(Reviewers(i)) = 1 /\ Copies(i) # {} => promos[i].st = "approved"
  <2>1. DecidedOf(i)
    BY MemoryAssumption DEF MemoryInv, TypeOK, Decided, Ids
  <2>2. Finished(i) \subseteq Reviewers(i) /\ Reviewers(i) \subseteq Ops
    BY DEF Finished, Reviewers
  <2>3. IsFiniteSet(Reviewers(i))
    BY <2>2, FS_Subset, MemoryAssumption
  <2>4. /\ Cardinality(Finished(i)) <= Cardinality(Reviewers(i))
             /\ Cardinality(Reviewers(i)) \in Nat
        /\ Cardinality(Copies(i)) \in Nat /\ Cardinality(Finished(i)) \in Nat
    BY <2>2, <2>3, FS_Subset, FS_CardinalityType, CopiesCount
  <2>5. ASSUME Cardinality(Reviewers(i)) = 1
        PROVE  ~ \E p, q \in Reviewers(i) : p # q
    <3>1. PICK x : Reviewers(i) = {x}
      BY <2>3, <2>5, FS_Singleton
    <3> QED
      BY <3>1
  <2> QED
    BY <2>1, <2>4, <2>5 DEF DecidedOf
<1>3. Forgotten
  BY OpHas DEF Forgotten, Forgetting, Clears
<1>4. NoGhostsRecalled
  BY OpHas DEF NoGhostsRecalled, Recalls
<1> QED
  BY <1>1, <1>2, <1>3, <1>4 DEF DecidedOnce

-----------------------------------------------------------------------------
(* What a step may do to the memories there are.                              *)
Permitted(i, o) ==
  /\ op'[o] # op[o]
  /\ \/ op[o].pc \in Deliberate
     \/ /\ i \in DOMAIN op[o].seen
        /\ ~op[o].seen[i].locked \/ op[o].seen[i].says # rows[i].says
Respects(o) ==
  /\ \A i \in 1..used : i \notin DOMAIN rows => i \notin DOMAIN rows'
  /\ \A i \in DOMAIN rows :
       rows[i].locked /\ (i \notin DOMAIN rows' \/ rows'[i].says # rows[i].says) => Permitted(i, o)

LEMMA InsertRespects ==
  ASSUME MemoryInv, NEW o \in Ops, NEW row, Insert(row)
  PROVE  Respects(o)
<1>1. Fresh \notin 1..used /\ DOMAIN rows \subseteq 1..used
  BY DEF Fresh, MemoryInv, TypeOK
<1>2. DOMAIN rows' = DOMAIN rows \union {Fresh} /\ \A i \in DOMAIN rows : rows'[i] = rows[i]
  BY <1>1 DEF Insert
<1> QED
  BY <1>1, <1>2 DEF Respects

LEMMA StepRespects ==
  ASSUME MemoryInv, NEW o \in Ops, Step(o)
  PROVE  Respects(o)
<1>1. CASE UNCHANGED rows
  BY <1>1 DEF Respects
<1>2. CASE \E row : Insert(row)
  BY <1>2, InsertRespects
<1>3. CASE \/ Begin(o) \/ Cut(o) \/ UpdateIndex(o) \/ GetMemory(o) \/ FindMemory(o)
           \/ UnindexConversation(o) \/ UnbindConversation(o) \/ GetProject(o)
           \/ BindConversation(o) \/ ListCandidates(o) \/ Gather(o)
           \/ ListPromotable(o) \/ KeepAll(o) \/ KeepOne(o) \/ Propose(o)
           \/ GetPromotion(o) \/ Reject(o) \/ NotApplied(o) \/ ReadScopes(o) \/ QueryIndex(o)
  <2>1. CASE Begin(o) \/ Cut(o) \/ UpdateIndex(o) \/ GetMemory(o) \/ FindMemory(o)
    BY <1>1, <2>1 DEF Begin, Cut, UpdateIndex, GetMemory, FindMemory
  <2>2. CASE \/ UnindexConversation(o) \/ UnbindConversation(o) \/ GetProject(o)
                  \/ BindConversation(o)
             \/ ListCandidates(o) \/ Gather(o)
    BY <1>1, <2>2 DEF UnindexConversation, UnbindConversation, GetProject, BindConversation,
                      ListCandidates, Gather
  <2>3. CASE ListPromotable(o) \/ KeepAll(o) \/ KeepOne(o) \/ Propose(o)
    BY <1>1, <2>3 DEF ListPromotable, KeepAll, KeepOne, Propose
  <2>4. CASE GetPromotion(o) \/ Reject(o) \/ NotApplied(o) \/ ReadScopes(o) \/ QueryIndex(o)
    BY <1>1, <2>4 DEF GetPromotion, Reject, NotApplied, ReadScopes, QueryIndex
  <2> QED
    BY <1>3, <2>1, <2>2, <2>3, <2>4
<1>4. CASE \/ CreateMemory(o) \/ SaveMemory(o) \/ Answer(o) \/ PersistSummary(o)
           \/ AddCandidate(o) \/ RejectCandidate(o) \/ AddSummary(o) \/ Promote(o)
  <2>1. CASE CreateMemory(o) \/ SaveMemory(o) \/ Answer(o) \/ PersistSummary(o)
    BY <1>1, <1>2, <2>1 DEF CreateMemory, SaveMemory, Answer, PersistSummary, InsertAs
  <2>2. CASE AddCandidate(o) \/ RejectCandidate(o) \/ AddSummary(o) \/ Promote(o)
    BY <1>2, <2>2 DEF AddCandidate, RejectCandidate, AddSummary, Promote
  <2> QED
    BY <1>4, <2>1, <2>2
<1>5. CASE PatchMemory(o)
  <2>1. op[o].pc = "patch"
    BY <1>5 DEF PatchMemory
  <2>2. ASSUME NEW i, NEW row, NEW doc, WriteRow(i, row), Then(o, doc, "done", {})
        PROVE  Respects(o)
    <3>1. op'[o].pc \in {"index", "done"}
      BY <2>2, ThenIs, OpHas
    <3>2. op'[o] # op[o]
      BY <2>1, <3>1
    <3> QED
      BY <2>1, <2>2, <3>2 DEF Respects, Permitted, Deliberate, WriteRow
  <2> QED
    BY <1>1, <1>5, <2>2 DEF PatchMemory
<1>6. CASE DeleteMemories(o)
  <2>1. PICK S : rows' = Without(rows, S) /\ Then(o, Removed(S), "done", {})
    BY <1>6 DEF DeleteMemories
  <2>2. op[o].pc = "drop" /\ op'[o].pc \in {"index", "done"}
    BY <1>6, <2>1, ThenIs, OpHas DEF DeleteMemories
  <2>3. op'[o] # op[o] /\ op[o].pc \in Deliberate
    BY <2>2 DEF Deliberate
  <2>4. DOMAIN rows' \subseteq DOMAIN rows
    BY <2>1 DEF Without
  <2> QED
    BY <2>3, <2>4 DEF Respects, Permitted
<1>7. CASE (ForgetSession(o) \/ ForgetConversation(o) \/ DeleteProject(o)) /\ rows' # rows
  <2>1. PICK step \in {"conversation", "unindex", "done"}, S \in SUBSET DOMAIN rows :
          DropRows(o, S, step) /\ step # op[o].pc
    <3>1. {i \in DOMAIN rows : rows[i].scope = "session"} \in SUBSET DOMAIN rows
      OBVIOUS
    <3>2. {i \in DOMAIN rows : rows[i].scope = "project"} \in SUBSET DOMAIN rows
      OBVIOUS
    <3>3. {i \in DOMAIN rows : rows[i].conv} \in SUBSET DOMAIN rows
      OBVIOUS
    <3> QED
      BY <1>7, <3>1, <3>2, <3>3 DEF ForgetSession, ForgetConversation, DeleteProject
  <2>2. op[o].pc \in Deliberate /\ op'[o].pc = step /\ rows' = Without(rows, S)
    BY <1>7, <2>1, GotoIs, OpHas
       DEF ForgetSession, ForgetConversation, DeleteProject, Deliberate, DropRows
  <2>3. op'[o] # op[o]
    BY <2>1, <2>2
  <2> QED
    BY <2>2, <2>3 DEF Respects, Permitted, Without
<1>8. CASE MergeCandidate(o)
  <2>1. op[o].pc = "consolidate"
    BY <1>8 DEF MergeCandidate
  <2>2. ASSUME NEW i \in DOMAIN op[o].seen, NEW row, NEW doc,
               op[o].seen[i].locked => row.says = op[o].seen[i].says,
               WriteRow(i, row),
               Then(o, doc, "gather", {})
        PROVE  Respects(o)
    <3>1. op'[o].pc \in {"index", "gather"}
      BY <2>2, ThenIs, OpHas
    <3>2. op'[o] # op[o]
      BY <2>1, <3>1
    <3> QED
      BY <2>2, <3>2 DEF Respects, Permitted, WriteRow
  <2> QED
    <3>1. PICK i \in DOMAIN op[o].seen :
            \/ UNCHANGED rows
            \/ \E says \in Texts(op[o].seen[i], o) :
                 LET row == [Touched(op[o].seen[i]) EXCEPT !.says = says]
                 IN WriteRow(i, row) /\ Then(o, [j \in {i} |-> row], "gather", {})
      BY <1>8 DEF MergeCandidate, Alike
    <3>2. ASSUME NEW says \in Texts(op[o].seen[i], o), NEW row,
                 row = [Touched(op[o].seen[i]) EXCEPT !.says = says],
                 WriteRow(i, row), Then(o, [j \in {i} |-> row], "gather", {})
          PROVE  Respects(o)
      <4>1. op[o].seen[i] \in RowType
        BY OpHas DEF Known
      <4>2. Touched(op[o].seen[i]) \in RowType
        BY <4>1, TouchedIs
      <4>3. row.says = says
        BY <3>2, <4>2 DEF RowType
      <4>4. op[o].seen[i].locked => says = op[o].seen[i].says
        BY DEF Texts
      <4> QED
        BY <2>2, <3>2, <4>3, <4>4
    <3> QED
      BY <1>1, <3>1, <3>2
<1>9. CASE DropSource(o)
  <2>1. op[o].pc = "sources"
    BY <1>9 DEF DropSource
  <2>2. ASSUME NEW i \in op[o].todo, rows' = Without(rows, {i}),
               Then(o, Removed({i}), "sources", op[o].todo \ {i})
        PROVE  Respects(o)
    <3>1. op'[o].todo = op[o].todo \ {i}
      BY <2>2, ThenIs, OpHas
    <3>2. op'[o] # op[o]
      BY <2>2, <3>1
    <3>3. i \in DOMAIN op[o].seen /\ ~op[o].seen[i].locked
      BY <2>1, <2>2, OpHas DEF Works, Holding, DropsSources, Compacts
    <3> QED
      BY <2>2, <3>2, <3>3 DEF Respects, Permitted, Without
  <2> QED
    BY <1>1, <1>9, <2>2 DEF DropSource
<1>10. CASE Archive(o)
  <2>1. op[o].pc \in {"promote", "archive"}
    BY <1>10 DEF Archive
  <2>2. ASSUME NEW i \in IF op[o].pc = "archive" THEN DOMAIN op[o].doc ELSE op[o].todo,
               WriteRow(i, [op[o].seen[i] EXCEPT !.st = "archived"]),
               op' = [op EXCEPT ![o].pc = "promote", ![o].todo = @ \ {i}]
        PROVE  Respects(o)
    <3>1. op'[o].pc = "promote" /\ op'[o].todo = op[o].todo \ {i}
      BY <2>2, OpHas DEF Fields
    <3>2. op'[o] # op[o]
      <4>1. CASE op[o].pc = "archive"
        BY <3>1, <4>1
      <4>2. CASE op[o].pc = "promote"
        BY <2>2, <3>1, <4>2
      <4> QED
        BY <2>1, <4>1, <4>2
    <3>3. i \in DOMAIN op[o].seen /\ op[o].seen[i] \in RowType
      BY <2>1, <2>2, OpHas DEF Works, Holding, Known
    <3>4. PICK row : row = [op[o].seen[i] EXCEPT !.st = "archived"]
      OBVIOUS
    <3>5. row.says = op[o].seen[i].says
      BY <3>3, <3>4 DEF RowType
    <3>6. /\ i \in DOMAIN rows /\ DOMAIN rows' = DOMAIN rows
          /\ \A j \in DOMAIN rows : rows'[j] = IF j = i THEN row ELSE rows[j]
      BY <2>2, <3>4 DEF WriteRow
    <3> QED
      BY <3>2, <3>3, <3>5, <3>6 DEF Respects, Permitted
  <2> QED
    BY <1>1, <1>10, <2>2 DEF Archive
<1>11. CASE Approve(o)
  <2>1. PICK i \in op[o].todo :
          LET row == [Row(Placed(promos[i].scope), promos[i].says, FALSE) EXCEPT !.by = i]
              source == DOMAIN op[o].seen
          IN rows' = [j \in DOMAIN rows \union {Fresh} |->
                        IF j = Fresh THEN row
                        ELSE IF j \in source THEN [rows[j] EXCEPT !.st = "archived"] ELSE rows[j]]
    BY <1>11 DEF Approve
  <2>2. Fresh \notin 1..used /\ DOMAIN rows \subseteq 1..used
    BY DEF Fresh, MemoryInv, TypeOK
  <2>3. ASSUME NEW j \in DOMAIN rows
        PROVE  j \in DOMAIN rows' /\ rows'[j].says = rows[j].says
    <3>1. rows[j] \in RowType
      BY DEF MemoryInv, TypeOK
    <3>2. [rows[j] EXCEPT !.st = "archived"].says = rows[j].says
      BY <3>1 DEF RowType
    <3> QED
      BY <2>1, <2>2, <3>2
  <2> QED
    BY <2>1, <2>2, <2>3 DEF Respects
<1>12. CASE TouchMemories(o)
  <2>1. rows' = [i \in DOMAIN rows |-> IF i \in op[o].todo THEN Touched(rows[i]) ELSE rows[i]]
    BY <1>12 DEF TouchMemories
  <2>2. \A i \in DOMAIN rows : Touched(rows[i]).says = rows[i].says
    BY TouchedIs DEF MemoryInv, TypeOK
  <2> QED
    BY <2>1, <2>2 DEF Respects
<1>13. CASE \/ Begin(o) \/ Cut(o) \/ UpdateIndex(o)
            \/ CreateMemory(o) \/ SaveMemory(o) \/ Answer(o) \/ PersistSummary(o)
            \/ GetMemory(o) \/ PatchMemory(o) \/ FindMemory(o) \/ DeleteMemories(o)
            \/ ForgetSession(o) \/ ForgetConversation(o) \/ UnindexConversation(o)
            \/ UnbindConversation(o) \/ DeleteProject(o) \/ GetProject(o) \/ BindConversation(o)
  BY <1>1, <1>3, <1>4, <1>5, <1>6, <1>7, <1>13
<1>14. CASE \/ ListCandidates(o) \/ AddCandidate(o) \/ RejectCandidate(o) \/ MergeCandidate(o)
            \/ Gather(o) \/ AddSummary(o) \/ DropSource(o)
            \/ ListPromotable(o) \/ KeepAll(o) \/ KeepOne(o) \/ Propose(o) \/ Promote(o)
            \/ Archive(o)
            \/ GetPromotion(o) \/ Approve(o) \/ Reject(o) \/ NotApplied(o)
            \/ ReadScopes(o) \/ QueryIndex(o) \/ TouchMemories(o)
  BY <1>3, <1>4, <1>8, <1>9, <1>10, <1>11, <1>12, <1>14
<1> QED
  BY <1>13, <1>14 DEF Step

LEMMA MemoryRespects ==
  ASSUME MemoryInv, [Next]_vars
  PROVE  /\ \A i \in 1..used : i \notin DOMAIN rows => i \notin DOMAIN rows'
         /\ \A i \in DOMAIN rows :
              rows[i].locked /\ (i \notin DOMAIN rows' \/ rows'[i].says # rows[i].says) =>
                \E o \in Ops : Permitted(i, o)
<1>1. CASE UNCHANGED rows
  BY <1>1
<1>2. ASSUME NEW o \in Ops, Step(o)
      PROVE  Respects(o)
  BY <1>2, StepRespects
<1> QED
  BY <1>1, <1>2 DEF Respects, Next, Finish, vars

-----------------------------------------------------------------------------
(* Attachments.                                                              *)

(* What a request asks for. *)
OpType(q) ==
  /\ Store!Op(q).kind \in {"upload", "remove", "forget", "run", "none"}
  /\ Store!Op(q).kind = "upload" => Store!Op(q).id \in Uploads /\ Store!Op(q).content \in Contents
  /\ Store!Op(q).kind = "remove" => Store!Op(q).id \in Uploads
  /\ Store!Op(q).kind = "forget" => Store!Op(q).conv \in Conversations
  /\ Store!Op(q).kind = "run" =>
       Store!Op(q).conv \in Conversations /\ Store!Op(q).ids \subseteq Uploads

(* Where a request of each kind can be. *)
Places(kind) ==
  CASE kind = "upload" -> {"start", "insert", "over"}
    [] kind = "remove" -> {"start", "unlink", "over"}
    [] kind = "forget" -> {"start", "memories", "rows", "unlink", "over"}
    [] kind = "run" -> {"start", "resolve", "load", "save", "over"}
    [] OTHER -> {"start"}

(* The scene is one of those assumed. *)
SceneHolds ==
  /\ stock \in Store!SceneType
  /\ \A q \in Requests :
       /\ Store!Op(q).kind = "upload" =>
            /\ stock.stored[Store!Op(q).id] = NoContent
            /\ \A p \in Requests \ {q} : Store!Op(p).kind = "upload" =>
                 Store!Op(p).id # Store!Op(q).id
       /\ Store!Op(q).kind = "run" => \A i \in Store!Op(q).ids : stock.stored[i] # NoContent

(* A request is where its kind leads it, and has files to unlink only there.  *)
OnTheWay ==
  \A q \in Requests : where[q] \in Places(Store!Op(q).kind) /\ (keys[q] # {} => where[q] = "unlink")

(* An upload that is not over has no row, and its file is there unless it was *)
(* deleted at the same time.                                                  *)
UploadsFresh ==
  \A q \in Requests : Store!Op(q).kind = "upload" =>
    /\ where[q] \in {"start", "insert"} => table[Store!Op(q).id] = NoContent
    /\ where[q] = "insert" => Store!Op(q).content \in files \union raced

(* A file that is to be unlinked is referred to again only by an upload at    *)
(* the same time.                                                             *)
UnlinkedIsFree ==
  \A q \in Requests : \A k \in keys[q] :
    k \in raced \/ (k \notin Store!Referenced(table) /\ k \notin Store!BeingUploaded)

(* Every file has a row, an upload or a deletion.                             *)
FilesHaveCause ==
  ~crashed =>
    files \subseteq Store!Referenced(table) \union Store!BeingUploaded \union Store!BeingUnlinked

(* A row nobody asked to delete is as it was.                                 *)
WantedStays ==
  \A i \in Uploads :
    stock.stored[i] # NoContent /\ Store!Wanted(i) => table[i] = stock.stored[i]

(* What a run found of the attachments that nobody asked to delete.           *)
WantedFound ==
  \A q \in Requests, i \in Uploads :
    Store!Op(q).kind = "run" /\ i \in Store!Op(q).ids /\ Store!Wanted(i) =>
      /\ where[q] \in {"load", "save"} => i \in refs[q]
      /\ where[q] = "save" => i \in data[q] \/ stock.stored[i] \in raced

(* A run that began is in the table until its conversation is deleted.        *)
RunsRecorded ==
  \A q \in Requests : Store!Op(q).kind = "run" /\ where[q] # "start" =>
    q \in runs \/ Store!Op(q).conv \notin conv

(* Before its rows go, a conversation that no run disturbs has no memories.   *)
AboutToGo ==
  \A q \in Requests : Store!At(q, "forget", "rows") /\ Store!Op(q).conv \notin live =>
    Store!RunsUnderWay(Store!Op(q).conv) = {} /\ Store!Op(q).conv \notin memory

(* And when they are gone nothing comes back.                                 *)
GoneForGood ==
  \A c \in Conversations \ (conv \union live) : Store!RunsUnderWay(c) = {}

(* Only runs are in the table. *)
RunsAreRuns == \A q \in runs : Store!Op(q).kind = "run"

StoreInv ==
  /\ Store!TypeOK /\ SceneHolds /\ OnTheWay /\ RunsAreRuns
  /\ UploadsFresh /\ UnlinkedIsFree /\ FilesHaveCause
  /\ WantedStays /\ WantedFound
  /\ RunsRecorded /\ AboutToGo /\ GoneForGood
  /\ Store!LostOnlyByRace /\ Store!RemnantsOfLiveRunsOnly

(* The requests stay what they are. *)
LEMMA OpTypes ==
  ASSUME SceneHolds
  PROVE  \A q \in Requests : OpType(q)
<1>1. \A q \in Requests : Store!Op(q) \in Store!Operations
  BY DEF SceneHolds, Store!SceneType, Store!Op
<1> QED
  BY <1>1 DEF Store!Operations, OpType

LEMMA SceneSame ==
  ASSUME SceneHolds, stock' = stock
  PROVE  /\ \A q \in Requests : Store!Op(q)' = Store!Op(q) /\ OpType(q)
         /\ \A i \in Uploads : Store!Wanted(i)' = Store!Wanted(i)
         /\ SceneHolds'
<1>1. \A q : Store!Op(q)' = Store!Op(q)
  BY DEF Store!Op
<1> QED
  BY <1>1, OpTypes DEF Store!Wanted, SceneHolds

LEMMA StoreStarts == Store!Init => StoreInv
<1> SUFFICES ASSUME Store!Init
             PROVE  StoreInv
  OBVIOUS
<1>1. stock \in (Stocks \union {IdleStock}) /\ table = stock.stored
        /\ files = {stock.stored[i] : i \in Uploads} \ {NoContent}
      /\ where = [q \in Requests |-> "start"] /\ keys = [q \in Requests |-> {}]
      /\ conv = Conversations /\ runs = {} /\ live = {} /\ raced = {}
      /\ session = {} /\ memory = {} /\ crashed = FALSE
  BY DEF Store!Init
<1>2. SceneHolds
  BY <1>1, ContextAssumption DEF Store!AttachmentsAssumption, SceneHolds, Store!Op
<1>3. table \in [Uploads -> Contents \union {NoContent}]
  BY <1>1, <1>2 DEF SceneHolds, Store!SceneType
<1>4. Store!TypeOK
  <2>1. files \subseteq Contents
    BY <1>1, <1>2 DEF SceneHolds, Store!SceneType
  <2>2. cached = {} /\ refs = [q \in Requests |-> {}] /\ data = [q \in Requests |-> {}]
    BY DEF Store!Init
  <2> QED
    BY <1>1, <1>2, <1>3, <2>1, <2>2 DEF Store!TypeOK, SceneHolds
<1>5. \A q \in Requests : where[q] = "start" /\ keys[q] = {} /\ ~Store!UnderWay(q)
  BY <1>1 DEF Store!UnderWay
<1>6. OnTheWay
  <2>1. \A q \in Requests : "start" \in Places(Store!Op(q).kind)
    BY DEF Places
  <2> QED
    BY <1>5, <2>1 DEF OnTheWay
<1>7. files = Store!Referenced(table)
  BY <1>1 DEF Store!Referenced
<1>8. UploadsFresh /\ UnlinkedIsFree /\ FilesHaveCause /\ Store!LostOnlyByRace
  BY <1>1, <1>2, <1>3, <1>5, <1>7
     DEF UploadsFresh, UnlinkedIsFree, FilesHaveCause, Store!LostOnlyByRace,
     SceneHolds, Store!Referenced
<1>9. WantedStays /\ WantedFound /\ RunsRecorded /\ RunsAreRuns
  BY <1>1, <1>5 DEF WantedStays, WantedFound, RunsRecorded, RunsAreRuns
<1>10. AboutToGo /\ GoneForGood /\ Store!RemnantsOfLiveRunsOnly
  BY <1>1, <1>5 DEF AboutToGo, GoneForGood, Store!RemnantsOfLiveRunsOnly, Store!At
<1> QED
  BY <1>2, <1>4, <1>6, <1>8, <1>9, <1>10 DEF StoreInv

(* What leaves rows, files, uploads and deletions alone. *)
LEMMA StoreSame ==
  ASSUME StoreInv, UNCHANGED <<stock, table, files, keys, raced, crashed>>,
         \A p \in Requests : Store!Op(p).kind = "upload" => where'[p] = where[p]
  PROVE  SceneHolds' /\ UploadsFresh' /\ UnlinkedIsFree' /\ FilesHaveCause' /\ WantedStays'
           /\ Store!LostOnlyByRace'
<1>1. /\ \A p \in Requests : Store!Op(p)' = Store!Op(p)
      /\ \A i \in Uploads : Store!Wanted(i)' = Store!Wanted(i)
      /\ SceneHolds'
  BY SceneSame DEF StoreInv
<1>2. Store!BeingUploaded' = Store!BeingUploaded /\ Store!BeingUnlinked' = Store!BeingUnlinked
  BY <1>1 DEF Store!BeingUploaded, Store!BeingUnlinked, Store!At
<1>3. UploadsFresh'
  BY <1>1 DEF StoreInv, UploadsFresh
<1>4. UnlinkedIsFree' /\ FilesHaveCause' /\ Store!LostOnlyByRace'
  BY <1>2 DEF StoreInv, UnlinkedIsFree, FilesHaveCause, Store!LostOnlyByRace, Store!Referenced
<1>5. WantedStays'
  BY <1>1 DEF StoreInv, WantedStays
<1> QED
  BY <1>1, <1>3, <1>4, <1>5

(* What leaves conversations and runs alone. *)
LEMMA RunsSame ==
  ASSUME StoreInv, UNCHANGED <<stock, conv, session, memory, runs, live, refs, data>>,
         raced \subseteq raced',
         \A p \in Requests : Store!Op(p).kind = "run" => where'[p] = where[p],
         \A p \in Requests : where'[p] = "rows" => where[p] = "rows",
         \A i \in Uploads : stock.stored[i] # NoContent /\ table[i] = NoContent =>
           table'[i] = NoContent
  PROVE  RunsAreRuns' /\ WantedFound' /\ RunsRecorded' /\ AboutToGo' /\ GoneForGood'
           /\ Store!RemnantsOfLiveRunsOnly'
<1>1. /\ \A p \in Requests : Store!Op(p)' = Store!Op(p) /\ OpType(p)
      /\ \A i \in Uploads : Store!Wanted(i)' = Store!Wanted(i)
  BY SceneSame DEF StoreInv
<1>2. RunsAreRuns' /\ WantedFound' /\ RunsRecorded'
  BY <1>1 DEF StoreInv, Store!TypeOK, RunsAreRuns, WantedFound, RunsRecorded
<1>3. \A c : Store!RunsUnderWay(c)' = Store!RunsUnderWay(c)
  BY <1>1 DEF Store!RunsUnderWay, Store!UnderWay
<1>4. AboutToGo' /\ GoneForGood'
  BY <1>1, <1>3 DEF StoreInv, AboutToGo, GoneForGood, Store!At
<1>5. Store!RemnantsOfLiveRunsOnly'
  <2>1. \A c : Store!RunsOf(c)' = Store!RunsOf(c)
    <3>1. runs \subseteq Requests /\ runs' = runs
      BY DEF StoreInv, Store!TypeOK
    <3> QED
      BY <1>1, <3>1 DEF Store!RunsOf
  <2>2. ASSUME NEW c \in Conversations \ (conv \union live), NEW q \in Requests,
               Store!Op(q).kind = "run", Store!Op(q).conv = c, where[q] = "over",
                 NEW i \in Store!Op(q).ids
        PROVE  table'[i] = NoContent
    <3>1. table[i] = NoContent /\ stock.stored[i] # NoContent /\ i \in Uploads
      BY <1>1, <2>2 DEF StoreInv, Store!RemnantsOfLiveRunsOnly, SceneHolds, OpType
    <3> QED
      BY <3>1
  <2>3. \A c \in Conversations \ (conv \union live) :
          c \notin session \union memory /\ Store!RunsOf(c) = {}
    BY DEF StoreInv, Store!RemnantsOfLiveRunsOnly
  <2> QED
    BY <1>1, <2>1, <2>2, <2>3 DEF Store!RemnantsOfLiveRunsOnly
<1> QED
  BY <1>2, <1>4, <1>5

-----------------------------------------------------------------------------
(* Each action. *)

(* The file of an upload is saved. *)
LEMMA UploadSaveStep ==
  ASSUME StoreInv, NEW q \in Requests, Store!UploadSave(q)
  PROVE  StoreInv'
<1>1. /\ Store!Op(q).kind = "upload" /\ where[q] = "start" /\ Store!Op(q).content \in Contents
      /\ files' = files \union {Store!Op(q).content}
      /\ raced' = raced \union ({Store!Op(q).content} \intersect Store!BeingUnlinked)
      /\ where' = [where EXCEPT ![q] = "insert"]
      /\ UNCHANGED <<stock, table, conv, session, cached, memory, runs, keys, refs, data, live,
           crashed>>
  BY SceneSame DEF StoreInv, Store!UploadSave, Store!At, Store!Goto, Store!convVars, OpType
<1>2. /\ \A p \in Requests : Store!Op(p)' = Store!Op(p) /\ OpType(p)
      /\ \A i \in Uploads : Store!Wanted(i)' = Store!Wanted(i)
      /\ SceneHolds'
  BY <1>1, SceneSame DEF StoreInv
<1>3. where'[q] = "insert" /\ \A p \in Requests : p # q => where'[p] = where[p]
  BY <1>1 DEF StoreInv, Store!TypeOK
<1>4. Store!TypeOK'
  BY <1>1 DEF StoreInv, Store!TypeOK
<1>5. OnTheWay'
  BY <1>1, <1>2, <1>3 DEF StoreInv, OnTheWay, Places
<1>6. UploadsFresh'
  BY <1>1, <1>2, <1>3 DEF StoreInv, UploadsFresh
<1>7. \A x : x \in Store!BeingUploaded' <=> x \in Store!BeingUploaded \/ x = Store!Op(q).content
  BY <1>1, <1>2, <1>3 DEF Store!BeingUploaded, Store!At
<1>8. Store!BeingUnlinked' = Store!BeingUnlinked
  BY <1>1 DEF Store!BeingUnlinked
<1>9. UnlinkedIsFree'
  <2>1. \A p \in Requests : \A k \in keys[p] : k \in Store!BeingUnlinked
    BY DEF Store!BeingUnlinked
  <2> QED
    BY <1>1, <1>7, <2>1 DEF StoreInv, UnlinkedIsFree, Store!Referenced
<1>10. FilesHaveCause' /\ Store!LostOnlyByRace'
  BY <1>1, <1>7, <1>8 DEF StoreInv, FilesHaveCause, Store!LostOnlyByRace, Store!Referenced
<1>11. WantedStays'
  BY <1>1, <1>2 DEF StoreInv, WantedStays
<1>12. RunsAreRuns' /\ WantedFound' /\ RunsRecorded' /\ AboutToGo' /\ GoneForGood'
         /\ Store!RemnantsOfLiveRunsOnly'
  <2>1. \A p \in Requests : Store!Op(p).kind = "run" => where'[p] = where[p]
    BY <1>1, <1>3
  <2>2. \A p \in Requests : where'[p] = "rows" => where[p] = "rows"
    BY <1>3
  <2> QED
    BY <1>1, <2>1, <2>2, RunsSame
<1> QED
  BY <1>2, <1>4, <1>5, <1>6, <1>9, <1>10, <1>11, <1>12 DEF StoreInv

(* Its row is inserted. *)
LEMMA UploadInsertStep ==
  ASSUME StoreInv, NEW q \in Requests, Store!UploadInsert(q)
  PROVE  StoreInv'
<1>1. /\ Store!Op(q).kind = "upload" /\ where[q] = "insert" /\ Store!Op(q).content \in Contents
      /\ Store!Op(q).id \in Uploads
      /\ table' = [table EXCEPT ![Store!Op(q).id] = Store!Op(q).content]
      /\ where' = [where EXCEPT ![q] = "over"]
      /\ UNCHANGED <<stock, files, conv, session, cached, memory, runs, keys, refs, data, raced,
           live, crashed>>
  BY SceneSame
     DEF StoreInv, Store!UploadInsert, Store!At, Store!Goto, Store!convVars, OpType, Store!history
<1>2. /\ \A p \in Requests : Store!Op(p)' = Store!Op(p) /\ OpType(p)
      /\ \A i \in Uploads : Store!Wanted(i)' = Store!Wanted(i)
      /\ SceneHolds'
  BY <1>1, SceneSame DEF StoreInv
<1>3. where'[q] = "over" /\ \A p \in Requests : p # q => where'[p] = where[p]
  BY <1>1 DEF StoreInv, Store!TypeOK
<1>4. /\ table'[Store!Op(q).id] = Store!Op(q).content
      /\ \A i \in Uploads : i # Store!Op(q).id => table'[i] = table[i]
      /\ table[Store!Op(q).id] = NoContent /\ Store!Op(q).content # NoContent
      /\ stock.stored[Store!Op(q).id] = NoContent
      /\ \A p \in Requests \ {q} : Store!Op(p).kind = "upload" => Store!Op(p).id # Store!Op(q).id
  BY <1>1, ContextAssumption
     DEF StoreInv, Store!TypeOK, UploadsFresh, SceneHolds, Store!AttachmentsAssumption
<1>5. Store!TypeOK'
  BY <1>1 DEF StoreInv, Store!TypeOK
<1>6. OnTheWay'
  <2>1. keys[q] = {}
    BY <1>1 DEF StoreInv, OnTheWay
  <2> QED
    BY <1>1, <1>2, <1>3, <2>1 DEF StoreInv, OnTheWay, Places
<1>7. UploadsFresh'
  BY <1>1, <1>2, <1>3, <1>4 DEF StoreInv, UploadsFresh, OpType
<1>8. \A x : x \in Store!Referenced(table)' <=>
        x \in Store!Referenced(table) \/ x = Store!Op(q).content
  BY <1>1, <1>4 DEF Store!Referenced
<1>9. /\ Store!BeingUnlinked' = Store!BeingUnlinked
      /\ \A x \in Store!BeingUploaded : x \in Store!BeingUploaded' \/ x = Store!Op(q).content
      /\ Store!BeingUploaded' \subseteq Store!BeingUploaded
      /\ Store!Op(q).content \in Store!BeingUploaded
  BY <1>1, <1>2, <1>3 DEF Store!BeingUploaded, Store!At, Store!BeingUnlinked
<1>10. UnlinkedIsFree'
  <2>1. ASSUME NEW p \in Requests, NEW k \in keys[p]
        PROVE  k \in raced \/ (k \notin Store!Referenced(table)' /\ k \notin Store!BeingUploaded')
    BY <1>8, <1>9, <2>1 DEF StoreInv, UnlinkedIsFree
  <2> QED
    BY <1>1, <2>1 DEF UnlinkedIsFree, Store!Referenced
<1>11. FilesHaveCause'
  BY <1>1, <1>8, <1>9 DEF StoreInv, FilesHaveCause
<1>12. Store!LostOnlyByRace'
  BY <1>1, <1>4 DEF StoreInv, Store!LostOnlyByRace, UploadsFresh
<1>13. WantedStays'
  BY <1>1, <1>2, <1>4 DEF StoreInv, WantedStays
<1>14. RunsAreRuns' /\ WantedFound' /\ RunsRecorded' /\ AboutToGo' /\ GoneForGood'
         /\ Store!RemnantsOfLiveRunsOnly'
  <2>1. \A p \in Requests : Store!Op(p).kind = "run" => where'[p] = where[p]
    BY <1>1, <1>3
  <2>2. \A p \in Requests : where'[p] = "rows" => where[p] = "rows"
    BY <1>3
  <2>3. \A i \in Uploads : stock.stored[i] # NoContent /\ table[i] = NoContent =>
          table'[i] = NoContent
    BY <1>4
  <2> QED
    BY <1>1, <2>1, <2>2, <2>3, RunsSame
<1> QED
  BY <1>2, <1>5, <1>6, <1>7, <1>10, <1>11, <1>12, <1>13, <1>14 DEF StoreInv

(* Rows go, and with them the files that no row refers to any more. *)
LEMMA RowsDropped ==
  ASSUME StoreInv, NEW q \in Requests, NEW ids \in SUBSET Uploads, Store!DropRows(q, ids),
         Store!Op(q).kind \in {"remove", "forget"}, where[q] # "unlink",
         UNCHANGED <<stock, files, crashed>>
  PROVE  /\ table' \in [Uploads -> Contents \union {NoContent}]
         /\ \A i \in Uploads : table'[i] = IF i \in ids THEN NoContent ELSE table[i]
         /\ keys' \in [Requests -> SUBSET Contents] /\ raced' \subseteq Contents
         /\ raced \subseteq raced'
         /\ where'[q] \in {"unlink", "over"} /\ \A p \in Requests : p # q => where'[p] = where[p]
         /\ where' \in [Requests -> {"start", "insert", "unlink", "memories", "rows", "resolve",
              "load", "save", "over"}]
         /\ OnTheWay' /\ UploadsFresh' /\ UnlinkedIsFree' /\ FilesHaveCause'
         /\ Store!LostOnlyByRace'
<1> DEFINE remaining == [i \in Uploads |-> IF i \in ids THEN NoContent ELSE table[i]]
           orphans == Store!Unreferenced(remaining, ids)
<1>1. /\ table' = remaining /\ keys' = [keys EXCEPT ![q] = orphans]
      /\ raced' = raced \union (orphans \intersect Store!BeingUploaded)
      /\ where' = [where EXCEPT ![q] = IF orphans = {} THEN "over" ELSE "unlink"]
  BY DEF Store!DropRows, Store!Goto
<1>2. orphans = {table[i] : i \in ids} \ ({NoContent} \union Store!Referenced(remaining))
  BY DEF Store!Unreferenced
<1> HIDE DEF orphans
<1>3. table \in [Uploads -> Contents \union {NoContent}] /\ orphans \subseteq Contents
  BY <1>2 DEF StoreInv, Store!TypeOK
<1>4. \A i \in Uploads : table'[i] = IF i \in ids THEN NoContent ELSE table[i]
  BY <1>1
<1>5. /\ \A p \in Requests : Store!Op(p)' = Store!Op(p) /\ OpType(p)
      /\ \A i \in Uploads : Store!Wanted(i)' = Store!Wanted(i)
  BY SceneSame DEF StoreInv
<1>6. /\ where'[q] = (IF orphans = {} THEN "over" ELSE "unlink") /\ keys'[q] = orphans
      /\ keys[q] = {}
      /\ \A p \in Requests : p # q => where'[p] = where[p] /\ keys'[p] = keys[p]
  BY <1>1 DEF StoreInv, Store!TypeOK, OnTheWay
<1>7. OnTheWay'
  BY <1>5, <1>6 DEF StoreInv, OnTheWay, Places
<1>8. \A x : x \in Store!Referenced(table) => x \in Store!Referenced(table') \/ x \in orphans
  BY <1>1, <1>2, <1>3, <1>4 DEF Store!Referenced
<1>9. \A x : x \in orphans => x \notin Store!Referenced(table')
  BY <1>1, <1>2
<1>10. Store!Referenced(table') \subseteq Store!Referenced(table)
  BY <1>4 DEF Store!Referenced
<1>11. Store!BeingUploaded' = Store!BeingUploaded
  BY <1>5, <1>6 DEF Store!BeingUploaded, Store!At
<1>12. \A x : x \in Store!BeingUnlinked' <=> x \in Store!BeingUnlinked \/ x \in orphans
  BY <1>6 DEF Store!BeingUnlinked
<1>13. UploadsFresh'
  BY <1>1, <1>4, <1>5, <1>6 DEF StoreInv, UploadsFresh, OpType
<1>14. UnlinkedIsFree'
  <2>1. ASSUME NEW p \in Requests, NEW k \in keys'[p]
        PROVE  k \in raced' \/ (k \notin Store!Referenced(table') /\ k \notin Store!BeingUploaded')
    <3>1. CASE p = q
      BY <1>1, <1>6, <1>9, <1>11, <2>1, <3>1
    <3>2. CASE p # q
      BY <1>1, <1>6, <1>10, <1>11, <2>1, <3>2 DEF StoreInv, UnlinkedIsFree
    <3> QED
      BY <3>1, <3>2
  <2> QED
    BY <2>1 DEF UnlinkedIsFree, Store!Referenced
<1>15. FilesHaveCause'
  BY <1>8, <1>11, <1>12 DEF StoreInv, FilesHaveCause, Store!Referenced
<1>16. Store!LostOnlyByRace'
  BY <1>1, <1>4 DEF StoreInv, Store!LostOnlyByRace
<1>17. keys' \in [Requests -> SUBSET Contents] /\ raced' \subseteq Contents
         /\ raced \subseteq raced'
       /\ table' \in [Uploads -> Contents \union {NoContent}]
       /\ where' \in [Requests -> {"start", "insert", "unlink", "memories", "rows", "resolve",
            "load", "save", "over"}]
  BY <1>1, <1>3 DEF StoreInv, Store!TypeOK
<1> QED
  BY <1>4, <1>6, <1>7, <1>13, <1>14, <1>15, <1>16, <1>17

(* An attachment is deleted. *)
LEMMA RemoveRowStep ==
  ASSUME StoreInv, NEW q \in Requests, Store!RemoveRow(q)
  PROVE  StoreInv'
<1>1. /\ Store!Op(q).kind = "remove" /\ where[q] = "start" /\ Store!Op(q).id \in Uploads
      /\ UNCHANGED <<stock, files, conv, session, cached, memory, runs, refs, data, live, crashed>>
  BY SceneSame DEF StoreInv, Store!RemoveRow, Store!At, Store!convVars, OpType
<1>2. /\ \A p \in Requests : Store!Op(p)' = Store!Op(p) /\ OpType(p)
      /\ \A i \in Uploads : Store!Wanted(i)' = Store!Wanted(i)
      /\ SceneHolds'
  BY <1>1, SceneSame DEF StoreInv
<1>3. CASE table[Store!Op(q).id] = NoContent
  <2>1. where' = [where EXCEPT ![q] = "over"] /\ UNCHANGED <<table, keys, raced>>
    BY <1>3 DEF Store!RemoveRow, Store!Goto
  <2>2. where'[q] = "over" /\ \A p \in Requests : p # q => where'[p] = where[p]
    BY <2>1 DEF StoreInv, Store!TypeOK
  <2>3. Store!TypeOK'
    BY <1>1, <2>1 DEF StoreInv, Store!TypeOK
  <2>4. OnTheWay'
    BY <1>1, <1>2, <2>1, <2>2 DEF StoreInv, OnTheWay, Places
  <2>5. SceneHolds' /\ UploadsFresh' /\ UnlinkedIsFree' /\ FilesHaveCause' /\ WantedStays'
          /\ Store!LostOnlyByRace'
    <3>1. \A p \in Requests : Store!Op(p).kind = "upload" => where'[p] = where[p]
      BY <1>1, <2>2
    <3> QED
      BY <1>1, <2>1, <3>1, StoreSame
  <2>6. RunsAreRuns' /\ WantedFound' /\ RunsRecorded' /\ AboutToGo' /\ GoneForGood'
          /\ Store!RemnantsOfLiveRunsOnly'
    <3>1. \A p \in Requests : Store!Op(p).kind = "run" => where'[p] = where[p]
      BY <1>1, <2>2
    <3>2. \A p \in Requests : where'[p] = "rows" => where[p] = "rows"
      BY <2>2
    <3> QED
      BY <1>1, <2>1, <3>1, <3>2, RunsSame
  <2> QED
    BY <2>3, <2>4, <2>5, <2>6 DEF StoreInv
<1>4. CASE table[Store!Op(q).id] # NoContent
  <2>1. Store!DropRows(q, {Store!Op(q).id})
    BY <1>4 DEF Store!RemoveRow
  <2> DEFINE ids == {Store!Op(q).id}
  <2>2. /\ table' \in [Uploads -> Contents \union {NoContent}]
        /\ \A i \in Uploads : table'[i] = IF i \in ids THEN NoContent ELSE table[i]
        /\ keys' \in [Requests -> SUBSET Contents] /\ raced' \subseteq Contents
        /\ raced \subseteq raced'
        /\ where'[q] \in {"unlink", "over"}
        /\ \A p \in Requests : p # q => where'[p] = where[p]
        /\ where' \in [Requests -> {"start", "insert", "unlink", "memories", "rows", "resolve",
             "load", "save", "over"}]
        /\ OnTheWay' /\ UploadsFresh' /\ UnlinkedIsFree' /\ FilesHaveCause' /\ Store!LostOnlyByRace'
    <3>1. ids \in SUBSET Uploads
      BY <1>1
    <3> QED
      BY <1>1, <2>1, <3>1, RowsDropped
  <2>3. Store!TypeOK'
    BY <1>1, <2>2 DEF StoreInv, Store!TypeOK
  <2>4. WantedStays'
    BY <1>1, <1>2, <2>2 DEF StoreInv, WantedStays, Store!Wanted
  <2>5. RunsAreRuns' /\ WantedFound' /\ RunsRecorded' /\ AboutToGo' /\ GoneForGood'
          /\ Store!RemnantsOfLiveRunsOnly'
    <3>1. \A p \in Requests : Store!Op(p).kind = "run" => where'[p] = where[p]
      BY <1>1, <2>2
    <3>2. \A p \in Requests : where'[p] = "rows" => where[p] = "rows"
      BY <2>2
    <3>3. \A i \in Uploads : stock.stored[i] # NoContent /\ table[i] = NoContent =>
            table'[i] = NoContent
      BY <2>2
    <3> QED
      BY <1>1, <2>2, <3>1, <3>2, <3>3, RunsSame
  <2> QED
    BY <1>2, <2>2, <2>3, <2>4, <2>5 DEF StoreInv
<1> QED
  BY <1>3, <1>4

(* A file of a deletion is unlinked. *)
LEMMA UnlinkStep ==
  ASSUME StoreInv, NEW q \in Requests, Store!Unlink(q)
  PROVE  StoreInv'
<1>1. PICK k \in keys[q] : /\ files' = files \ {k}
                           /\ keys' = [keys EXCEPT ![q] = @ \ {k}]
                           /\ where' = [where EXCEPT ![q] = IF keys[q] =
                                {k} THEN "over" ELSE "unlink"]
  BY DEF Store!Unlink, Store!Goto
<1>2. /\ where[q] = "unlink"
      /\ UNCHANGED <<stock, table, conv, session, cached, memory, runs, refs, data, raced, live,
           crashed>>
  BY DEF Store!Unlink, Store!convVars, Store!history
<1>3. /\ \A p \in Requests : Store!Op(p)' = Store!Op(p) /\ OpType(p)
      /\ \A i \in Uploads : Store!Wanted(i)' = Store!Wanted(i)
      /\ SceneHolds'
  BY <1>2, SceneSame DEF StoreInv
<1>4. /\ where'[q] \in {"unlink", "over"} /\ keys'[q] = keys[q] \ {k}
      /\ keys'[q] # {} => where'[q] = "unlink"
      /\ \A p \in Requests : p # q => where'[p] = where[p] /\ keys'[p] = keys[p]
  BY <1>1 DEF StoreInv, Store!TypeOK
<1>5. Store!Op(q).kind \in {"remove", "forget"}
  BY <1>2, SceneSame DEF StoreInv, OnTheWay, Places, OpType
<1>6. Store!TypeOK'
  BY <1>1, <1>2 DEF StoreInv, Store!TypeOK
<1>7. OnTheWay'
  BY <1>3, <1>4, <1>5 DEF StoreInv, OnTheWay, Places
<1>8. Store!BeingUploaded' = Store!BeingUploaded
  BY <1>3, <1>4, <1>5 DEF Store!BeingUploaded, Store!At
<1>9. \A x : x \in Store!BeingUnlinked => x \in Store!BeingUnlinked' \/ x = k
  BY <1>4 DEF Store!BeingUnlinked
<1>10. k \in raced \/ (k \notin Store!Referenced(table) /\ k \notin Store!BeingUploaded)
  BY DEF StoreInv, UnlinkedIsFree
<1>11. UploadsFresh'
  <2>1. ASSUME NEW p \in Requests, Store!Op(p).kind = "upload"
        PROVE  /\ where'[p] \in {"start", "insert"} => table[Store!Op(p).id] = NoContent
               /\ where'[p] = "insert" => Store!Op(p).content \in files' \union raced
    <3>1. p # q /\ where'[p] = where[p]
      BY <1>4, <1>5, <2>1
    <3>2. where[p] = "insert" => Store!Op(p).content \in Store!BeingUploaded
      BY <2>1 DEF Store!BeingUploaded, Store!At
    <3> QED
      BY <1>1, <1>10, <2>1, <3>1, <3>2 DEF StoreInv, UploadsFresh
  <2> QED
    BY <1>2, <1>3, <2>1 DEF UploadsFresh
<1>12. UnlinkedIsFree'
  BY <1>1, <1>2, <1>4, <1>8 DEF StoreInv, UnlinkedIsFree, Store!Referenced
<1>13. FilesHaveCause'
  BY <1>1, <1>2, <1>8, <1>9 DEF StoreInv, FilesHaveCause, Store!Referenced
<1>14. Store!LostOnlyByRace'
  <2>1. ASSUME NEW i \in Uploads, table[i] # NoContent
        PROVE  table[i] \in files' \union raced
    <3>1. table[i] \in Store!Referenced(table)
      BY <2>1 DEF Store!Referenced
    <3> QED
      BY <1>1, <1>10, <2>1, <3>1 DEF StoreInv, Store!LostOnlyByRace
  <2> QED
    BY <1>2, <2>1 DEF Store!LostOnlyByRace
<1>15. WantedStays'
  BY <1>2, <1>3 DEF StoreInv, WantedStays
<1>16. RunsAreRuns' /\ WantedFound' /\ RunsRecorded' /\ AboutToGo' /\ GoneForGood'
         /\ Store!RemnantsOfLiveRunsOnly'
  <2>1. \A p \in Requests : Store!Op(p).kind = "run" => where'[p] = where[p]
    BY <1>4, <1>5
  <2>2. \A p \in Requests : where'[p] = "rows" => where[p] = "rows"
    BY <1>4
  <2> QED
    BY <1>2, <2>1, <2>2, RunsSame
<1> QED
  BY <1>3, <1>6, <1>7, <1>11, <1>12, <1>13, <1>14, <1>15, <1>16 DEF StoreInv

(* A conversation is looked up to be deleted. *)
LEMMA ForgetFindStep ==
  ASSUME StoreInv, NEW q \in Requests, Store!ForgetFind(q)
  PROVE  StoreInv'
<1>1. /\ Store!Op(q).kind = "forget" /\ where[q] = "start"
      /\ where' = [where EXCEPT ![q] = IF Store!Op(q).conv \in conv THEN "memories" ELSE "over"]
      /\ UNCHANGED <<stock, table, files, conv, session, cached, memory, runs, keys, refs, data,
           raced, live, crashed>>
  BY DEF Store!ForgetFind, Store!At, Store!Goto, Store!storeVars, Store!convVars, Store!history
<1>2. \A p \in Requests : Store!Op(p)' = Store!Op(p)
  BY <1>1, SceneSame DEF StoreInv
<1>3. where'[q] \in {"memories", "over"} /\ \A p \in Requests : p # q => where'[p] = where[p]
  BY <1>1 DEF StoreInv, Store!TypeOK
<1>4. Store!TypeOK'
  BY <1>1 DEF StoreInv, Store!TypeOK
<1>5. OnTheWay'
  BY <1>1, <1>2, <1>3 DEF StoreInv, OnTheWay, Places
<1>6. SceneHolds' /\ UploadsFresh' /\ UnlinkedIsFree' /\ FilesHaveCause' /\ WantedStays'
        /\ Store!LostOnlyByRace'
  <2>1. \A p \in Requests : Store!Op(p).kind = "upload" => where'[p] = where[p]
    BY <1>1, <1>3
  <2> QED
    BY <1>1, <2>1, StoreSame
<1>7. RunsAreRuns' /\ WantedFound' /\ RunsRecorded' /\ AboutToGo' /\ GoneForGood'
        /\ Store!RemnantsOfLiveRunsOnly'
  <2>1. \A p \in Requests : Store!Op(p).kind = "run" => where'[p] = where[p]
    BY <1>1, <1>3
  <2>2. \A p \in Requests : where'[p] = "rows" => where[p] = "rows"
    BY <1>3
  <2> QED
    BY <1>1, <2>1, <2>2, RunsSame
<1> QED
  BY <1>4, <1>5, <1>6, <1>7 DEF StoreInv

(* Its memories go. *)
LEMMA ForgetMemoriesStep ==
  ASSUME StoreInv, NEW q \in Requests, Store!ForgetMemories(q)
  PROVE  StoreInv'
<1> DEFINE c == Store!Op(q).conv
<1>1. /\ Store!Op(q).kind = "forget" /\ where[q] = "memories" /\ c \in Conversations
      /\ where' = [where EXCEPT ![q] = "rows"] /\ memory' = memory \ {c}
      /\ live' = IF Store!RunsUnderWay(c) # {} THEN live \union {c} ELSE live
      /\ UNCHANGED <<stock, table, files, conv, session, cached, runs, keys, refs, data, raced,
           crashed>>
  BY SceneSame
     DEF StoreInv, Store!ForgetMemories, Store!At, Store!Goto, Store!Lively, Store!storeVars, OpType
<1>2. /\ \A p \in Requests : Store!Op(p)' = Store!Op(p) /\ OpType(p)
      /\ \A i \in Uploads : Store!Wanted(i)' = Store!Wanted(i)
  BY <1>1, SceneSame DEF StoreInv
<1>3. where'[q] = "rows" /\ \A p \in Requests : p # q => where'[p] = where[p]
  BY <1>1 DEF StoreInv, Store!TypeOK
<1>4. Store!TypeOK'
  BY <1>1 DEF StoreInv, Store!TypeOK
<1>5. OnTheWay'
  BY <1>1, <1>2, <1>3 DEF StoreInv, OnTheWay, Places
<1>6. SceneHolds' /\ UploadsFresh' /\ UnlinkedIsFree' /\ FilesHaveCause' /\ WantedStays'
        /\ Store!LostOnlyByRace'
  <2>1. \A p \in Requests : Store!Op(p).kind = "upload" => where'[p] = where[p]
    BY <1>1, <1>3
  <2> QED
    BY <1>1, <2>1, StoreSame
<1>7. WantedFound' /\ RunsRecorded'
  BY <1>1, <1>2, <1>3 DEF StoreInv, WantedFound, RunsRecorded
<1>8. \A d : Store!RunsUnderWay(d)' = Store!RunsUnderWay(d)
  BY <1>1, <1>2, <1>3 DEF Store!RunsUnderWay, Store!UnderWay
<1>9. /\ RunsAreRuns'
      /\ \A d : Store!RunsOf(d)' = Store!RunsOf(d)
  <2>1. runs \subseteq Requests
    BY DEF StoreInv, Store!TypeOK
  <2> QED
    BY <1>1, <1>2, <2>1 DEF Store!RunsOf, StoreInv, RunsAreRuns
<1>10. AboutToGo'
  BY <1>1, <1>2, <1>3, <1>8 DEF StoreInv, AboutToGo, Store!At
<1>11. GoneForGood'
  BY <1>1, <1>8 DEF StoreInv, GoneForGood
<1>12. Store!RemnantsOfLiveRunsOnly'
  BY <1>1, <1>2, <1>3, <1>9 DEF StoreInv, Store!RemnantsOfLiveRunsOnly
<1> QED
  BY <1>4, <1>5, <1>6, <1>7, <1>9, <1>10, <1>11, <1>12 DEF StoreInv

(* Its rows go. *)
LEMMA ForgetRowsStep ==
  ASSUME StoreInv, NEW q \in Requests, Store!ForgetRows(q)
  PROVE  StoreInv'
<1> DEFINE c == Store!Op(q).conv
           ids == Store!AttachmentsOf(c)
<1>1. /\ Store!Op(q).kind = "forget" /\ where[q] = "rows" /\ c \in Conversations
      /\ Store!DropRows(q, ids)
      /\ conv' = conv \ {c} /\ session' = session \ {c} /\ runs' = runs \ Store!RunsOf(c)
      /\ live' = IF Store!RunsUnderWay(c) # {} THEN live \union {c} ELSE live
      /\ UNCHANGED <<stock, files, cached, memory, refs, data, crashed>>
  BY SceneSame DEF StoreInv, Store!ForgetRows, Store!At, Store!Lively, OpType
<1>2. /\ \A p \in Requests : Store!Op(p)' = Store!Op(p) /\ OpType(p)
      /\ \A i \in Uploads : Store!Wanted(i)' = Store!Wanted(i)
      /\ SceneHolds'
  BY <1>1, SceneSame DEF StoreInv
<1>3. runs \subseteq Requests
  BY DEF StoreInv, Store!TypeOK
<1>4. \A i : i \in ids <=> \E p \in runs : Store!Op(p).conv = c /\ i \in Store!Op(p).ids
  BY DEF Store!AttachmentsOf, Store!RunsOf
<1>5. \A p \in runs : Store!Op(p).kind = "run"
  BY DEF StoreInv, RunsAreRuns
<1>6. ids \in SUBSET Uploads
  BY <1>2, <1>3, <1>4, <1>5 DEF OpType
<1> HIDE DEF ids
<1>7. /\ table' \in [Uploads -> Contents \union {NoContent}]
      /\ \A i \in Uploads : table'[i] = IF i \in ids THEN NoContent ELSE table[i]
      /\ keys' \in [Requests -> SUBSET Contents] /\ raced' \subseteq Contents
      /\ raced \subseteq raced'
      /\ where'[q] \in {"unlink", "over"}
      /\ \A p \in Requests : p # q => where'[p] = where[p]
      /\ where' \in [Requests -> {"start", "insert", "unlink", "memories", "rows", "resolve",
           "load", "save", "over"}]
      /\ OnTheWay' /\ UploadsFresh' /\ UnlinkedIsFree' /\ FilesHaveCause' /\ Store!LostOnlyByRace'
  BY <1>1, <1>6, RowsDropped
<1>8. Store!TypeOK'
  BY <1>1, <1>7 DEF StoreInv, Store!TypeOK
<1>9. WantedStays'
  <2>1. ASSUME NEW i \in Uploads, Store!Wanted(i), i \in ids
        PROVE  FALSE
    BY <1>1, <1>3, <1>4, <1>5, <2>1 DEF Store!Wanted
  <2> QED
    BY <1>1, <1>2, <1>7, <2>1 DEF StoreInv, WantedStays
<1>10. WantedFound'
  BY <1>1, <1>2, <1>7 DEF StoreInv, WantedFound
<1>11. RunsRecorded'
  BY <1>1, <1>2, <1>7 DEF StoreInv, RunsRecorded, Store!RunsOf
<1>12. \A d : Store!RunsUnderWay(d)' = Store!RunsUnderWay(d)
  BY <1>1, <1>2, <1>7 DEF Store!RunsUnderWay, Store!UnderWay
<1>13. \A d : \A p \in Store!RunsOf(d)' : d # c /\ p \in Store!RunsOf(d)
  BY <1>1, <1>2, <1>3 DEF Store!RunsOf
<1>14. AboutToGo'
  BY <1>1, <1>2, <1>7, <1>12 DEF StoreInv, AboutToGo, Store!At
<1>15. GoneForGood'
  BY <1>1, <1>12 DEF StoreInv, GoneForGood
<1>16. RunsAreRuns'
  BY <1>1, <1>2, <1>3 DEF StoreInv, RunsAreRuns
<1>17. Store!RemnantsOfLiveRunsOnly'
  <2>1. ASSUME NEW d \in Conversations \ (conv' \union live')
        PROVE  /\ d \notin session' \union memory'
               /\ Store!RunsOf(d)' = {}
               /\ \A p \in Requests :
                    Store!Op(p).kind = "run" /\ Store!Op(p).conv = d /\ where'[p] = "over" =>
                    \A i \in Store!Op(p).ids : table'[i] = NoContent
    <3>1. CASE d = c
      <4>1. c \notin live /\ Store!RunsUnderWay(c) = {} /\ c \notin memory
        BY <1>1, <2>1, <3>1 DEF StoreInv, AboutToGo, Store!At
      <4>2. ASSUME NEW p \in Requests, Store!Op(p).kind = "run", Store!Op(p).conv = d,
                   where'[p] = "over", NEW i \in Store!Op(p).ids
            PROVE  table'[i] = NoContent
        <5>1. p # q /\ where[p] = "over" /\ i \in Uploads
          BY <1>1, <1>2, <1>7, <4>2 DEF OpType
        <5>2. CASE p \in runs
          BY <1>4, <1>7, <3>1, <4>2, <5>1, <5>2
        <5>3. CASE p \notin runs
          <6>1. c \notin conv
            BY <3>1, <4>2, <5>1, <5>3 DEF StoreInv, RunsRecorded
          <6>2. table[i] = NoContent
            BY <3>1, <4>1, <4>2, <5>1, <6>1 DEF StoreInv, Store!RemnantsOfLiveRunsOnly
          <6> QED
            BY <1>7, <5>1, <6>2
        <5> QED
          BY <5>2, <5>3
      <4> QED
        BY <1>1, <1>13, <3>1, <4>1, <4>2
    <3>2. CASE d # c
      <4>1. d \in Conversations \ (conv \union live)
        BY <1>1, <2>1, <3>2
      <4>2. d \notin session \union memory /\ Store!RunsOf(d) = {}
        BY <4>1 DEF StoreInv, Store!RemnantsOfLiveRunsOnly
      <4>3. ASSUME NEW p \in Requests, Store!Op(p).kind = "run", Store!Op(p).conv = d,
                   where'[p] = "over", NEW i \in Store!Op(p).ids
            PROVE  table'[i] = NoContent
        <5>1. p # q /\ where[p] = "over" /\ i \in Uploads
          BY <1>1, <1>2, <1>7, <4>3 DEF OpType
        <5>2. table[i] = NoContent
          BY <4>1, <4>3, <5>1 DEF StoreInv, Store!RemnantsOfLiveRunsOnly
        <5> QED
          BY <1>7, <5>1, <5>2
      <4> QED
        BY <1>1, <1>13, <4>2, <4>3
    <3> QED
      BY <3>1, <3>2
  <2> QED
    BY <1>2, <2>1 DEF Store!RemnantsOfLiveRunsOnly
<1> QED
  BY <1>2, <1>7, <1>8, <1>9, <1>10, <1>11, <1>14, <1>15, <1>16, <1>17 DEF StoreInv

(* A run begins. *)
LEMMA RunCreateStep ==
  ASSUME StoreInv, NEW q \in Requests, Store!RunCreate(q)
  PROVE  StoreInv'
<1> DEFINE c == Store!Op(q).conv
<1>1. /\ Store!Op(q).kind = "run" /\ where[q] = "start" /\ c \in Conversations
      /\ runs' = runs \union {q} /\ where' = [where EXCEPT ![q] = "resolve"]
      /\ live' = IF Store!BeingForgotten(c) THEN live \union {c} ELSE live
      /\ UNCHANGED <<stock, table, files, conv, session, cached, memory, keys, refs, data, raced,
           crashed>>
  BY SceneSame DEF StoreInv, Store!RunCreate, Store!At, Store!Goto, Store!storeVars, OpType
<1>2. /\ \A p \in Requests : Store!Op(p)' = Store!Op(p) /\ OpType(p)
      /\ \A i \in Uploads : Store!Wanted(i)' = Store!Wanted(i)
  BY <1>1, SceneSame DEF StoreInv
<1>3. where'[q] = "resolve" /\ \A p \in Requests : p # q => where'[p] = where[p]
  BY <1>1 DEF StoreInv, Store!TypeOK
<1>4. Store!TypeOK'
  BY <1>1 DEF StoreInv, Store!TypeOK
<1>5. OnTheWay'
  BY <1>1, <1>2, <1>3 DEF StoreInv, OnTheWay, Places
<1>6. SceneHolds' /\ UploadsFresh' /\ UnlinkedIsFree' /\ FilesHaveCause' /\ WantedStays'
        /\ Store!LostOnlyByRace'
  <2>1. \A p \in Requests : Store!Op(p).kind = "upload" => where'[p] = where[p]
    BY <1>1, <1>3
  <2> QED
    BY <1>1, <2>1, StoreSame
<1>7. WantedFound' /\ RunsRecorded'
  BY <1>1, <1>2, <1>3 DEF StoreInv, WantedFound, RunsRecorded
<1>8. \A d : d # c => Store!RunsUnderWay(d)' = Store!RunsUnderWay(d)
  BY <1>1, <1>2, <1>3 DEF Store!RunsUnderWay, Store!UnderWay
<1>9. /\ RunsAreRuns'
      /\ \A d : d # c => Store!RunsOf(d)' = Store!RunsOf(d)
  <2>1. runs \subseteq Requests
    BY DEF StoreInv, Store!TypeOK
  <2> QED
    BY <1>1, <1>2, <2>1 DEF Store!RunsOf, StoreInv, RunsAreRuns
<1>10. AboutToGo'
  <2>1. ASSUME NEW p \in Requests, Store!Op(p).kind = "forget", where'[p] = "rows",
               NEW d, d = Store!Op(p).conv, d \notin live'
        PROVE  Store!RunsUnderWay(d)' = {} /\ d \notin memory
    <3>1. where[p] = "rows" /\ Store!UnderWay(p)
      BY <1>3, <2>1 DEF Store!UnderWay
    <3>2. d # c /\ d \notin live
      BY <1>1, <2>1, <3>1 DEF Store!BeingForgotten
    <3>3. Store!RunsUnderWay(d) = {} /\ d \notin memory
      BY <2>1, <3>1, <3>2 DEF StoreInv, AboutToGo, Store!At
    <3> QED
      BY <1>8, <3>2, <3>3
  <2> QED
    BY <1>1, <1>2, <2>1 DEF AboutToGo, Store!At
<1>11. GoneForGood'
  BY <1>1, <1>8 DEF StoreInv, GoneForGood, Store!BeingForgotten
<1>12. Store!RemnantsOfLiveRunsOnly'
  <2>1. ASSUME NEW d \in Conversations \ (conv' \union live')
        PROVE  d # c /\ d \in Conversations \ (conv \union live)
    BY <1>1, <2>1 DEF Store!BeingForgotten
  <2> QED
    BY <1>1, <1>2, <1>3, <1>9, <2>1 DEF StoreInv, Store!RemnantsOfLiveRunsOnly
<1> QED
  BY <1>4, <1>5, <1>6, <1>7, <1>9, <1>10, <1>11, <1>12 DEF StoreInv

(* What a run does that is under way before and after. *)
LEMMA RunGoesOn ==
  ASSUME StoreInv, NEW q \in Requests, Store!Op(q).kind = "run", Store!UnderWay(q),
         NEW step \in {"load", "save"},
         where' = [where EXCEPT ![q] = step], refs' \in [Requests -> SUBSET Uploads],
           data' \in [Requests -> SUBSET Uploads],
         UNCHANGED <<stock, table, files, conv, session, cached, memory, runs, keys, raced, live,
           crashed>>
  PROVE  /\ Store!TypeOK' /\ OnTheWay' /\ RunsAreRuns'
         /\ SceneHolds' /\ UploadsFresh' /\ UnlinkedIsFree' /\ FilesHaveCause' /\ WantedStays'
         /\ Store!LostOnlyByRace'
         /\ RunsRecorded' /\ AboutToGo' /\ GoneForGood' /\ Store!RemnantsOfLiveRunsOnly'
<1>1. where'[q] = step /\ \A p \in Requests : p # q => where'[p] = where[p]
  BY DEF StoreInv, Store!TypeOK
<1>2. /\ \A p \in Requests : Store!Op(p)' = Store!Op(p) /\ OpType(p)
      /\ \A i \in Uploads : Store!Wanted(i)' = Store!Wanted(i)
  BY SceneSame DEF StoreInv
<1>3. where[q] # "unlink" /\ where[q] # "start"
  BY DEF StoreInv, OnTheWay, Places, Store!UnderWay
<1>4. Store!TypeOK'
  BY DEF StoreInv, Store!TypeOK
<1>5. OnTheWay'
  BY <1>1, <1>2, <1>3 DEF StoreInv, OnTheWay, Places
<1>6. SceneHolds' /\ UploadsFresh' /\ UnlinkedIsFree' /\ FilesHaveCause' /\ WantedStays'
        /\ Store!LostOnlyByRace'
  <2>1. \A p \in Requests : Store!Op(p).kind = "upload" => where'[p] = where[p]
    BY <1>1
  <2> QED
    BY <2>1, StoreSame
<1>7. \A d : Store!RunsUnderWay(d)' = Store!RunsUnderWay(d)
  BY <1>1, <1>2, <1>3 DEF Store!RunsUnderWay, Store!UnderWay
<1>8. /\ RunsAreRuns'
      /\ \A d : Store!RunsOf(d)' = Store!RunsOf(d)
  <2>1. runs \subseteq Requests
    BY DEF StoreInv, Store!TypeOK
  <2> QED
    BY <1>2, <2>1 DEF Store!RunsOf, StoreInv, RunsAreRuns
<1>9. RunsRecorded'
  BY <1>1, <1>2, <1>3 DEF StoreInv, RunsRecorded
<1>10. AboutToGo' /\ GoneForGood'
  BY <1>1, <1>2, <1>7 DEF StoreInv, AboutToGo, GoneForGood, Store!At
<1>11. Store!RemnantsOfLiveRunsOnly'
  BY <1>1, <1>2, <1>8 DEF StoreInv, Store!RemnantsOfLiveRunsOnly
<1> QED
  BY <1>4, <1>5, <1>6, <1>8, <1>9, <1>10, <1>11

(* It finds the rows of its attachments. *)
LEMMA RunResolveStep ==
  ASSUME StoreInv, NEW q \in Requests, Store!RunResolve(q)
  PROVE  StoreInv'
<1>1. /\ Store!Op(q).kind = "run" /\ where[q] = "resolve" /\ Store!UnderWay(q)
      /\ where' = [where EXCEPT ![q] = "load"]
      /\ refs' = [refs EXCEPT ![q] = {i \in Store!Op(q).ids : table[i] # NoContent}]
      /\ UNCHANGED <<stock, table, files, conv, session, cached, memory, runs, keys, data, raced,
           live, crashed>>
  BY
     DEF Store!RunResolve, Store!At, Store!Goto, Store!UnderWay, Store!storeVars, Store!convVars,
         Store!history
<1>2. /\ \A p \in Requests : Store!Op(p)' = Store!Op(p) /\ OpType(p)
      /\ \A i \in Uploads : Store!Wanted(i)' = Store!Wanted(i)
  BY <1>1, SceneSame DEF StoreInv
<1>3. refs' \in [Requests -> SUBSET Uploads] /\ data' \in [Requests -> SUBSET Uploads]
  BY <1>1, <1>2 DEF StoreInv, Store!TypeOK, OpType
<1>4. /\ where'[q] = "load" /\ refs'[q] = {i \in Store!Op(q).ids : table[i] # NoContent}
      /\ \A p \in Requests : p # q => where'[p] = where[p] /\ refs'[p] = refs[p]
  BY <1>1 DEF StoreInv, Store!TypeOK
<1>5. WantedFound'
  <2>1. ASSUME NEW i \in Uploads, i \in Store!Op(q).ids, Store!Wanted(i)
        PROVE  i \in refs'[q]
    <3>1. stock.stored[i] # NoContent
      BY <1>1, <2>1 DEF StoreInv, SceneHolds
    <3> QED
      BY <1>4, <2>1, <3>1 DEF StoreInv, WantedStays
  <2> QED
    BY <1>1, <1>2, <1>4, <2>1 DEF StoreInv, WantedFound
<1> QED
  BY <1>1, <1>3, <1>5, RunGoesOn DEF StoreInv

(* And their bytes. *)
LEMMA RunLoadStep ==
  ASSUME StoreInv, NEW q \in Requests, Store!RunLoad(q)
  PROVE  StoreInv'
<1>1. /\ Store!Op(q).kind = "run" /\ where[q] = "load" /\ Store!UnderWay(q)
      /\ where' = [where EXCEPT ![q] = "save"]
      /\ data' = [data EXCEPT ![q] = {i \in refs[q] : stock.stored[i] \in files}]
      /\ UNCHANGED <<stock, table, files, conv, session, cached, memory, runs, keys, refs, raced,
           live, crashed>>
  BY
     DEF Store!RunLoad, Store!At, Store!Goto, Store!UnderWay, Store!storeVars, Store!convVars,
         Store!history, Store!Loadable
<1>2. /\ \A p \in Requests : Store!Op(p)' = Store!Op(p) /\ OpType(p)
      /\ \A i \in Uploads : Store!Wanted(i)' = Store!Wanted(i)
  BY <1>1, SceneSame DEF StoreInv
<1>3. refs' \in [Requests -> SUBSET Uploads] /\ data' \in [Requests -> SUBSET Uploads]
  BY <1>1 DEF StoreInv, Store!TypeOK
<1>4. /\ where'[q] = "save" /\ data'[q] = {i \in refs[q] : stock.stored[i] \in files}
      /\ \A p \in Requests : p # q => where'[p] = where[p] /\ data'[p] = data[p]
  BY <1>1 DEF StoreInv, Store!TypeOK
<1>5. WantedFound'
  <2>1. ASSUME NEW i \in Uploads, i \in Store!Op(q).ids, Store!Wanted(i)
        PROVE  i \in refs[q] /\ (i \in data'[q] \/ stock.stored[i] \in raced)
    <3>1. stock.stored[i] # NoContent /\ i \in refs[q]
      BY <1>1, <2>1 DEF StoreInv, SceneHolds, WantedFound
    <3>2. table[i] = stock.stored[i]
      BY <2>1, <3>1 DEF StoreInv, WantedStays
    <3> QED
      BY <1>4, <3>1, <3>2 DEF StoreInv, Store!LostOnlyByRace
  <2> QED
    BY <1>1, <1>2, <1>4, <2>1 DEF StoreInv, WantedFound
<1> QED
  BY <1>1, <1>3, <1>5, RunGoesOn DEF StoreInv

(* And saves the history. *)
LEMMA RunSaveStep ==
  ASSUME StoreInv, NEW q \in Requests, NEW remembers \in BOOLEAN, Store!RunSave(q, remembers)
  PROVE  StoreInv'
<1> DEFINE c == Store!Op(q).conv
<1>1. /\ Store!Op(q).kind = "run" /\ where[q] = "save" /\ c \in Conversations
      /\ where' = [where EXCEPT ![q] = "over"]
      /\ session' = session \union {c} /\ cached' \in {cached, cached \union {c}}
      /\ memory' \in {memory, memory \union {c}}
      /\ UNCHANGED <<stock, table, files, conv, runs, keys, refs, data, raced, live, crashed>>
  BY SceneSame
     DEF StoreInv, Store!RunSave, Store!At, Store!Goto, Store!storeVars, Store!history, OpType
<1>2. /\ \A p \in Requests : Store!Op(p)' = Store!Op(p) /\ OpType(p)
      /\ \A i \in Uploads : Store!Wanted(i)' = Store!Wanted(i)
  BY <1>1, SceneSame DEF StoreInv
<1>3. where'[q] = "over" /\ \A p \in Requests : p # q => where'[p] = where[p]
  BY <1>1 DEF StoreInv, Store!TypeOK
<1>4. Store!TypeOK'
  <2>1. session' \subseteq Conversations /\ cached' \subseteq Conversations
          /\ memory' \subseteq Conversations
    BY <1>1 DEF StoreInv, Store!TypeOK
  <2>2. where' \in [Requests -> {"start", "insert", "unlink", "memories", "rows", "resolve",
          "load", "save", "over"}]
    BY <1>1 DEF StoreInv, Store!TypeOK
  <2> QED
    BY <1>1, <2>1, <2>2 DEF StoreInv, Store!TypeOK
<1>5. OnTheWay'
  BY <1>1, <1>2, <1>3 DEF StoreInv, OnTheWay, Places
<1>6. SceneHolds' /\ UploadsFresh' /\ UnlinkedIsFree' /\ FilesHaveCause' /\ WantedStays'
        /\ Store!LostOnlyByRace'
  <2>1. \A p \in Requests : Store!Op(p).kind = "upload" => where'[p] = where[p]
    BY <1>1, <1>3
  <2> QED
    BY <1>1, <2>1, StoreSame
<1>7. WantedFound' /\ RunsRecorded'
  BY <1>1, <1>2, <1>3 DEF StoreInv, WantedFound, RunsRecorded
<1>8. /\ q \in Store!RunsUnderWay(c)
      /\ \A d : \A p \in Store!RunsUnderWay(d)' : p \in Store!RunsUnderWay(d)
  BY <1>1, <1>2, <1>3 DEF Store!RunsUnderWay, Store!UnderWay
<1>9. /\ RunsAreRuns'
      /\ \A d : Store!RunsOf(d)' = Store!RunsOf(d)
  <2>1. runs \subseteq Requests
    BY DEF StoreInv, Store!TypeOK
  <2> QED
    BY <1>1, <1>2, <2>1 DEF Store!RunsOf, StoreInv, RunsAreRuns
<1>10. AboutToGo'
  <2>1. ASSUME NEW p \in Requests, Store!Op(p).kind = "forget", where'[p] = "rows",
               NEW d, d = Store!Op(p).conv, d \notin live
        PROVE  Store!RunsUnderWay(d)' = {} /\ d \notin memory'
    <3>1. where[p] = "rows"
      BY <1>3, <2>1
    <3>2. Store!RunsUnderWay(d) = {} /\ d \notin memory
      BY <2>1, <3>1 DEF StoreInv, AboutToGo, Store!At
    <3>3. d # c
      BY <1>8, <3>2
    <3>4. Store!RunsUnderWay(d)' = {}
      BY <1>8, <3>2
    <3> QED
      BY <1>1, <3>2, <3>3, <3>4
  <2> QED
    BY <1>1, <1>2, <2>1 DEF AboutToGo, Store!At
<1>11. GoneForGood'
  <2>1. ASSUME NEW d \in Conversations \ (conv \union live)
        PROVE  Store!RunsUnderWay(d)' = {}
    BY <1>8, <2>1 DEF StoreInv, GoneForGood
  <2> QED
    BY <1>1, <2>1 DEF GoneForGood
<1>12. Store!RemnantsOfLiveRunsOnly'
  <2>1. c \in conv \union live
    BY <1>1, <1>8 DEF StoreInv, GoneForGood
  <2>2. ASSUME NEW d \in Conversations \ (conv \union live)
        PROVE  /\ d # c /\ d \notin session' \union memory' /\ Store!RunsOf(d)' = {}
               /\ \A p \in Requests :
                    Store!Op(p).kind = "run" /\ Store!Op(p).conv = d /\ where'[p] = "over" =>
                    \A i \in Store!Op(p).ids : table[i] = NoContent
    <3>1. d # c
      BY <2>1, <2>2
    <3>2. d \notin session \union memory /\ Store!RunsOf(d) = {}
      BY <2>2 DEF StoreInv, Store!RemnantsOfLiveRunsOnly
    <3>3. \A p \in Requests : Store!Op(p).conv = d => where'[p] = where[p]
      BY <1>3, <3>1
    <3>4. \A p \in Requests :
            Store!Op(p).kind = "run" /\ Store!Op(p).conv = d /\ where[p] = "over" =>
             \A i \in Store!Op(p).ids : table[i] = NoContent
      BY <2>2 DEF StoreInv, Store!RemnantsOfLiveRunsOnly
    <3> QED
      BY <1>1, <1>9, <3>1, <3>2, <3>3, <3>4
  <2> QED
    BY <1>1, <1>2, <2>2 DEF Store!RemnantsOfLiveRunsOnly
<1> QED
  BY <1>4, <1>5, <1>6, <1>7, <1>9, <1>10, <1>11, <1>12 DEF StoreInv

(* The process dies. *)
LEMMA CrashStep == StoreInv /\ Store!Crash => StoreInv'
<1> SUFFICES ASSUME StoreInv, Store!Crash
             PROVE  StoreInv'
  OBVIOUS
<1>1. /\ crashed' = TRUE /\ keys' = [q \in Requests |-> {}]
      /\ where' = [q \in Requests |-> IF Store!UnderWay(q) THEN "over" ELSE where[q]]
      /\ UNCHANGED <<stock, table, files, conv, session, cached, memory, runs, refs, data, raced,
           live>>
  BY DEF Store!Crash, Store!storeVars, Store!convVars
<1>2. /\ \A p \in Requests : Store!Op(p)' = Store!Op(p) /\ OpType(p)
      /\ \A i \in Uploads : Store!Wanted(i)' = Store!Wanted(i)
      /\ SceneHolds'
  BY <1>1, SceneSame DEF StoreInv
<1>3. \A p \in Requests :
        where'[p] \in {"start", "over"} /\ (where'[p] = "start" => where[p] = "start")
                          /\ (where'[p] = "over" => where[p] = "over" \/ Store!UnderWay(p))
                               /\ keys'[p] = {}
  BY <1>1 DEF StoreInv, Store!TypeOK, Store!UnderWay
<1>4. Store!TypeOK'
  BY <1>1, <1>3 DEF StoreInv, Store!TypeOK
<1>5. OnTheWay'
  <2>1. \A p \in Requests : Store!Op(p).kind = "none" => where[p] = "start"
    BY DEF StoreInv, OnTheWay, Places
  <2>2. \A p \in Requests : where'[p] \in Places(Store!Op(p).kind)
    BY <1>2, <1>3, <2>1 DEF Places, OpType, Store!UnderWay
  <2> QED
    BY <1>2, <1>3, <2>2 DEF OnTheWay
<1>6. UploadsFresh' /\ UnlinkedIsFree' /\ FilesHaveCause' /\ Store!LostOnlyByRace' /\ WantedStays'
  BY <1>1, <1>2, <1>3
     DEF StoreInv, UploadsFresh, UnlinkedIsFree, FilesHaveCause, Store!LostOnlyByRace, WantedStays
<1>7. WantedFound' /\ RunsRecorded' /\ RunsAreRuns' /\ AboutToGo'
  <2>1. WantedFound' /\ AboutToGo'
    BY <1>1, <1>2, <1>3 DEF WantedFound, AboutToGo, Store!At
  <2>2. RunsRecorded'
    BY <1>1, <1>2, <1>3 DEF StoreInv, RunsRecorded, Store!UnderWay
  <2>3. RunsAreRuns'
    BY <1>1, <1>2 DEF StoreInv, Store!TypeOK, RunsAreRuns
  <2> QED
    BY <2>1, <2>2, <2>3
<1>8. \A d : Store!RunsUnderWay(d)' = {}
  BY <1>3 DEF Store!RunsUnderWay, Store!UnderWay
<1>9. GoneForGood'
  BY <1>8 DEF GoneForGood
<1>10. \A d : Store!RunsOf(d)' = Store!RunsOf(d)
  <2>1. runs \subseteq Requests
    BY DEF StoreInv, Store!TypeOK
  <2> QED
    BY <1>1, <1>2, <2>1 DEF Store!RunsOf
<1>11. Store!RemnantsOfLiveRunsOnly'
  <2>1. ASSUME NEW d \in Conversations \ (conv \union live), NEW p \in Requests,
               Store!Op(p).kind = "run", Store!Op(p).conv = d, where'[p] = "over"
        PROVE  where[p] = "over"
    BY <1>3, <2>1 DEF StoreInv, GoneForGood, Store!RunsUnderWay
  <2> QED
    BY <1>1, <1>2, <1>10, <2>1 DEF StoreInv, Store!RemnantsOfLiveRunsOnly
<1> QED
  BY <1>2, <1>4, <1>5, <1>6, <1>7, <1>9, <1>11 DEF StoreInv

(* Every step, and none. *)
LEMMA StoreGoesOn == StoreInv /\ [Store!Next]_(Store!vars) => StoreInv'
<1> SUFFICES ASSUME StoreInv, [Store!Next]_(Store!vars)
             PROVE  StoreInv'
  OBVIOUS
<1>1. ASSUME NEW q \in Requests, \/ Store!UploadSave(q) \/ Store!UploadInsert(q)
             \/ Store!RemoveRow(q) \/ Store!Unlink(q)
             \/ Store!ForgetFind(q) \/ Store!ForgetMemories(q)
             \/ Store!ForgetRows(q)
                                 \/ Store!RunCreate(q) \/ Store!RunResolve(q) \/ Store!RunLoad(q)
                                 \/ \E remembers \in BOOLEAN : Store!RunSave(q, remembers)
      PROVE  StoreInv'
  BY <1>1, UploadSaveStep, UploadInsertStep, RemoveRowStep, UnlinkStep, ForgetFindStep,
     ForgetMemoriesStep,
     ForgetRowsStep, RunCreateStep, RunResolveStep, RunLoadStep, RunSaveStep
<1>2. CASE Store!Crash
  BY <1>2, CrashStep
<1>3. CASE UNCHANGED Store!vars
  <2>1. UNCHANGED <<stock, table, files, conv, session, cached, memory, runs, where, keys, refs,
          data, raced, live, crashed>>
    BY <1>3 DEF Store!vars, Store!storeVars, Store!convVars, Store!history
  <2>2. \A p \in Requests : Store!Op(p)' = Store!Op(p)
    BY <2>1, SceneSame DEF StoreInv
  <2>3. SceneHolds' /\ UploadsFresh' /\ UnlinkedIsFree' /\ FilesHaveCause' /\ WantedStays'
          /\ Store!LostOnlyByRace'
    BY <2>1, StoreSame
  <2>4. RunsAreRuns' /\ WantedFound' /\ RunsRecorded' /\ AboutToGo' /\ GoneForGood'
          /\ Store!RemnantsOfLiveRunsOnly'
    BY <2>1, RunsSame
  <2>5. Store!TypeOK' /\ OnTheWay' /\ RunsAreRuns'
    BY <2>1, <2>2 DEF StoreInv, Store!TypeOK, OnTheWay, RunsAreRuns
  <2> QED
    BY <2>3, <2>4, <2>5 DEF StoreInv
<1> QED
  BY <1>1, <1>2, <1>3 DEF Store!Next

(* What it says of a moment when nothing is under way, and of what a run has  *)
(* in its hands.                                                              *)
LEMMA StoreSays ==
  ASSUME StoreInv
  PROVE  Store!LostOnlyByRace /\ Store!NoOrphanFiles /\ Store!RemnantsOfLiveRunsOnly
           /\ Store!PromptComplete
<1>1. Store!LostOnlyByRace /\ Store!RemnantsOfLiveRunsOnly
  BY DEF StoreInv
<1>2. Store!NoOrphanFiles
  <2>1. ASSUME \A q \in Requests : ~Store!UnderWay(q)
        PROVE  Store!BeingUploaded = {} /\ Store!BeingUnlinked = {}
    <3>1. \A q \in Requests : where[q] \in {"start", "over"} /\ keys[q] = {}
      BY <2>1 DEF Store!UnderWay, StoreInv, OnTheWay
    <3> QED
      BY <3>1 DEF Store!BeingUploaded, Store!BeingUnlinked, Store!At
  <2> QED
    BY <2>1 DEF StoreInv, FilesHaveCause, Store!NoOrphanFiles
<1>3. Store!PromptComplete
  <2>1. \A q \in Requests : Store!Op(q).kind = "run" => Store!Op(q).ids \subseteq Uploads
    BY OpTypes DEF StoreInv, OpType
  <2> QED
    BY <2>1 DEF StoreInv, WantedFound, Store!PromptComplete, Store!At
<1> QED
  BY <1>1, <1>2, <1>3

-----------------------------------------------------------------------------
(* Files.                                                                     *)

(* How many there are in a set is the same here and in FileTools.             *)
LEMMA SizeIs ==
  \A S : /\ FileServers!Cardinality(S) = Cardinality(S)
         /\ FileServers!IsFiniteSet(S) <=> IsFiniteSet(S)
BY DEF FileServers!Cardinality, Cardinality, FileServers!IsFiniteSet, IsFiniteSet

(* A nonempty set of numbers has a least one: the sets 0..n are well-founded. *)
LEMMA LeastOf ==
  ASSUME NEW T \in SUBSET Nat, T # {}
  PROVE  \E n \in T : \A m \in T : n <= m
<1> DEFINE Below == {0..n : n \in T}
<1>1. Below \subseteq FiniteSubsetsOf(Nat)
  <2>1. ASSUME NEW n \in T
        PROVE  0..n \in SUBSET Nat /\ IsFiniteSet(0..n)
    <3>1. n \in Int /\ 0 \in Int /\ 0..n \subseteq Nat
      OBVIOUS
    <3> QED
      BY <3>1, FS_Interval
  <2> QED
    BY <2>1 DEF FiniteSubsetsOf
<1>2. Below # {}
  OBVIOUS
<1>3. PICK A \in Below : \A B \in Below : ~(<<B, A>> \in StrictSubsetOrdering(Nat))
  BY <1>1, <1>2, FS_StrictSubsetOrderingWellFounded, WFMin
<1>4. PICK n \in T : A = 0..n
  OBVIOUS
<1>5. ASSUME NEW m \in T, m < n
      PROVE  FALSE
  <2>1. (0..m) \subseteq (0..n) /\ n \in 0..n /\ n \notin 0..m
    BY <1>5
  <2>2. <<0..m, 0..n>> \in (SUBSET Nat) \X (SUBSET Nat)
    OBVIOUS
  <2>3. <<0..m, 0..n>> \in StrictSubsetOrdering(Nat)
    BY <2>1, <2>2 DEF StrictSubsetOrdering
  <2> QED
    BY <2>3, <1>3, <1>4
<1> QED
  BY <1>5

(* The first of some numbers. *)
LEMMA FirstIs ==
  ASSUME NEW S \in SUBSET Nat, S # {}
  PROVE  FileServers!First(S) \in S /\ \A i \in S : FileServers!First(S) <= i
<1>1. \E i \in S : \A j \in S : i <= j
  BY LeastOf
<1> QED
  BY <1>1 DEF FileServers!First

(* Each of finitely many numbers is the k-th of them for one k. *)
LEMMA NthIs ==
  ASSUME NEW S \in SUBSET Nat, IsFiniteSet(S)
  PROVE  /\ Cardinality(S) \in Nat
         /\ \A k \in 1..Cardinality(S) : FileServers!Nth(S, k) \in S
         /\ \A k, l \in 1..Cardinality(S) : FileServers!Nth(S, k) = FileServers!Nth(S, l) => k = l
         /\ \A i \in S : \E k \in 1..Cardinality(S) : FileServers!Nth(S, k) = i
<1> DEFINE UpTo(i) == {j \in S : j <= i}
           rank == [i \in S |-> Cardinality(UpTo(i))]
<1>1. Cardinality(S) \in Nat
  BY FS_CardinalityType
<1>2. ASSUME NEW i \in S
      PROVE  IsFiniteSet(UpTo(i)) /\ Cardinality(UpTo(i)) \in 1..Cardinality(S)
  <2>1. IsFiniteSet(UpTo(i)) /\ Cardinality(UpTo(i)) <= Cardinality(S)
    BY FS_Subset
  <2>2. Cardinality(UpTo(i)) \in Nat /\ Cardinality(UpTo(i)) # 0
    BY <2>1, FS_CardinalityType, FS_EmptySet
  <2> QED
    BY <1>1, <2>1, <2>2
<1>3. ASSUME NEW i \in S, NEW j \in S, i < j
      PROVE  rank[i] # rank[j]
  <2>1. UpTo(i) \in SUBSET UpTo(j) /\ j \in UpTo(j) /\ j \notin UpTo(i)
    <3>1. i \in Nat /\ j \in Nat /\ i < j
      BY <1>3
    <3>2. ASSUME NEW k \in UpTo(i)
          PROVE  k \in UpTo(j)
      <4>1. k \in S /\ k \in Nat /\ k <= i
        OBVIOUS
      <4> QED
        BY <3>1, <4>1
    <3>3. j \in UpTo(j) /\ ~(j <= i)
      BY <3>1
    <3> QED
      BY <3>2, <3>3
  <2>2. Cardinality(UpTo(i)) # Cardinality(UpTo(j))
    BY <1>2, <2>1, FS_Subset
  <2> QED
    BY <2>2
<1>4. rank \in Injection(S, 1..Cardinality(S))
  <2>1. rank \in [S -> 1..Cardinality(S)]
    BY <1>2
  <2>2. \A i, j \in S : rank[i] = rank[j] => i = j
    <3>1. \A i, j \in S : i = j \/ i < j \/ j < i
      OBVIOUS
    <3> QED
      BY <1>3, <3>1
  <2> QED
    BY <2>1, <2>2 DEF Injection, IsInjective
<1>5. rank \in Surjection(S, 1..Cardinality(S))
  <2>1. IsFiniteSet(1..Cardinality(S)) /\ Cardinality(1..Cardinality(S)) = Cardinality(S)
    BY <1>1, FS_Interval
  <2> QED
    BY <1>4, <2>1, FS_Injection
<1>6. ASSUME NEW k \in 1..Cardinality(S)
      PROVE  FileServers!Nth(S, k) \in S /\ rank[FileServers!Nth(S, k)] = k
  <2>1. PICK i \in S : rank[i] = k
    BY <1>5 DEF Surjection
  <2>2. Cardinality(UpTo(i)) = k
    BY <2>1
  <2>3. FileServers!Nth(S, k) \in S /\ Cardinality({j \in S : j <= FileServers!Nth(S, k)}) = k
    BY <2>2, SizeIs DEF FileServers!Nth
  <2> QED
    BY <2>3
<1>7. ASSUME NEW i \in S
      PROVE  \E k \in 1..Cardinality(S) : FileServers!Nth(S, k) = i
  <2>1. rank[i] \in 1..Cardinality(S)
    BY <1>2
  <2>2. FileServers!Nth(S, rank[i]) \in S /\ rank[FileServers!Nth(S, rank[i])] = rank[i]
    BY <1>6, <2>1
  <2> QED
    BY <1>4, <2>1, <2>2 DEF Injection, IsInjective
<1> HIDE DEF rank
<1> QED
  BY <1>1, <1>6, <1>7

(* What is in a sequence, and whether nothing is in it twice. *)
Once(s) == \A i, j \in DOMAIN s : s[i] = s[j] => i = j

(* Among keeps what is in the set, and nothing comes twice that did not.      *)
LEMMA AmongIs ==
  ASSUME NEW T, NEW s \in Seq(T), NEW S
  PROVE  /\ FileServers!Among(s, S) \in Seq(T)
         /\ FileServers!ToSet(FileServers!Among(s, S)) = FileServers!ToSet(s) \intersect S
         /\ Once(s) => Once(FileServers!Among(s, S))
<1> DEFINE spots == {i \in DOMAIN s : s[i] \in S}
           n == Cardinality(spots)
           a == [k \in 1..n |-> s[FileServers!Nth(spots, k)]]
<1>1. FileServers!Among(s, S) = a
  BY SizeIs DEF FileServers!Among
<1>2. DOMAIN s = 1..Len(s) /\ Len(s) \in Nat /\ \A i \in DOMAIN s : s[i] \in T
  OBVIOUS
<1>3. spots \in SUBSET Nat /\ IsFiniteSet(spots)
  <2>1. IsFiniteSet(1..Len(s)) /\ spots \in SUBSET (1..Len(s))
    BY <1>2, FS_Interval
  <2> QED
    BY <2>1, FS_Subset
<1>4. /\ n \in Nat
      /\ \A k \in 1..n : FileServers!Nth(spots, k) \in spots
      /\ \A k, l \in 1..n : FileServers!Nth(spots, k) = FileServers!Nth(spots, l) => k = l
      /\ \A i \in spots : \E k \in 1..n : FileServers!Nth(spots, k) = i
  BY <1>3, NthIs
<1>5. \A i : i \in spots <=> i \in DOMAIN s /\ s[i] \in S
  OBVIOUS
<1> HIDE DEF spots, n
<1>6. a \in Seq(T)
  BY <1>2, <1>4, <1>5
<1>7. FileServers!ToSet(a) = FileServers!ToSet(s) \intersect S
  <2>1. ASSUME NEW x \in FileServers!ToSet(a)
        PROVE  x \in FileServers!ToSet(s) \intersect S
    <3>1. PICK k \in 1..n : x = s[FileServers!Nth(spots, k)]
      BY DEF FileServers!ToSet
    <3> QED
      BY <1>4, <1>5, <3>1 DEF FileServers!ToSet
  <2>2. ASSUME NEW x \in FileServers!ToSet(s) \intersect S
        PROVE  x \in FileServers!ToSet(a)
    <3>1. PICK i \in DOMAIN s : x = s[i]
      BY DEF FileServers!ToSet
    <3>2. PICK k \in 1..n : FileServers!Nth(spots, k) = i
      BY <1>4, <1>5, <3>1
    <3> QED
      BY <3>1, <3>2 DEF FileServers!ToSet
  <2> QED
    BY <2>1, <2>2
<1>8. Once(s) => Once(a)
  BY <1>4, <1>5 DEF Once
<1> QED
  BY <1>1, <1>6, <1>7, <1>8

(* A sequence in which nothing comes twice is as long as its set is large.    *)
LEMMA OnceCounts ==
  ASSUME NEW T, NEW s \in Seq(T), Once(s)
  PROVE  Len(s) = Cardinality(FileServers!ToSet(s))
<1>1. DOMAIN s = 1..Len(s) /\ Len(s) \in Nat
  OBVIOUS
<1>2. s \in [1..Len(s) -> FileServers!ToSet(s)]
  BY <1>1 DEF FileServers!ToSet
<1>3. s \in Bijection(1..Len(s), FileServers!ToSet(s))
  BY <1>1, <1>2 DEF Once, FileServers!ToSet, Bijection, Injection, Surjection, IsInjective
<1>4. IsFiniteSet(1..Len(s)) /\ Cardinality(1..Len(s)) = Len(s)
  BY <1>1, FS_Interval
<1>5. ExistsBijection(1..Len(s), FileServers!ToSet(s))
  BY <1>3 DEF ExistsBijection
<1> QED
  BY <1>4, <1>5, FS_Bijection

-----------------------------------------------------------------------------
(* Edits of a text. *)

(* Sequences character by character: a part of a text, two that are joined,   *)
(* and a text in which what is new stands for w characters from i on.         *)
IsPart(c, txt, m, n) ==
  Len(c) = n + 1 - m /\ \A k \in Nat : 1 <= k /\ k <= n + 1 - m => c[k] = txt[m - 1 + k]
IsJoin(c, a, b) ==
  /\ Len(c) = Len(a) + Len(b)
  /\ \A k \in Nat : 1 <= k /\ k <= Len(a) + Len(b) =>
       c[k] = IF k <= Len(a) THEN a[k] ELSE b[k - Len(a)]
IsSplice(s, txt, i, w, new) ==
  /\ Len(s) = Len(txt) - w + Len(new)
  /\ \A k \in Nat : 1 <= k /\ k <= Len(s) =>
       s[k] = IF k < i THEN txt[k]
              ELSE IF k < i + Len(new) THEN new[k - i + 1] ELSE txt[k - Len(new) + w]
Splice(txt, i, w, new) == SubSeq(txt, 1, i - 1) \o new \o SubSeq(txt, i + w, Len(txt))

LEMMA JoinedParts ==
  ASSUME NEW M, NEW a \in Seq(M), NEW b \in Seq(M)
  PROVE  a \o b \in Seq(M) /\ IsJoin(a \o b, a, b)
BY ConcatProperties DEF IsJoin

LEMMA PartOf ==
  ASSUME NEW M, NEW txt \in Seq(M), NEW m \in Nat, NEW n \in Nat, 1 <= m, n <= Len(txt), m <= n + 1
  PROVE  SubSeq(txt, m, n) \in Seq(M) /\ IsPart(SubSeq(txt, m, n), txt, m, n)
<1>1. m \in Int /\ n \in Int /\ \A k \in m..n : txt[k] \in M
  <2>1. \A k \in m..n : k \in 1..Len(txt)
    OBVIOUS
  <2> QED
    BY <2>1, ElementOfSeq
<1>2. /\ SubSeq(txt, m, n) \in Seq(M)
      /\ Len(SubSeq(txt, m, n)) = IF m <= n THEN n - m + 1 ELSE 0
      /\ \A k \in 1..(n - m + 1) : SubSeq(txt, m, n)[k] = txt[m + k - 1]
  BY <1>1, SubSeqProperties
<1>3. Len(SubSeq(txt, m, n)) = n + 1 - m
  BY <1>2
<1>4. ASSUME NEW k \in Nat, 1 <= k, k <= n + 1 - m
      PROVE  SubSeq(txt, m, n)[k] = txt[m - 1 + k]
  <2>1. k \in 1..(n - m + 1) /\ m + k - 1 = m - 1 + k
    BY <1>4
  <2> QED
    BY <1>2, <2>1
<1> QED
  BY <1>2, <1>3, <1>4 DEF IsPart

LEMMA SplicedIs ==
  ASSUME NEW M, NEW txt \in Seq(M), NEW new \in Seq(M), NEW i \in Nat, NEW w \in Nat,
         1 <= i, i + w <= Len(txt) + 1
  PROVE  Splice(txt, i, w, new) \in Seq(M) /\ IsSplice(Splice(txt, i, w, new), txt, i, w, new)
<1>1. PICK n \in Nat, l \in Nat : n = Len(txt) /\ l = Len(new)
  BY LenProperties
<1>2. PICK A \in Seq(M) : A = SubSeq(txt, 1, i - 1) /\ IsPart(A, txt, 1, i - 1)
  <2>1. PICK m \in Nat, f \in Nat : m = i - 1 /\ f = 1
    OBVIOUS
  <2>2. m <= Len(txt) /\ 1 <= f /\ f <= m + 1
    BY <2>1, <1>1
  <2>3. SubSeq(txt, f, m) \in Seq(M) /\ IsPart(SubSeq(txt, f, m), txt, f, m)
    BY <2>2, PartOf
  <2> QED
    BY <2>1, <2>3
<1>3. PICK C \in Seq(M) : C = SubSeq(txt, i + w, n) /\ IsPart(C, txt, i + w, n)
  <2>1. PICK m \in Nat : m = i + w
    OBVIOUS
  <2>2. 1 <= m /\ m <= n + 1 /\ n <= Len(txt)
    BY <2>1, <1>1
  <2> QED
    BY <2>1, <2>2, PartOf
<1>4. PICK B \in Seq(M) : B = A \o new /\ IsJoin(B, A, new)
  BY JoinedParts
<1>5. PICK s \in Seq(M) : s = B \o C /\ IsJoin(s, B, C)
  BY JoinedParts
<1>6. Splice(txt, i, w, new) = s
  BY <1>1, <1>2, <1>3, <1>4, <1>5 DEF Splice
<1>7. Len(A) = i - 1 /\ Len(C) = n + 1 - (i + w) /\ Len(B) = i - 1 + l /\ Len(s) = n - w + l
  <2>1. Len(A) = i - 1
    BY <1>2 DEF IsPart
  <2>2. Len(C) = n + 1 - (i + w)
    BY <1>3 DEF IsPart
  <2>3. Len(B) = i - 1 + l
    BY <1>1, <1>4, <2>1 DEF IsJoin
  <2>4. Len(s) = (i - 1 + l) + (n + 1 - (i + w))
    BY <1>5, <2>2, <2>3 DEF IsJoin
  <2> QED
    BY <2>1, <2>2, <2>3, <2>4
<1>8. ASSUME NEW k \in Nat, 1 <= k, k <= n - w + l
      PROVE  s[k] = IF k < i THEN txt[k]
                    ELSE IF k < i + l THEN new[k - i + 1] ELSE txt[k - l + w]
  <2>1. s[k] = IF k <= i - 1 + l THEN B[k] ELSE C[k - (i - 1 + l)]
    <3>1. k <= Len(B) + Len(C)
      BY <1>7, <1>8
    <3> QED
      BY <1>5, <1>7, <1>8, <3>1 DEF IsJoin
  <2>2. k <= i - 1 + l => B[k] = IF k <= i - 1 THEN A[k] ELSE new[k - (i - 1)]
    BY <1>1, <1>4, <1>7, <1>8 DEF IsJoin
  <2>3. k <= i - 1 => A[k] = txt[k]
    <3>1. k <= (i - 1) + 1 - 1 <=> k <= i - 1
      OBVIOUS
    <3>2. 1 - 1 + k = k
      OBVIOUS
    <3> QED
      BY <1>2, <1>8, <3>1, <3>2 DEF IsPart
  <2>4. ~(k <= i - 1 + l) => C[k - (i - 1 + l)] = txt[k - l + w]
    <3> SUFFICES ASSUME ~(k <= i - 1 + l)
                 PROVE  C[k - (i - 1 + l)] = txt[k - l + w]
      OBVIOUS
    <3>1. PICK j \in Nat : j = k - (i - 1 + l) /\ 1 <= j /\ j <= n + 1 - (i + w)
      BY <1>8
    <3>2. C[j] = txt[(i + w) - 1 + j]
      BY <1>3, <3>1 DEF IsPart
    <3>3. (i + w) - 1 + j = k - l + w
      BY <3>1
    <3> QED
      BY <3>1, <3>2, <3>3
  <2>5. k - (i - 1) = k - i + 1 /\ (k <= i - 1 <=> k < i) /\ (k <= i - 1 + l <=> k < i + l)
          /\ (k < i => k < i + l)
    OBVIOUS
  <2> QED
    BY <2>1, <2>2, <2>3, <2>4, <2>5
<1>9. IsSplice(s, txt, i, w, new)
  BY <1>1, <1>7, <1>8 DEF IsSplice
<1> QED
  BY <1>6, <1>9

(* Two splices at places that do not meet: whichever is made first, the text  *)
(* is the same.                                                               *)
Apart(txt, i, v, a, j, w, h) ==
  /\ i \in Nat /\ j \in Nat /\ v \in Nat /\ w \in Nat /\ h \in Nat
  /\ 1 <= i /\ i + v <= j /\ j + w <= Len(txt) + 1 /\ h = j - v + Len(a)

LEMMA EitherFirst ==
  ASSUME NEW M, NEW txt \in Seq(M), NEW a \in Seq(M), NEW b \in Seq(M),
         NEW i, NEW j, NEW v, NEW w, NEW h, Apart(txt, i, v, a, j, w, h)
  PROVE  Splice(Splice(txt, j, w, b), i, v, a) = Splice(Splice(txt, i, v, a), h, w, b)
<1> SUFFICES ASSUME i \in Nat, j \in Nat, v \in Nat, w \in Nat, h \in Nat,
                    1 <= i, i + v <= j, j + w <= Len(txt) + 1, h = j - v + Len(a)
             PROVE  Splice(Splice(txt, j, w, b), i, v, a) = Splice(Splice(txt, i, v, a), h, w, b)
  BY DEF Apart
<1>1. PICK n \in Nat, la \in Nat, lb \in Nat :
        n = Len(txt) /\ la = Len(a) /\ lb = Len(b) /\ h = j - v + la
  BY LenProperties
<1>2. PICK x \in Seq(M) : x = Splice(txt, i, v, a) /\ IsSplice(x, txt, i, v, a)
  <2>1. i + v <= Len(txt) + 1
    BY <1>1
  <2> QED
    BY <2>1, SplicedIs
<1>3. PICK y \in Seq(M) : y = Splice(txt, j, w, b) /\ IsSplice(y, txt, j, w, b)
  <2>1. 1 <= j
    OBVIOUS
  <2> QED
    BY <2>1, SplicedIs
<1>4. Len(x) = n - v + la /\ Len(y) = n - w + lb
  BY <1>1, <1>2, <1>3 DEF IsSplice
<1>5. PICK p \in Seq(M) : p = Splice(y, i, v, a) /\ IsSplice(p, y, i, v, a)
  <2>1. i + v <= Len(y) + 1
    BY <1>1, <1>4
  <2> QED
    BY <2>1, SplicedIs
<1>6. PICK q \in Seq(M) : q = Splice(x, h, w, b) /\ IsSplice(q, x, h, w, b)
  <2>1. 1 <= h /\ h + w <= Len(x) + 1
    BY <1>1, <1>4
  <2> QED
    BY <2>1, SplicedIs
<1>7. Len(p) = n - w + lb - v + la /\ Len(q) = n - w + lb - v + la
  BY <1>1, <1>4, <1>5, <1>6 DEF IsSplice
<1>8. ASSUME NEW k \in Nat, 1 <= k, k <= n - w + lb - v + la
      PROVE  p[k] = q[k]
  <2>1. p[k] = IF k < i THEN y[k] ELSE IF k < i + la THEN a[k - i + 1] ELSE y[k - la + v]
    BY <1>1, <1>5, <1>7, <1>8 DEF IsSplice
  <2>2. q[k] = IF k < h THEN x[k] ELSE IF k < h + lb THEN b[k - h + 1] ELSE x[k - lb + w]
    BY <1>1, <1>6, <1>7, <1>8 DEF IsSplice
  <2>3. ASSUME NEW m \in Nat, 1 <= m, m <= n - v + la
        PROVE  x[m] = IF m < i THEN txt[m] ELSE IF m < i + la THEN a[m - i + 1] ELSE txt[m - la + v]
    BY <1>1, <1>2, <1>4, <2>3 DEF IsSplice
  <2>4. ASSUME NEW m \in Nat, 1 <= m, m <= n - w + lb
        PROVE  y[m] = IF m < j THEN txt[m] ELSE IF m < j + lb THEN b[m - j + 1] ELSE txt[m - lb + w]
    BY <1>1, <1>3, <1>4, <2>4 DEF IsSplice
  <2>5. CASE k < i
    <3>1. k < h /\ k < j /\ k <= n - v + la /\ k <= n - w + lb
      BY <1>1, <2>5
    <3> QED
      BY <1>8, <2>1, <2>2, <2>3, <2>4, <2>5, <3>1
  <2>6. CASE ~(k < i) /\ k < i + la
    <3>1. k < h /\ k <= n - v + la
      BY <1>1, <2>6
    <3> QED
      BY <1>8, <2>1, <2>2, <2>3, <2>6, <3>1
  <2>7. CASE ~(k < i + la) /\ k < h
    <3>0. k - la + v \in Nat /\ 1 <= k - la + v /\ k - la + v <= n - w + lb /\ k - la + v < j
      BY <1>1, <2>7
    <3>1. PICK m \in Nat : m = k - la + v /\ 1 <= m /\ m <= n - w + lb /\ m < j
      BY <3>0
    <3>2. k <= n - v + la /\ ~(k < i)
      BY <1>1, <2>7
    <3>3. p[k] = y[m] /\ q[k] = x[k]
      BY <2>1, <2>2, <2>7, <3>1, <3>2
    <3>4. y[m] = txt[m]
      BY <2>4, <3>1
    <3>5. x[k] = txt[k - la + v]
      BY <1>8, <2>3, <2>7, <3>2
    <3> QED
      BY <3>1, <3>3, <3>4, <3>5
  <2>8. CASE ~(k < h) /\ k < h + lb
    <3>1. PICK m \in Nat : /\ m = k - la + v /\ 1 <= m /\ m <= n - w + lb /\ ~(m < j)
                           /\ m < j + lb /\ m - j + 1 = k - h + 1
      <4>1. /\ k - la + v \in Nat /\ 1 <= k - la + v /\ k - la + v <= n - w + lb
            /\ ~(k - la + v < j) /\ k - la + v < j + lb /\ (k - la + v) - j + 1 = k - h + 1
        BY <1>1, <2>8
      <4> QED
        BY <4>1
    <3>2. ~(k < i) /\ ~(k < i + la)
      BY <1>1, <2>8
    <3>3. p[k] = y[m] /\ q[k] = b[k - h + 1]
      BY <2>1, <2>2, <2>8, <3>1, <3>2
    <3>4. y[m] = b[m - j + 1]
      BY <2>4, <3>1
    <3> QED
      BY <3>1, <3>3, <3>4
  <2>9. CASE ~(k < h + lb)
    <3>1. PICK m \in Nat : /\ m = k - la + v /\ 1 <= m /\ m <= n - w + lb /\ ~(m < j)
                           /\ ~(m < j + lb)
      <4>1. j + lb <= k - la + v
        BY <1>1, <2>9
      <4>2. k - la + v <= n - w + lb
        BY <1>1, <1>8
      <4>3. k - la + v \in Nat /\ 1 <= k - la + v /\ ~(k - la + v < j) /\ ~(k - la + v < j + lb)
        BY <1>1, <4>1
      <4> QED
        BY <4>2, <4>3
    <3>2. PICK l \in Nat : /\ l = k - lb + w /\ 1 <= l /\ l <= n - v + la /\ ~(l < i)
                           /\ ~(l < i + la)
      <4>1. i + la <= k - lb + w
        BY <1>1, <2>9
      <4>2. k - lb + w <= n - v + la
        BY <1>1, <1>8
      <4>3. k - lb + w \in Nat /\ 1 <= k - lb + w /\ ~(k - lb + w < i) /\ ~(k - lb + w < i + la)
        BY <1>1, <4>1
      <4> QED
        BY <4>2, <4>3
    <3>3. ~(k < i) /\ ~(k < i + la) /\ ~(k < h)
      BY <1>1, <2>9
    <3>4. p[k] = y[m] /\ q[k] = x[l]
      BY <2>1, <2>2, <2>9, <3>1, <3>2, <3>3
    <3>5. y[m] = txt[m - lb + w]
      BY <2>4, <3>1
    <3>6. x[l] = txt[l - la + v]
      BY <2>3, <3>2
    <3>7. m - lb + w = l - la + v
      BY <3>1, <3>2
    <3> QED
      BY <3>4, <3>5, <3>6, <3>7
  <2> QED
    BY <2>5, <2>6, <2>7, <2>8, <2>9
<1>9. p = q
  <2>1. Len(p) = Len(q) /\ Len(p) \in Nat
    BY <1>7, LenProperties
  <2>2. ASSUME NEW k \in 1..Len(p)
        PROVE  p[k] = q[k]
    <3>1. k \in Nat /\ 1 <= k /\ k <= Len(p)
      BY <2>1
    <3>2. k <= n - w + lb - v + la
      BY <1>7, <3>1
    <3> QED
      BY <1>8, <3>1, <3>2
  <2> QED
    BY <2>1, <2>2, SeqEqual
<1> QED
  BY <1>2, <1>3, <1>5, <1>6, <1>9

(* A string occurs at its places. *)
Occurs(txt, i, s) ==
  /\ i \in Nat /\ 1 <= i /\ i + Len(s) <= Len(txt) + 1
  /\ \A k \in Nat : 1 <= k /\ k <= Len(s) => txt[i - 1 + k] = s[k]

LEMMA PlaceIs ==
  ASSUME NEW M, NEW txt \in Seq(M), NEW s \in Seq(M), NEW i
  PROVE  i \in FileServers!Places(txt, s) <=> Occurs(txt, i, s)
<1>1. PICK n \in Nat, w \in Nat : n = Len(txt) /\ w = Len(s)
  BY LenProperties
<1>2. i \in 1..n + 1 - w <=> i \in Nat /\ 1 <= i /\ i + w <= n + 1
  OBVIOUS
<1>3. ASSUME i \in Nat, 1 <= i, i + w <= n + 1
      PROVE  SubSeq(txt, i, i + w - 1) = s
               <=> \A k \in Nat : 1 <= k /\ k <= w => txt[i - 1 + k] = s[k]
  <2>1. PICK m \in Nat : m = i + w - 1
    BY <1>3
  <2>2. PICK c \in Seq(M) : c = SubSeq(txt, i, m) /\ IsPart(c, txt, i, m)
    <3>1. 1 <= i /\ m <= Len(txt) /\ i <= m + 1
      BY <1>1, <1>3, <2>1
    <3> QED
      BY <1>3, <3>1, PartOf
  <2>3. /\ Len(c) = w
        /\ \A k \in Nat : 1 <= k /\ k <= w => c[k] = txt[i - 1 + k]
    <3>1. m + 1 - i = w
      BY <1>3, <2>1
    <3> QED
      BY <2>2, <3>1 DEF IsPart
  <2>4. ASSUME \A k \in Nat : 1 <= k /\ k <= w => txt[i - 1 + k] = s[k]
        PROVE  c = s
    <3>1. \A k \in 1..Len(c) : c[k] = s[k]
      BY <2>3, <2>4
    <3> QED
      BY <1>1, <2>3, <3>1, SeqEqual
  <2>5. ASSUME c = s
        PROVE  \A k \in Nat : 1 <= k /\ k <= w => txt[i - 1 + k] = s[k]
    BY <2>3, <2>5
  <2> QED
    BY <2>1, <2>2, <2>4, <2>5
<1> QED
  BY <1>1, <1>2, <1>3 DEF FileServers!Places, Occurs

(* A string that is there once is there. *)
LEMMA UniqueIsThere ==
  ASSUME NEW M, NEW txt \in Seq(M), NEW s \in Seq(M), FileServers!Unique(txt, s)
  PROVE  FileServers!Places(txt, s) # {}
<1> SUFFICES ASSUME FileServers!Places(txt, s) = {}
             PROVE  FALSE
  OBVIOUS
<1> DEFINE N == 1..Len(txt) + 2
           F(f) == [i \in N |-> LET rest == {j \in FileServers!Places(txt, s) : j >= i}
                                IN IF rest = {} THEN 0
                                   ELSE 1 + f[FileServers!First(rest) + (IF s =
                                          <<>> THEN 1 ELSE Len(s))]]
           zero == [i \in N |-> 0]
           from == CHOOSE f : f = F(f)
<1>1. \A i \in N : {j \in FileServers!Places(txt, s) : j >= i} = {}
  OBVIOUS
<1>2. \A f : F(f) = zero
  BY <1>1
<1>3. from = F(from)
  <2>1. zero = F(zero)
    BY <1>2
  <2> HIDE DEF zero, F
  <2> QED
    BY <2>1
<1>4. FileServers!Count(txt, s) = from[1]
  BY DEF FileServers!Count
<1>5. from = zero
  <2> HIDE DEF F, from, zero
  <2> QED
    BY <1>2, <1>3
<1>6. 1 \in N
  BY LenProperties
<1>7. FileServers!Count(txt, s) = 0
  <2> HIDE DEF F, from
  <2> QED
    BY <1>4, <1>5, <1>6
<1> QED
  BY <1>7 DEF FileServers!Unique

(* Replacing is splicing. *)
LEMMA ReplaceSplices ==
  ASSUME NEW txt, NEW i, NEW e
  PROVE  FileServers!ReplaceAtPlace(txt, i, e) = Splice(txt, i, Len(e.old), e.new)
BY DEF FileServers!ReplaceAtPlace, Splice

(* The function by which AllAtOnce is defined, and its value for two edits.   *)
Least(spots, S) == CHOOSE i \in S : \A j \in S : spots[i] <= spots[j]
MakesAll(txt, edits, spots, g) ==
  g = [S \in SUBSET DOMAIN edits |->
         IF S = {} THEN txt
         ELSE FileServers!ReplaceAtPlace(g[S \ {Least(spots, S)}], spots[Least(spots, S)],
                edits[Least(spots, S)])]

LEMMA AllIsMade ==
  ASSUME NEW txt, NEW edits, NEW spots, NEW g, MakesAll(txt, edits, spots, g)
  PROVE  \E f : MakesAll(txt, edits, spots, f)
           /\ FileServers!AllAtOnce(txt, edits, spots) = f[DOMAIN edits]
<1> DEFINE f == CHOOSE f : MakesAll(txt, edits, spots, f)
<1>1. MakesAll(txt, edits, spots, f)
  OBVIOUS
<1>2. FileServers!AllAtOnce(txt, edits, spots) = f[DOMAIN edits]
  BY DEF FileServers!AllAtOnce, MakesAll, Least
<1> QED
  BY <1>1, <1>2

LEMMA LeastOfOne ==
  ASSUME NEW spots, NEW k, spots[k] \in Nat
  PROVE  Least(spots, {k}) = k
BY DEF Least

LEMMA OneAtOnce ==
  ASSUME NEW txt, NEW edits, DOMAIN edits = {1}, NEW spots, spots[1] \in Nat
  PROVE  FileServers!AllAtOnce(txt, edits, spots) =
           FileServers!ReplaceAtPlace(txt, spots[1], edits[1])
<1> DEFINE r == FileServers!ReplaceAtPlace(txt, spots[1], edits[1])
           g == [S \in SUBSET {1} |-> IF S = {} THEN txt ELSE r]
<1>1. Least(spots, {1}) = 1
  BY LeastOfOne
<1>2. SUBSET {1} = {{}, {1}}
  OBVIOUS
<1>3. g[{}] = txt /\ g[{1}] = r /\ {1} \ {1} = {}
  BY <1>2
<1>4. ASSUME NEW S \in SUBSET {1}
      PROVE  g[S] = IF S = {} THEN txt
                    ELSE FileServers!ReplaceAtPlace(g[S \ {Least(spots, S)}],
                           spots[Least(spots, S)], edits[Least(spots, S)])
  <2>1. CASE S = {}
    BY <2>1, <1>3
  <2>2. CASE S = {1}
    BY <2>2, <1>1, <1>3
  <2> QED
    BY <1>2, <2>1, <2>2
<1>5. g = [S \in SUBSET {1} |-> g[S]]
  OBVIOUS
<1> HIDE DEF g
<1>6. MakesAll(txt, edits, spots, g)
  BY <1>4, <1>5 DEF MakesAll
<1>7. PICK f : MakesAll(txt, edits, spots, f) /\ FileServers!AllAtOnce(txt, edits, spots) = f[{1}]
  BY <1>6, AllIsMade
<1>8. /\ f[{}] = txt
      /\ f[{1}] = FileServers!ReplaceAtPlace(f[{1} \ {1}], spots[1], edits[1])
  BY <1>1, <1>2, <1>7 DEF MakesAll
<1> QED
  BY <1>3, <1>7, <1>8

InOrder(edits, spots, lo, hi) ==
  lo # hi /\ DOMAIN edits = {lo, hi} /\ spots[lo] \in Nat /\ spots[hi] \in Nat
    /\ spots[lo] < spots[hi]

LEMMA TwoAtOnce ==
  ASSUME NEW txt, NEW edits, NEW spots, NEW lo, NEW hi, InOrder(edits, spots, lo, hi)
  PROVE  FileServers!AllAtOnce(txt, edits, spots)
           = FileServers!ReplaceAtPlace(FileServers!ReplaceAtPlace(txt, spots[hi], edits[hi]),
             spots[lo], edits[lo])
<1> DEFINE D == {lo, hi}
           rlo == FileServers!ReplaceAtPlace(txt, spots[lo], edits[lo])
           rhi == FileServers!ReplaceAtPlace(txt, spots[hi], edits[hi])
           r == FileServers!ReplaceAtPlace(rhi, spots[lo], edits[lo])
           g == [S \in SUBSET D |->
                   IF S = {} THEN txt ELSE IF S = {lo} THEN rlo ELSE IF S = {hi} THEN rhi ELSE r]
<1>0. lo # hi /\ spots[lo] \in Nat /\ spots[hi] \in Nat /\ spots[lo] < spots[hi] /\ DOMAIN edits = D
  BY DEF InOrder
<1>1. Least(spots, {lo}) = lo /\ Least(spots, {hi}) = hi
  BY <1>0, LeastOfOne
<1>2. Least(spots, D) = lo
  <2>1. \A i \in D : (\A j \in D : spots[i] <= spots[j]) <=> i = lo
    BY <1>0
  <2> QED
    BY <2>1 DEF Least
<1>3. \A S \in SUBSET D : S = {} \/ S = {lo} \/ S = {hi} \/ S = D
  OBVIOUS
<1>4. {} \in SUBSET D /\ {lo} \in SUBSET D /\ {hi} \in SUBSET D /\ D \in SUBSET D
  OBVIOUS
<1>5. D # {} /\ D # {lo} /\ D # {hi} /\ {lo} # {} /\ {hi} # {} /\ {lo} # {hi}
  BY <1>0
<1>6. {lo} \ {lo} = {} /\ {hi} \ {hi} = {} /\ D \ {lo} = {hi}
  BY <1>0
<1> HIDE DEF D, rlo, rhi, r
<1>7. g[{}] = txt /\ g[{lo}] = rlo /\ g[{hi}] = rhi /\ g[D] = r
  BY <1>4, <1>5
<1>8. ASSUME NEW S \in SUBSET D
      PROVE  g[S] = IF S = {} THEN txt
                    ELSE FileServers!ReplaceAtPlace(g[S \ {Least(spots, S)}],
                           spots[Least(spots, S)], edits[Least(spots, S)])
  <2> HIDE DEF g
  <2>1. CASE S = {}
    BY <2>1, <1>7
  <2>2. CASE S = {lo}
    BY <2>2, <1>1, <1>5, <1>6, <1>7 DEF rlo
  <2>3. CASE S = {hi}
    BY <2>3, <1>1, <1>5, <1>6, <1>7 DEF rhi
  <2>4. CASE S = D
    BY <2>4, <1>2, <1>5, <1>6, <1>7 DEF r
  <2> QED
    BY <1>3, <2>1, <2>2, <2>3, <2>4
<1>9. g = [S \in SUBSET D |-> g[S]]
  OBVIOUS
<1>10. DOMAIN edits = D
  BY <1>0
<1> HIDE DEF g
<1>11. MakesAll(txt, edits, spots, g)
  BY <1>8, <1>9, <1>10 DEF MakesAll
<1>12. PICK f : MakesAll(txt, edits, spots, f) /\ FileServers!AllAtOnce(txt, edits, spots) = f[D]
  BY <1>10, <1>11, AllIsMade
<1>13. /\ f[{}] = txt
       /\ f[{hi}] = FileServers!ReplaceAtPlace(f[{hi} \ {hi}], spots[hi], edits[hi])
       /\ f[D] = FileServers!ReplaceAtPlace(f[D \ {lo}], spots[lo], edits[lo])
  BY <1>1, <1>2, <1>4, <1>5, <1>10, <1>12 DEF MakesAll
<1> QED
  BY <1>6, <1>12, <1>13

(* An edit is made where its old string is.                                   *)
EditOf(M) == [old : Seq(M), new : Seq(M)]

LEMMA OneLands ==
  ASSUME NEW M, NEW txt \in Seq(M), NEW e \in EditOf(M), NEW i \in FileServers!Places(txt, e.old)
  PROVE  /\ FileServers!EachAtItsPlace(txt, <<e>>, FileServers!ReplaceAtPlace(txt, i, e))
         /\ FileServers!ReplaceAtPlace(txt, i, e) \in Seq(M)
<1> DEFINE spots == [k \in {1} |-> i]
           edits == <<e>>
<1>1. e.old \in Seq(M) /\ e.new \in Seq(M) /\ Len(txt) \in Nat /\ Len(e.old) \in Nat
  BY DEF EditOf
<1>2. i \in Nat /\ 1 <= i /\ i + Len(e.old) <= Len(txt) + 1
  BY <1>1, PlaceIs DEF Occurs
<1>3. DOMAIN edits = {1} /\ edits[1] = e
  OBVIOUS
<1>4. spots \in [{1} -> 1..Len(txt) + 1] /\ spots[1] = i
  <2>1. i \in 1..Len(txt) + 1
    BY <1>1, <1>2
  <2> QED
    BY <2>1
<1> HIDE DEF spots, edits
<1>5. FileServers!AllAtOnce(txt, edits, spots) = FileServers!ReplaceAtPlace(txt, i, e)
  BY <1>2, <1>3, <1>4, OneAtOnce
<1>6. FileServers!EachAtItsPlace(txt, edits, FileServers!ReplaceAtPlace(txt, i, e))
  BY <1>3, <1>4, <1>5 DEF FileServers!EachAtItsPlace
<1>7. FileServers!ReplaceAtPlace(txt, i, e) \in Seq(M)
  BY <1>1, <1>2, ReplaceSplices, SplicedIs
<1> QED
  BY <1>6, <1>7 DEF edits

(* The second of two edits is made where its old string was in the text, too: *)
(* no character of it is new, so it lies before or behind what is new.        *)
LEMMA TwoLand ==
  ASSUME NEW M, NEW txt \in Seq(M), NEW e \in EditOf(M), NEW f \in EditOf(M),
         FileServers!Fresh(<<e, f>>),
         NEW i \in FileServers!Places(txt, e.old), NEW x, x = FileServers!ReplaceAtPlace(txt, i, e),
         NEW j \in FileServers!Places(x, f.old)
  PROVE  /\ FileServers!EachAtItsPlace(txt, <<e, f>>, FileServers!ReplaceAtPlace(x, j, f))
         /\ FileServers!ReplaceAtPlace(x, j, f) \in Seq(M)
<1>1. PICK a \in Seq(M), b \in Seq(M), o \in Seq(M), p \in Seq(M) :
        o = e.old /\ a = e.new /\ p = f.old /\ b = f.new
  BY DEF EditOf
<1>2. PICK n \in Nat, v \in Nat, w \in Nat, la \in Nat, lb \in Nat :
        n = Len(txt) /\ v = Len(o) /\ w = Len(p) /\ la = Len(a) /\ lb = Len(b)
  BY LenProperties
<1>3. PICK edits : edits = <<e, f>>
  OBVIOUS
<1>4. DOMAIN edits = {1, 2} /\ edits[1] = e /\ edits[2] = f
  BY <1>3
<1>5. v # 0 /\ w # 0 /\ la # 0 /\ FileServers!ToSet(a) \intersect FileServers!ToSet(p) = {}
  <2>1. FileServers!Fresh(edits)
    BY <1>3
  <2>2. o # <<>> /\ a # <<>> /\ p # <<>>
          /\ FileServers!ToSet(a) \intersect FileServers!ToSet(p) = {}
    BY <1>1, <1>4, <2>1 DEF FileServers!Fresh
  <2> QED
    BY <1>2, <2>2, EmptySeq
<1>6. /\ i \in Nat /\ 1 <= i /\ i + v <= n + 1
      /\ \A k \in Nat : 1 <= k /\ k <= v => txt[i - 1 + k] = o[k]
  BY <1>1, <1>2, PlaceIs DEF Occurs
<1>7. x = Splice(txt, i, v, a) /\ x \in Seq(M) /\ IsSplice(x, txt, i, v, a)
  BY <1>1, <1>2, <1>6, ReplaceSplices, SplicedIs
<1>8. /\ Len(x) = n - v + la
      /\ \A k \in Nat : 1 <= k /\ k <= n - v + la =>
           x[k] = IF k < i THEN txt[k] ELSE IF k < i + la THEN a[k - i + 1] ELSE txt[k - la + v]
  BY <1>2, <1>7 DEF IsSplice
<1>9. /\ j \in Nat /\ 1 <= j /\ j + w <= n - v + la + 1
      /\ \A k \in Nat : 1 <= k /\ k <= w => x[j - 1 + k] = p[k]
  <2>1. Occurs(x, j, p)
    BY <1>1, <1>7, PlaceIs
  <2> QED
    BY <1>2, <1>8, <2>1 DEF Occurs
<1>10. j + w <= i \/ i + la <= j
  <2> SUFFICES ASSUME j < i + la, i < j + w
               PROVE  FALSE
    BY <1>6, <1>9
  <2>1. PICK m \in Nat : i <= m /\ j <= m /\ m < i + la /\ m < j + w
    <3>1. CASE i <= j
      <4>1. i <= j /\ j <= j /\ j < i + la /\ j < j + w /\ j \in Nat
        BY <1>5, <1>9, <3>1
      <4> QED
        BY <4>1
    <3>2. CASE j <= i
      <4>1. i <= i /\ j <= i /\ i < i + la /\ i < j + w /\ i \in Nat
        BY <1>5, <1>6, <3>2
      <4> QED
        BY <4>1
    <3> QED
      BY <1>6, <1>9, <3>1, <3>2
  <2>2. PICK k \in Nat, l \in Nat : k = m - i + 1 /\ l = m - j + 1
    BY <1>6, <1>9, <2>1
  <2>3. /\ 1 <= k /\ k <= la /\ 1 <= l /\ l <= w /\ j - 1 + l = m
        /\ 1 <= m /\ m <= n - v + la /\ ~(m < i)
    BY <1>6, <1>9, <2>1, <2>2
  <2>4. x[m] = a[k] /\ x[m] = p[l]
    BY <1>8, <1>9, <2>1, <2>2, <2>3
  <2>5. a[k] \in FileServers!ToSet(a) /\ p[l] \in FileServers!ToSet(p)
    <3>1. k \in 1..Len(a) /\ l \in 1..Len(p) /\ DOMAIN a = 1..Len(a) /\ DOMAIN p = 1..Len(p)
      BY <1>2, <2>3, LenProperties
    <3> QED
      BY <3>1 DEF FileServers!ToSet
  <2> QED
    BY <1>5, <2>4, <2>5
<1>11. FileServers!ReplaceAtPlace(x, j, f) = Splice(x, j, w, b) /\ Splice(x, j, w, b) \in Seq(M)
  <2>1. j + w <= Len(x) + 1
    BY <1>8, <1>9
  <2> QED
    BY <1>1, <1>2, <1>7, <1>9, <2>1, ReplaceSplices, SplicedIs
<1>12. SUFFICES ASSUME TRUE
                PROVE  FileServers!EachAtItsPlace(txt, edits, FileServers!ReplaceAtPlace(x, j, f))
  BY <1>3, <1>11
<1>13. CASE j + w <= i
  <2>1. PICK spots : spots = [k \in {1, 2} |-> IF k = 1 THEN i ELSE j]
    OBVIOUS
  <2>2. spots[1] = i /\ spots[2] = j /\ j < i /\ j \in Nat /\ i \in Nat
    BY <1>5, <1>6, <1>9, <1>13, <2>1
  <2>3. spots \in [{1, 2} -> 1..Len(txt) + 1]
    <3>1. i \in 1..n + 1 /\ j \in 1..n + 1
      BY <1>6, <1>9, <1>13
    <3> QED
      BY <1>2, <2>1, <3>1
  <2>4. j \in FileServers!Places(txt, f.old)
    <3>1. j + w <= n + 1
      BY <1>6, <1>9, <1>13
    <3>2. ASSUME NEW k \in Nat, 1 <= k, k <= w
          PROVE  txt[j - 1 + k] = p[k]
      <4>1. PICK m \in Nat : m = j - 1 + k
        BY <1>9
      <4>2. 1 <= m /\ m <= n - v + la /\ m < i
        BY <1>6, <1>9, <1>13, <3>2, <4>1
      <4>3. x[m] = txt[m] /\ x[m] = p[k]
        BY <1>8, <1>9, <3>2, <4>1, <4>2
      <4> QED
        BY <4>1, <4>3
    <3>3. Occurs(txt, j, p)
      BY <1>2, <1>9, <3>1, <3>2 DEF Occurs
    <3> QED
      BY <1>1, <3>3, PlaceIs
  <2>5. FileServers!AllAtOnce(txt, edits, spots) = FileServers!ReplaceAtPlace(x, j, f)
    <3>1. FileServers!AllAtOnce(txt, edits, spots)
            = FileServers!ReplaceAtPlace(FileServers!ReplaceAtPlace(txt, spots[1], edits[1]),
              spots[2], edits[2])
      <4>1. PICK lo, hi : lo = 2 /\ hi = 1
        OBVIOUS
      <4>2. InOrder(edits, spots, lo, hi)
        BY <1>4, <2>2, <4>1 DEF InOrder
      <4>3. FileServers!AllAtOnce(txt, edits, spots)
              = FileServers!ReplaceAtPlace(FileServers!ReplaceAtPlace(txt, spots[hi], edits[hi]),
                spots[lo], edits[lo])
        BY <4>2, TwoAtOnce
      <4> QED
        BY <4>1, <4>3
    <3> QED
      BY <1>4, <2>2, <3>1
  <2>6. \A k, l \in DOMAIN edits :
          k # l /\ spots[k] <= spots[l] =>
            spots[k] # spots[l] /\ spots[k] + Len(edits[k].old) <= spots[l]
    <3>1. spots[2] + Len(edits[2].old) <= spots[1] /\ spots[2] # spots[1] /\ ~(spots[1] <= spots[2])
      BY <1>1, <1>2, <1>4, <1>13, <2>2
    <3> QED
      BY <1>4, <3>1
  <2> QED
    BY <1>4, <2>2, <2>3, <2>4, <2>5, <2>6 DEF FileServers!EachAtItsPlace
<1>14. CASE i + la <= j
  <2>0. j - la + v \in Nat /\ i + v <= j - la + v /\ j - la + v + w <= n + 1
    <3>1. i \in Nat /\ 1 <= i /\ j \in Nat /\ j + w <= n - v + la + 1
      BY <1>6, <1>9
    <3>2. i + v <= j - la + v
      BY <1>14, <3>1
    <3>3. j - la + v + w <= n + 1
      BY <3>1
    <3>4. j - la + v \in Nat
      BY <1>14, <3>1
    <3> QED
      BY <3>2, <3>3, <3>4
  <2>1. PICK h \in Nat : h = j - la + v
    BY <2>0
  <2>2. PICK spots : spots = [k \in {1, 2} |-> IF k = 1 THEN i ELSE h]
    OBVIOUS
  <2>3. spots[1] = i /\ spots[2] = h /\ i < h /\ i + v <= h /\ h + w <= n + 1 /\ j = h - v + la
    BY <1>5, <1>6, <1>9, <2>0, <2>1, <2>2
  <2>4. spots \in [{1, 2} -> 1..Len(txt) + 1]
    <3>1. i \in 1..n + 1 /\ h \in 1..n + 1
      BY <1>6, <2>3
    <3> QED
      BY <1>2, <2>2, <3>1
  <2>5. h \in FileServers!Places(txt, f.old)
    <3>1. h + w <= n + 1 /\ 1 <= h
      BY <1>6, <2>3
    <3>2. ASSUME NEW k \in Nat, 1 <= k, k <= w
          PROVE  txt[h - 1 + k] = p[k]
      <4>1. PICK m \in Nat : m = j - 1 + k
        BY <1>9
      <4>2. 1 <= m /\ m <= n - v + la /\ ~(m < i) /\ ~(m < i + la)
        BY <1>6, <1>9, <1>14, <3>2, <4>1
      <4>3. x[m] = txt[m - la + v] /\ x[m] = p[k]
        BY <1>8, <1>9, <3>2, <4>1, <4>2
      <4>4. m - la + v = h - 1 + k
        BY <1>9, <2>1, <4>1
      <4> QED
        BY <4>3, <4>4
    <3>3. Occurs(txt, h, p)
      BY <1>2, <3>1, <3>2 DEF Occurs
    <3> QED
      BY <1>1, <3>3, PlaceIs
  <2>6. FileServers!AllAtOnce(txt, edits, spots) = FileServers!ReplaceAtPlace(x, j, f)
    <3>1. FileServers!AllAtOnce(txt, edits, spots)
            = FileServers!ReplaceAtPlace(FileServers!ReplaceAtPlace(txt, spots[2], edits[2]),
              spots[1], edits[1])
      <4>1. PICK lo, hi : lo = 1 /\ hi = 2
        OBVIOUS
      <4>2. InOrder(edits, spots, lo, hi)
        BY <1>4, <1>6, <2>3, <4>1 DEF InOrder
      <4>3. FileServers!AllAtOnce(txt, edits, spots)
              = FileServers!ReplaceAtPlace(FileServers!ReplaceAtPlace(txt, spots[hi], edits[hi]),
                spots[lo], edits[lo])
        BY <4>2, TwoAtOnce
      <4> QED
        BY <4>1, <4>3
    <3>2. FileServers!AllAtOnce(txt, edits, spots) = Splice(Splice(txt, h, w, b), i, v, a)
      BY <1>1, <1>2, <1>4, <2>3, <3>1, ReplaceSplices
    <3>3. Splice(Splice(txt, h, w, b), i, v, a) = Splice(Splice(txt, i, v, a), j, w, b)
      <4>1. Apart(txt, i, v, a, h, w, j)
        BY <1>2, <1>6, <1>9, <2>3 DEF Apart
      <4> QED
        BY <4>1, EitherFirst
    <3> QED
      BY <1>7, <1>11, <3>2, <3>3
  <2>7. \A k, l \in DOMAIN edits :
          k # l /\ spots[k] <= spots[l] =>
            spots[k] # spots[l] /\ spots[k] + Len(edits[k].old) <= spots[l]
    <3>1. spots[1] + Len(edits[1].old) <= spots[2] /\ spots[1] # spots[2] /\ ~(spots[2] <= spots[1])
      BY <1>1, <1>2, <1>4, <1>6, <2>3
    <3> QED
      BY <1>4, <3>1
  <2> QED
    BY <1>4, <1>6, <2>3, <2>4, <2>5, <2>6, <2>7 DEF FileServers!EachAtItsPlace
<1> QED
  BY <1>10, <1>13, <1>14

LEMMA PlacesAreNumbers ==
  ASSUME NEW M, NEW txt \in Seq(M), NEW s \in Seq(M)
  PROVE  FileServers!Places(txt, s) \in SUBSET Nat
BY PlaceIs DEF Occurs

(* What the edit tools write. *)
LEMMA EditLands ==
  ASSUME NEW M, NEW txt \in Seq(M), NEW e \in EditOf(M), FileServers!Unique(txt, e.old),
         NEW r, r = FileServers!Apply([ok |-> TRUE, text |-> txt], e)
  PROVE  r.text \in Seq(M) /\ FileServers!EachAtItsPlace(txt, <<e>>, r.text)
<1>1. FileServers!Places(txt, e.old) # {}
  BY UniqueIsThere DEF EditOf
<1>2. FileServers!Places(txt, e.old) \in SUBSET Nat
  BY PlacesAreNumbers DEF EditOf
<1>3. FileServers!First(FileServers!Places(txt, e.old)) \in FileServers!Places(txt, e.old)
  BY <1>1, <1>2, FirstIs
<1>4. r.text = FileServers!ReplaceAtPlace(txt, FileServers!First(FileServers!Places(txt, e.old)), e)
  BY <1>1 DEF FileServers!Apply
<1> QED
  BY <1>3, <1>4, OneLands

LEMMA BatchMade ==
  ASSUME NEW txt, NEW edits, Len(edits) = 2
  PROVE  FileServers!ApplyAll(txt, edits) =
           FileServers!Apply(FileServers!Apply([ok |-> TRUE, text |-> txt], edits[1]), edits[2])
<1> DEFINE start == [ok |-> TRUE, text |-> txt]
           one == FileServers!Apply(start, edits[1])
           two == FileServers!Apply(one, edits[2])
           Makes(f) == f =
             [k \in 0..2 |-> IF k = 0 THEN start ELSE FileServers!Apply(f[k - 1], edits[k])]
           g == [k \in 0..2 |-> IF k = 0 THEN start ELSE IF k = 1 THEN one ELSE two]
           made == CHOOSE f : Makes(f)
<1>1. FileServers!ApplyAll(txt, edits) = made[2]
  BY DEF FileServers!ApplyAll
<1>2. Makes(g)
  <2>1. g[0] = start /\ g[1] = one /\ g[2] = two
    OBVIOUS
  <2>2. g = [k \in 0..2 |-> g[k]]
    OBVIOUS
  <2> HIDE DEF g, start, one, two
  <2>3. ASSUME NEW k \in 0..2
        PROVE  g[k] = IF k = 0 THEN start ELSE FileServers!Apply(g[k - 1], edits[k])
    <3>1. k = 0 \/ k = 1 \/ k = 2
      OBVIOUS
    <3>2. CASE k = 0
      BY <2>1, <3>2
    <3>3. CASE k = 1
      BY <2>1, <3>3 DEF one
    <3>4. CASE k = 2
      BY <2>1, <3>4 DEF two
    <3> QED
      BY <3>1, <3>2, <3>3, <3>4
  <2> QED
    BY <2>2, <2>3
<1> HIDE DEF g
<1>3. Makes(made)
  <2> HIDE DEF Makes
  <2> QED
    BY <1>2
<1> HIDE DEF made, start
<1>4. made[0] = start /\ made[1] = FileServers!Apply(made[0], edits[1])
        /\ made[2] = FileServers!Apply(made[1], edits[2])
  BY <1>3
<1> QED
  BY <1>1, <1>4 DEF start

LEMMA BatchLands ==
  ASSUME NEW M, NEW txt \in Seq(M), NEW e \in EditOf(M), NEW f \in EditOf(M),
         FileServers!ApplyAll(txt, <<e, f>>).ok
  PROVE  /\ FileServers!ApplyAll(txt, <<e, f>>).text \in Seq(M)
         /\ FileServers!Fresh(<<e, f>>) =>
              FileServers!EachAtItsPlace(txt, <<e, f>>, FileServers!ApplyAll(txt, <<e, f>>).text)
<1>1. PICK one, two : /\ one = FileServers!Apply([ok |-> TRUE, text |-> txt], e)
        /\ two = FileServers!Apply(one, f)
                      /\ FileServers!ApplyAll(txt, <<e, f>>) = two
  <2>1. Len(<<e, f>>) = 2 /\ <<e, f>>[1] = e /\ <<e, f>>[2] = f
    OBVIOUS
  <2> QED
    BY <2>1, BatchMade
<1>2. e.old \in Seq(M) /\ f.old \in Seq(M)
  BY DEF EditOf
<1>3. one.ok /\ FileServers!Places(one.text, f.old) # {}
        /\ two.text = FileServers!ReplaceAtPlace(one.text,
             FileServers!First(FileServers!Places(one.text, f.old)), f)
  BY <1>1 DEF FileServers!Apply, FileServers!Raised
<1>4. FileServers!Places(txt, e.old) # {}
        /\ one.text = FileServers!ReplaceAtPlace(txt,
             FileServers!First(FileServers!Places(txt, e.old)), e)
  BY <1>1, <1>3 DEF FileServers!Apply, FileServers!Raised
<1>5. FileServers!First(FileServers!Places(txt, e.old)) \in FileServers!Places(txt, e.old)
  <2>1. FileServers!Places(txt, e.old) \in SUBSET Nat
    BY <1>2, PlacesAreNumbers
  <2> QED
    BY <1>4, <2>1, FirstIs
<1>6. one.text \in Seq(M)
  BY <1>4, <1>5, OneLands
<1>7. FileServers!First(FileServers!Places(one.text, f.old)) \in FileServers!Places(one.text, f.old)
  <2>1. FileServers!Places(one.text, f.old) \in SUBSET Nat
    BY <1>2, <1>6, PlacesAreNumbers
  <2> QED
    BY <1>3, <2>1, FirstIs
<1>8. two.text \in Seq(M)
  BY <1>3, <1>6, <1>7, OneLands
<1>9. FileServers!Fresh(<<e, f>>) => FileServers!EachAtItsPlace(txt, <<e, f>>, two.text)
  BY <1>3, <1>4, <1>5, <1>7, TwoLand
<1> QED
  BY <1>1, <1>8, <1>9

(* Pages. *)
LEMMA LinesAre ==
  ASSUME NEW M, NEW txt \in Seq(M)
  PROVE  \E X : FileServers!Lines(txt) \in Seq(X)
<1> DEFINE ends == {i \in DOMAIN txt : txt[i] = "lf"}
           starts == {i \in DOMAIN txt : i = 1 \/ i - 1 \in ends}
           lines == FileServers!Lines(txt)
           n == Cardinality(starts)
<1>1. n \in Nat
  <2>0. Len(txt) \in Int /\ 1 \in Int /\ DOMAIN txt = 1..Len(txt)
    BY LenProperties
  <2>1. IsFiniteSet(1..Len(txt)) /\ starts \in SUBSET (1..Len(txt))
    BY <2>0, FS_Interval
  <2>2. IsFiniteSet(starts)
    BY <2>1, FS_Subset
  <2> QED
    BY <2>2, FS_CardinalityType
<1>2. lines = [k \in 1..n |-> lines[k]]
  BY SizeIs DEF FileServers!Lines
<1> HIDE DEF lines, n
<1>3. lines \in [1..n -> {lines[k] : k \in 1..n}]
  BY <1>2
<1>4. lines \in Seq({lines[k] : k \in 1..n})
  BY <1>1, <1>3
<1> QED
  BY <1>4 DEF lines

LEMMA PageIs ==
  ASSUME NEW lines, Len(lines) \in Nat, NEW next \in Nat, 1 <= next, NEW limit \in {1, 2},
         NEW page, page = FileServers!Page(lines, next, limit)
  PROVE  /\ page.end \in Nat /\ page.end <= Len(lines)
         /\ page.lines = SubSeq(lines, next, page.end)
         /\ next - 1 <= Len(lines) /\ ~page.beyond => next <= page.end + 1
<1>1. page.end = IF (next - 1) + limit < Len(lines) THEN (next - 1) + limit ELSE Len(lines)
  BY DEF FileServers!Page
<1>2. page.lines = SubSeq(lines, (next - 1) + 1, page.end) /\ (next - 1) + 1 = next
  <2>1. next # 0 /\ (next - 1) + 1 = next
    OBVIOUS
  <2>2. page.lines = SubSeq(lines, (IF next = 0 THEN 0 ELSE next - 1) + 1, page.end)
    BY Zenon DEF FileServers!Page
  <2> QED
    BY <2>1, <2>2
<1>3. limit \in Nat
  OBVIOUS
<1>4. page.end \in Nat /\ page.end <= Len(lines)
  BY <1>1, <1>3
<1>5. next - 1 <= Len(lines) => next <= page.end + 1
  BY <1>1, <1>3
<1> QED
  BY <1>2, <1>4, <1>5

LEMMA PagesJoin ==
  ASSUME NEW X, NEW lines \in Seq(X), NEW next \in Nat, NEW end \in Nat, 1 <= next,
         next <= end + 1, end <= Len(lines)
  PROVE  SubSeq(lines, 1, next - 1) \o SubSeq(lines, next, end) = SubSeq(lines, 1, end)
<1>1. PICK m \in Nat, o \in Nat : m = next - 1 /\ o = 1
  OBVIOUS
<1>2. PICK a \in Seq(X) : a = SubSeq(lines, o, m) /\ IsPart(a, lines, o, m)
  <2>1. 1 <= o /\ m <= Len(lines) /\ o <= m + 1
    BY <1>1
  <2> QED
    BY <2>1, PartOf
<1>3. PICK b \in Seq(X) : b = SubSeq(lines, next, end) /\ IsPart(b, lines, next, end)
  BY PartOf
<1>4. PICK c \in Seq(X) : c = SubSeq(lines, o, end) /\ IsPart(c, lines, o, end)
  <2>1. 1 <= o /\ end <= Len(lines) /\ o <= end + 1
    BY <1>1
  <2> QED
    BY <2>1, PartOf
<1>5. PICK d \in Seq(X) : d = a \o b /\ IsJoin(d, a, b)
  BY JoinedParts
<1>6. Len(a) = m /\ Len(b) = end - m /\ Len(c) = end /\ Len(d) = end
  <2>1. Len(a) = m /\ Len(b) = end - m /\ Len(c) = end
    BY <1>1, <1>2, <1>3, <1>4 DEF IsPart
  <2> QED
    BY <1>5, <2>1 DEF IsJoin
<1>7. ASSUME NEW k \in 1..Len(c)
      PROVE  d[k] = c[k]
  <2>1. k \in Nat /\ 1 <= k /\ k <= end
    BY <1>6
  <2>2. c[k] = lines[k]
    <3>1. k <= end + 1 - o /\ o - 1 + k = k
      BY <1>1, <2>1
    <3> QED
      BY <1>4, <2>1, <3>1 DEF IsPart
  <2>3. d[k] = IF k <= m THEN a[k] ELSE b[k - m]
    <3>1. k <= Len(a) + Len(b)
      BY <1>6, <2>1
    <3> QED
      BY <1>5, <1>6, <2>1, <3>1 DEF IsJoin
  <2>4. k <= m => a[k] = lines[k]
    <3>1. k <= m => k <= m + 1 - o /\ o - 1 + k = k
      BY <1>1, <2>1
    <3> QED
      BY <1>2, <2>1, <3>1 DEF IsPart
  <2>5. ~(k <= m) => b[k - m] = lines[k]
    <3> SUFFICES ASSUME ~(k <= m)
                 PROVE  b[k - m] = lines[k]
      OBVIOUS
    <3>1. k - m \in Nat /\ 1 <= k - m /\ k - m <= end + 1 - next /\ next - 1 + (k - m) = k
      BY <1>1, <2>1
    <3>2. PICK l \in Nat : l = k - m
      BY <3>1
    <3>3. b[l] = lines[next - 1 + l]
      BY <1>3, <3>1, <3>2 DEF IsPart
    <3> QED
      BY <3>1, <3>2, <3>3
  <2> QED
    BY <2>2, <2>3, <2>4, <2>5
<1>8. d = c
  BY <1>6, <1>7, SeqEqual
<1> QED
  BY <1>1, <1>2, <1>3, <1>4, <1>5, <1>8

-----------------------------------------------------------------------------
(* Files. *)

(* What is in files: strings, which those of Text are, too. *)
Chars == STRING \union {"lf", "?"}
TextDisks == [Paths -> {FileServers!Absent, FileServers!Directory}
  \union [kind : {"file"}, data : Seq(Chars)]]

(* What a page-by-page reader has so far, if its file stayed as it is.        *)
LinesOf(p) == FileServers!Lines(FileServers!Text(disk[p].data))
Reading ==
  /\ cursor = [state |-> cursor.state, path |-> cursor.path, next |-> cursor.next,
               got |-> cursor.got, steady |-> cursor.steady]
  /\ cursor.state \in {"none", "on", "done", "lost"} /\ cursor.next \in Nat /\ 1 <= cursor.next
  /\ cursor.state = "none" => cursor = FileServers!NoCursor
  /\ cursor.state = "on" =>
       /\ cursor.path \in Paths
       /\ cursor.steady => /\ cursor.next - 1 <= Len(LinesOf(cursor.path))
                           /\ cursor.got = SubSeq(LinesOf(cursor.path), 1, cursor.next - 1)

(* The disk, the order of its files and the reader. *)
DiskHolds ==
  /\ disk \in TextDisks /\ \A p \in Paths : Len(disk[p].data) <= MaxLen
  /\ order \in Seq(Paths) /\ Once(order) /\ FileServers!ToSet(order) = FileServers!Files
  /\ Reading

(* The other variables. *)
DeskHolds ==
  /\ desk \in (Desks \union OddDesks \union {IdleDesk}) /\ left \in 0..desk.calls
       /\ readFiles \in [Turns -> SUBSET Paths]
  /\ command \in {"idle", "running", "over", "killed"}
AnswerHolds ==
  /\ answer.tool \in {"none"} \union FileServers!Tools
  /\ answer.result \in {"ok", "error", "raised", "blocked"}
  /\ FileServers!EditsExact /\ FileServers!AllOrNothing /\ FileServers!PagesCover

FilesInv == DiskHolds /\ DeskHolds /\ AnswerHolds

LEMMA SceneTypes ==
  ASSUME NEW s \in (Desks \union OddDesks \union {IdleDesk})
  PROVE  /\ s.disk \in TextDisks /\ s.calls \in Nat /\ s.strings \in SUBSET Seq(Chars)
         /\ \A p \in Paths : Len(s.disk[p].data) <= MaxLen
<1>1. s \in FileServers!SceneType /\ \A p \in Paths : Len(s.disk[p].data) <= MaxLen
  BY ContextAssumption, SizeIs DEF FileServers!FilesAssumption
<1>2. s.calls \in Nat /\ s.disk \in FileServers!Disks /\ s.strings \in SUBSET Seq(STRING)
  BY <1>1 DEF FileServers!SceneType
<1>3. \A t \in Seq(STRING) : t \in Seq(Chars)
  <2>1. STRING \subseteq Chars
    BY DEF Chars
  <2> HIDE DEF Chars
  <2>2. ASSUME NEW t \in Seq(STRING)
        PROVE  t \in Seq(Chars)
    <3>1. Len(t) \in Nat /\ t \in [1..Len(t) -> STRING]
      BY LenProperties
    <3>2. t \in [1..Len(t) -> Chars]
      BY <2>1, <3>1
    <3> QED
      BY <3>1, <3>2, SeqDef
  <2> QED
    BY <2>2
<1>4. s.disk \in TextDisks
  <2>1. ASSUME NEW p \in Paths
        PROVE  s.disk[p] \in {FileServers!Absent, FileServers!Directory}
                 \union [kind : {"file"}, data : Seq(Chars)]
    <3>1. s.disk[p] \in {FileServers!Absent, FileServers!Directory}
            \union [kind : {"file"}, data : Seq(STRING)]
      BY <1>2 DEF FileServers!Disks
    <3> QED
      BY <1>3, <3>1
  <2> QED
    BY <1>2, <2>1 DEF FileServers!Disks, TextDisks
<1> QED
  BY <1>1, <1>2, <1>3, <1>4

LEMMA DataTypes ==
  ASSUME NEW d \in TextDisks, NEW p \in Paths
  PROVE  /\ d[p].kind \in {"file", "none", "dir"} /\ d[p].data \in Seq(Chars)
         /\ d[p].kind # "file" => d[p].data = <<>>
<1>1. d[p] = FileServers!Absent \/ d[p] = FileServers!Directory
        \/ d[p] \in [kind : {"file"}, data : Seq(Chars)]
  BY DEF TextDisks
<1>2. CASE d[p] = FileServers!Absent
  BY <1>2 DEF FileServers!Absent
<1>3. CASE d[p] = FileServers!Directory
  BY <1>3 DEF FileServers!Directory
<1>4. CASE d[p] \in [kind : {"file"}, data : Seq(Chars)]
  BY <1>4
<1> QED
  BY <1>1, <1>2, <1>3, <1>4

LEMMA TextIs ==
  ASSUME NEW body \in Seq(Chars)
  PROVE  FileServers!Text(body) \in Seq(Chars)
<1>1. DOMAIN body = 1..Len(body) /\ Len(body) \in Nat /\ \A i \in DOMAIN body : body[i] \in Chars
  BY LenProperties, ElementOfSeq
<1>2. \A i \in DOMAIN body :
        (CASE body[i] = "crlf" -> "lf" [] body[i] = "bad" -> "?" [] OTHER -> body[i]) \in Chars
  <2>1. ASSUME NEW i \in DOMAIN body
        PROVE  (CASE body[i] = "crlf" -> "lf" [] body[i] =
                 "bad" -> "?" [] OTHER -> body[i]) \in Chars
    <3>1. body[i] \in Chars /\ "lf" \in Chars /\ "?" \in Chars
      BY <1>1 DEF Chars
    <3>2. CASE body[i] = "crlf"
      <4>1. body[i] # "bad"
        BY <3>2
      <4> QED
        BY <3>1, <3>2, <4>1
    <3>3. CASE body[i] = "bad"
      <4>1. body[i] # "crlf"
        BY <3>3
      <4> QED
        BY <3>1, <3>3, <4>1
    <3>4. CASE body[i] # "crlf" /\ body[i] # "bad"
      BY <3>1, <3>4
    <3> QED
      BY <3>2, <3>3, <3>4
  <2> QED
    BY <2>1
<1>3. FileServers!Text(body) \in [1..Len(body) -> Chars]
  BY <1>1, <1>2 DEF FileServers!Text
<1> QED
  BY <1>1, <1>3

(* The type invariant of FileTools.tla follows. *)
LEMMA FilesTyped == FilesInv => FileServers!TypeOK
<1> SUFFICES ASSUME FilesInv
             PROVE  FileServers!TypeOK
  OBVIOUS
<1> USE DEF FilesInv, DiskHolds, DeskHolds, AnswerHolds
<1>1. \A p \in Paths : disk[p].kind \in {"file", "none", "dir"} /\ Len(disk[p].data) <= MaxLen
  BY DataTypes
<1>2. Len(order) = Cardinality(FileServers!Files)
  BY OnceCounts
<1> QED
  BY <1>1, <1>2, SizeIs DEF FileServers!TypeOK, Reading

(* A change of the disk, and none. *)
LEMMA ChangeHolds ==
  ASSUME DiskHolds, NEW new \in TextDisks, \A p \in Paths : Len(new[p].data) <= MaxLen,
         NEW recent \in Seq(Paths), Once(recent),
         {p \in Paths : new[p].kind = "file"} \subseteq FileServers!ToSet(recent),
           FileServers!Change(new, recent)
  PROVE  DiskHolds'
<1> DEFINE S == {p \in Paths : new[p].kind = "file"}
<1>1. disk' = new /\ order' = FileServers!Among(recent, S)
  BY DEF FileServers!Change
<1>2. FileServers!Files' = S
  BY <1>1 DEF FileServers!Files
<1>3. order' \in Seq(Paths) /\ Once(order)' /\ FileServers!ToSet(order') = S
  <2>1. /\ FileServers!Among(recent, S) \in Seq(Paths) /\ Once(FileServers!Among(recent, S))
        /\ FileServers!ToSet(FileServers!Among(recent, S)) = FileServers!ToSet(recent) \intersect S
    BY AmongIs
  <2> QED
    BY <1>1, <2>1 DEF Once
<1>4. Reading'
  <2>1. CASE cursor.state = "on" /\ new[cursor.path] # disk[cursor.path]
    <3>1. cursor' = [cursor EXCEPT !.steady = FALSE]
      BY <2>1 DEF FileServers!Change
    <3> QED
      BY <2>1, <3>1 DEF DiskHolds, Reading
  <2>2. CASE ~(cursor.state = "on" /\ new[cursor.path] # disk[cursor.path])
    <3>1. cursor' = cursor
      BY <2>2 DEF FileServers!Change
    <3>2. cursor.state = "on" => LinesOf(cursor.path)' = LinesOf(cursor.path)
      BY <1>1, <2>2, <3>1 DEF LinesOf
    <3> QED
      BY <3>1, <3>2 DEF DiskHolds, Reading
  <2> QED
    BY <2>1, <2>2
<1> QED
  BY <1>1, <1>2, <1>3, <1>4 DEF DiskHolds

LEMMA KeepHolds == DiskHolds /\ FileServers!Keep => DiskHolds'
<1> SUFFICES ASSUME DiskHolds, FileServers!Keep
             PROVE  DiskHolds'
  OBVIOUS
<1>1. disk' = disk /\ order' = order /\ cursor' = cursor
  BY DEF FileServers!Keep
<1>2. Reading'
  BY <1>1 DEF Reading, DiskHolds, LinesOf
<1> QED
  BY <1>1, <1>2 DEF DiskHolds, FileServers!Files, Once

LEMMA TouchedFileIs ==
  ASSUME DiskHolds, NEW p \in Paths
  PROVE  /\ FileServers!Touched(p) \in Seq(Paths) /\ Once(FileServers!Touched(p))
         /\ FileServers!Files \union {p} \subseteq FileServers!ToSet(FileServers!Touched(p))
<1> DEFINE others == FileServers!Among(order, Paths \ {p})
<1>1. others \in Seq(Paths) /\ Once(others) /\ FileServers!ToSet(others) = FileServers!Files \ {p}
  <2>1. order \in Seq(Paths) /\ Once(order) /\ FileServers!ToSet(order) = FileServers!Files
    BY DEF DiskHolds
  <2>2. /\ others \in Seq(Paths) /\ Once(others)
             /\ FileServers!ToSet(others) = FileServers!ToSet(order) \intersect (Paths \ {p})
    BY <2>1, AmongIs
  <2> QED
    BY <2>1, <2>2 DEF FileServers!Files
<1> HIDE DEF others
<1>2. PICK n \in Nat : n = Len(others) /\ DOMAIN others = 1..n
  BY <1>1, LenProperties
<1>3. PICK t \in Seq(Paths) : t = <<p>> \o others /\ IsJoin(t, <<p>>, others)
  <2>1. <<p>> \in Seq(Paths)
    OBVIOUS
  <2> QED
    BY <1>1, <2>1, JoinedParts
<1>4. /\ Len(t) = n + 1 /\ DOMAIN t = 1..n + 1
      /\ \A k \in Nat : 1 <= k /\ k <= n + 1 => t[k] = IF k <= 1 THEN p ELSE others[k - 1]
  <2>1. Len(<<p>>) = 1 /\ <<p>>[1] = p
    OBVIOUS
  <2>2. \A k \in Nat : 1 <= k /\ k <= 1 => k = 1
    OBVIOUS
  <2>3. /\ Len(t) = 1 + n
        /\ \A k \in Nat : 1 <= k /\ k <= 1 + n => t[k] = IF k <= 1 THEN <<p>>[k] ELSE others[k - 1]
    BY <1>2, <1>3, <2>1 DEF IsJoin
  <2>4. DOMAIN t = 1..Len(t)
    BY LenProperties
  <2> QED
    BY <2>1, <2>2, <2>3, <2>4
<1>5. \A i \in 1..n : others[i] \in FileServers!Files \ {p}
  BY <1>1, <1>2 DEF FileServers!ToSet
<1>6. Once(t)
  <2> SUFFICES ASSUME NEW i \in 1..n + 1, NEW j \in 1..n + 1, t[i] = t[j]
               PROVE  i = j
    BY <1>4 DEF Once
  <2>1. \A k \in 1..n + 1 : k = 1 \/ k - 1 \in 1..n
    OBVIOUS
  <2>2. \A k \in 1..n + 1 : t[k] = IF k = 1 THEN p ELSE others[k - 1]
    BY <1>4
  <2>3. CASE i = 1 \/ j = 1
    BY <1>5, <2>1, <2>2, <2>3
  <2>4. CASE i # 1 /\ j # 1
    <3>1. i - 1 \in 1..n /\ j - 1 \in 1..n /\ others[i - 1] = others[j - 1]
      BY <2>1, <2>2, <2>4
    <3>2. i - 1 = j - 1
      BY <1>1, <1>2, <3>1 DEF Once
    <3> QED
      BY <3>2
  <2> QED
    BY <2>3, <2>4
<1>7. FileServers!Files \union {p} \subseteq FileServers!ToSet(t)
  <2>1. t[1] = p /\ 1 \in 1..n + 1
    BY <1>4
  <2>2. ASSUME NEW q \in FileServers!Files \ {p}
        PROVE  \E i \in 1..n + 1 : t[i] = q
    <3>1. PICK j \in 1..n : others[j] = q
      BY <1>1, <1>2 DEF FileServers!ToSet
    <3>2. j + 1 \in 1..n + 1 /\ t[j + 1] = others[j]
      BY <1>4
    <3> QED
      BY <3>1, <3>2
  <2> QED
    BY <1>4, <2>1, <2>2 DEF FileServers!ToSet
<1> QED
  BY <1>3, <1>6, <1>7 DEF FileServers!Touched, others

LEMMA WriteHolds ==
  ASSUME DiskHolds, NEW p \in Paths, NEW body \in Seq(Chars), FileServers!Write(p, body)
  PROVE  DiskHolds' /\ disk' = [disk EXCEPT ![p] = FileServers!File(body)]
<1> DEFINE new == [disk EXCEPT ![p] = FileServers!File(body)]
<1>1. Len(body) <= MaxLen /\ FileServers!Change(new, FileServers!Touched(p))
  BY DEF FileServers!Write
<1>2. new \in TextDisks
  BY DEF DiskHolds, TextDisks, FileServers!File
<1>3. \A q \in Paths : new[q] = IF q = p THEN FileServers!File(body) ELSE disk[q]
  BY DEF DiskHolds, TextDisks
<1>4. \A q \in Paths : Len(new[q].data) <= MaxLen
  BY <1>1, <1>3 DEF DiskHolds, FileServers!File
<1>5. {q \in Paths : new[q].kind = "file"} \subseteq FileServers!Files \union {p}
  BY <1>3 DEF FileServers!Files
<1>6. FileServers!Touched(p) \in Seq(Paths) /\ Once(FileServers!Touched(p))
        /\ FileServers!Files \union {p} \subseteq FileServers!ToSet(FileServers!Touched(p))
  BY TouchedFileIs
<1>7. disk' = new
  BY <1>1 DEF FileServers!Change
<1> HIDE DEF new
<1>8. DiskHolds'
  BY <1>1, <1>2, <1>4, <1>5, <1>6, ChangeHolds
<1> QED
  BY <1>7, <1>8 DEF new

(* Answers of tools that neither edit nor read page by page. *)
LEMMA PlainAnswer ==
  ASSUME answer'.tool \in ({"none"} \union FileServers!Tools) \ {"edit_file", "batch_edit_file",
         "read_file"},
         answer'.result \in {"ok", "error", "raised"}, answer'.result # "ok" => disk' = before'
  PROVE  AnswerHolds'
BY
   DEF AnswerHolds, FileServers!EditsExact, FileServers!AllOrNothing, FileServers!PagesCover,
       FileServers!Edit

LEMMA CallHolds ==
  ASSUME DeskHolds, NEW tool, FileServers!Call(tool), desk' = desk,
         command' \in {"idle", "running", "over", "killed"},
         readFiles' \in [Turns -> SUBSET Paths]
  PROVE  DeskHolds' /\ before' = disk
<1>1. desk.calls \in Nat
  BY SceneTypes DEF DeskHolds
<1> QED
  BY <1>1 DEF DeskHolds, FileServers!Call

-----------------------------------------------------------------------------
(* Every call. *)

LEMMA FilesStart == FileServers!Init => FilesInv
<1> SUFFICES ASSUME FileServers!Init
             PROVE  FilesInv
  OBVIOUS
<1>1. /\ desk \in (Desks \union OddDesks \union {IdleDesk}) /\ disk = desk.disk
           /\ left = desk.calls /\ cursor = FileServers!NoCursor
      /\ readFiles = [t \in Turns |-> {}] /\ order \in FileServers!SetToSeqs(FileServers!Files)
           /\ command = "idle"
      /\ before = disk /\ answer = FileServers!Nothing
  BY DEF FileServers!Init
<1>2. disk \in TextDisks /\ left \in 0..desk.calls /\ \A p \in Paths : Len(disk[p].data) <= MaxLen
  BY <1>1, SceneTypes
<1>3. order \in Seq(Paths) /\ Once(order) /\ FileServers!ToSet(order) = FileServers!Files
  <2>1. IsFiniteSet(FileServers!Files)
    BY ContextAssumption, FS_Subset, SizeIs DEF FileServers!FilesAssumption, FileServers!Files
  <2>2. Cardinality(FileServers!Files) \in Nat /\ FileServers!Files \subseteq Paths
    BY <2>1, FS_CardinalityType DEF FileServers!Files
  <2>3. PICK n \in Nat : n = Cardinality(FileServers!Files)
    BY <2>2
  <2>4. order \in [1..n -> FileServers!Files] /\ \A i, j \in 1..n : i # j => order[i] # order[j]
    BY <1>1, <2>3, SizeIs DEF FileServers!SetToSeqs
  <2>5. order \in Seq(Paths) /\ DOMAIN order = 1..n
    BY <2>2, <2>4
  <2>6. Once(order)
    BY <2>4, <2>5 DEF Once
  <2>7. FileServers!ToSet(order) \subseteq FileServers!Files
    BY <2>4 DEF FileServers!ToSet
  <2>8. Cardinality(FileServers!ToSet(order)) = Cardinality(FileServers!Files)
    <3>1. Len(order) = n
      BY <2>4, <2>5
    <3> QED
      BY <2>3, <2>5, <2>6, <3>1, OnceCounts
  <2>9. FileServers!ToSet(order) = FileServers!Files
    BY <2>1, <2>7, <2>8, FS_Subset
  <2> QED
    BY <2>5, <2>6, <2>9
<1>4. Reading
  BY <1>1 DEF Reading, FileServers!NoCursor
<1>5. AnswerHolds
  BY <1>1
     DEF AnswerHolds, FileServers!Nothing, FileServers!EditsExact, FileServers!AllOrNothing,
         FileServers!PagesCover, FileServers!Edit
<1> QED
  BY <1>1, <1>2, <1>3, <1>4, <1>5 DEF FilesInv, DiskHolds, DeskHolds

(* The page goes on where the last one ended. *)
LEMMA ReadPageStep ==
  ASSUME FilesInv, NEW t \in Turns, NEW p \in Paths, NEW limit \in {1, 2},
         FileServers!ReadPage(t, p, limit)
  PROVE  FilesInv'
<1>1. DiskHolds /\ DeskHolds /\ Reading
  BY DEF FilesInv, DiskHolds
<1>2. PICK lines, page : lines = LinesOf(p) /\ page = FileServers!Page(lines, cursor.next, limit)
  OBVIOUS
<1>3. PICK X : lines \in Seq(X)
  <2>1. FileServers!Text(disk[p].data) \in Seq(Chars)
    BY <1>1, DataTypes, TextIs DEF DiskHolds
  <2> QED
    BY <1>2, <2>1, LinesAre DEF LinesOf
<1>4. cursor.next \in Nat /\ 1 <= cursor.next /\ Len(lines) \in Nat
  BY <1>1, <1>3, LenProperties DEF Reading
<1>5. /\ page.end \in Nat /\ page.end <= Len(lines)
      /\ page.lines = SubSeq(lines, cursor.next, page.end)
      /\ cursor.next - 1 <= Len(lines) /\ ~page.beyond => cursor.next <= page.end + 1
  BY <1>2, <1>4, PageIs
<1>6. /\ FileServers!Call("read_file") /\ cursor.state \in {"none", "on"}
      /\ cursor.state = "on" => cursor.path = p
      /\ FileServers!Track(t, {p})
           /\ FileServers!Answer("read_file", p, IF cursor'.state = "lost" THEN "error" ELSE "ok")
      /\ UNCHANGED <<desk, disk, order, command>>
      /\ cursor' =
           IF p \notin FileServers!Files
             \/ page.beyond THEN [cursor EXCEPT !.state = "lost", !.path = p]
           ELSE [cursor EXCEPT !.state = IF page.end = Len(lines) THEN "done" ELSE "on",
                               !.path = p, !.next = page.end + 1, !.got = cursor.got \o page.lines]
  BY <1>2 DEF FileServers!ReadPage, LinesOf
<1>7. ASSUME cursor.steady, cursor'.state # "lost"
      PROVE  cursor'.got = SubSeq(lines, 1, page.end)
  <2>1. cursor'.got = cursor.got \o page.lines /\ ~page.beyond
    BY <1>1, <1>6, <1>7 DEF Reading
  <2>2. cursor.got = SubSeq(lines, 1, cursor.next - 1) /\ cursor.next - 1 <= Len(lines)
    <3>1. CASE cursor.state = "none"
      <4>1. cursor.next = 1 /\ cursor.got = <<>>
        BY <1>1, <3>1 DEF Reading, FileServers!NoCursor
      <4>2. SubSeq(lines, 1, 1 - 1) = <<>>
        <5>1. PICK m \in Nat, n \in Nat : m = 1 /\ n = 0
          OBVIOUS
        <5>2. SubSeq(lines, m, n) \in Seq(X) /\ IsPart(SubSeq(lines, m, n), lines, m, n)
          <6>1. 1 <= m /\ n <= Len(lines) /\ m <= n + 1
            BY <1>4, <5>1
          <6> QED
            BY <1>3, <6>1, PartOf
        <5>3. Len(SubSeq(lines, m, n)) = 0
          BY <5>1, <5>2 DEF IsPart
        <5>4. SubSeq(lines, m, n) = <<>>
          BY <5>2, <5>3, EmptySeq
        <5> QED
          BY <5>1, <5>4
      <4> QED
        BY <1>4, <4>1, <4>2
    <3>2. CASE cursor.state = "on"
      BY <1>1, <1>2, <1>6, <1>7, <3>2 DEF Reading
    <3> QED
      BY <1>6, <3>1, <3>2
  <2>3. cursor.next <= page.end + 1
    BY <1>5, <2>1, <2>2
  <2> QED
    BY <1>3, <1>4, <1>5, <2>1, <2>2, <2>3, PagesJoin
<1>8. LinesOf(p)' = lines /\ disk' = disk /\ order' = order
        /\ FileServers!Files' = FileServers!Files
  BY <1>2, <1>6 DEF LinesOf, FileServers!Files
<1>9. cursor'.steady = cursor.steady /\ cursor'.path = p
  BY <1>1, <1>6 DEF Reading
<1>10. Reading'
  <2>1. CASE p \notin FileServers!Files \/ page.beyond
    <3>1. cursor' = [cursor EXCEPT !.state = "lost", !.path = p]
      BY <1>6, <2>1
    <3> QED
      BY <1>1, <3>1 DEF Reading
  <2>2. CASE ~(p \notin FileServers!Files \/ page.beyond)
    <3>1. cursor' = [cursor EXCEPT !.state = IF page.end = Len(lines) THEN "done" ELSE "on",
                                   !.path = p, !.next = page.end + 1,
                                     !.got = cursor.got \o page.lines]
      BY <1>6, <2>2
    <3>2. /\ cursor'.state = (IF page.end = Len(lines) THEN "done" ELSE "on")
          /\ cursor'.next = page.end + 1
          /\ cursor' = [state |-> cursor'.state, path |-> cursor'.path, next |-> cursor'.next,
                        got |-> cursor'.got, steady |-> cursor'.steady]
      BY <1>1, <3>1 DEF Reading
    <3>3. cursor'.state # "lost" /\ cursor'.state \in {"on", "done"}
      BY <3>2
    <3>4. cursor'.steady => cursor'.got = SubSeq(lines, 1, cursor'.next - 1)
      <4>1. (page.end + 1) - 1 = page.end
        BY <1>5
      <4> QED
        BY <1>7, <1>9, <3>2, <3>3, <4>1
    <3>5. cursor'.next \in Nat /\ 1 <= cursor'.next /\ cursor'.next - 1 <= Len(lines)
      BY <1>5, <3>2
    <3> QED
      BY <1>8, <1>9, <3>2, <3>3, <3>4, <3>5 DEF Reading
  <2> QED
    BY <2>1, <2>2
<1>11. DiskHolds'
  BY <1>1, <1>8, <1>10 DEF DiskHolds, Once
<1>12. DeskHolds' /\ before' = disk
  <2>1. readFiles' \in [Turns -> SUBSET Paths]
    BY <1>1, <1>6 DEF FileServers!Track, DeskHolds
  <2>2. command' \in {"idle", "running", "over", "killed"} /\ desk' = desk
    BY <1>1, <1>6 DEF DeskHolds
  <2> QED
    BY <1>1, <1>6, <2>1, <2>2, CallHolds
<1>13. AnswerHolds'
  <2>1. answer'.tool = "read_file" /\ answer'.result \in {"ok", "error"}
    BY <1>6 DEF FileServers!Answer, FileServers!Nothing
  <2>2. ASSUME cursor'.state = "done", cursor'.steady
        PROVE  cursor'.got = LinesOf(p)'
    <3>1. page.end = Len(lines)
      BY <1>1, <1>6, <2>2 DEF Reading
    <3>2. SubSeq(lines, 1, Len(lines)) = lines
      BY <1>3, SubSeqFull
    <3> QED
      BY <1>7, <1>8, <1>9, <2>2, <3>1, <3>2
  <2>3. FileServers!PagesCover'
    BY <1>9, <2>2 DEF FileServers!PagesCover, LinesOf
  <2>4. "read_file" \in FileServers!Tools
    BY DEF FileServers!Tools
  <2> QED
    BY <1>8, <1>12, <2>1, <2>3, <2>4
       DEF AnswerHolds, FileServers!EditsExact, FileServers!AllOrNothing, FileServers!Edit
<1> QED
  BY <1>11, <1>12, <1>13 DEF FilesInv

LEMMA ReadFilesStep ==
  ASSUME FilesInv, NEW t \in Turns, NEW S \in SUBSET Paths, FileServers!ReadFiles(t, S)
  PROVE  FilesInv'
<1>1. /\ FileServers!Call("read_multiple_files") /\ FileServers!Keep /\ desk' = desk
           /\ command' = command
      /\ readFiles' = [readFiles EXCEPT ![t] = @ \union S]
      /\ answer' = [FileServers!Nothing EXCEPT !.tool = "read_multiple_files"]
  BY DEF FileServers!ReadFiles, FileServers!Track
<1>2. DiskHolds'
  BY <1>1, KeepHolds DEF FilesInv
<1>3. DeskHolds' /\ before' = disk
  <2>1. readFiles' \in [Turns -> SUBSET Paths] /\ command' \in {"idle", "running", "over", "killed"}
    BY <1>1 DEF FilesInv, DeskHolds
  <2> QED
    BY <1>1, <2>1, CallHolds DEF FilesInv
<1>4. AnswerHolds'
  BY <1>1, PlainAnswer DEF FileServers!Nothing, FileServers!Tools
<1> QED
  BY <1>2, <1>3, <1>4 DEF FilesInv

LEMMA WriteFileStep ==
  ASSUME FilesInv, NEW p \in Paths, NEW body \in Seq(Chars), FileServers!WriteFile(p, body)
  PROVE  FilesInv'
<1>1. FileServers!Call("write_file") /\ desk' = desk /\ readFiles' = readFiles /\ command' = command
  BY DEF FileServers!WriteFile
<1>2. DeskHolds' /\ before' = disk
  BY <1>1, CallHolds DEF FilesInv, DeskHolds
<1>3. CASE disk[p].kind = "dir"
  <2>1. FileServers!Keep
          /\ answer' = [FileServers!Nothing EXCEPT !.tool = "write_file", !.path = p,
               !.result = "raised"]
    BY <1>3 DEF FileServers!WriteFile, FileServers!Answer
  <2>2. DiskHolds' /\ disk' = disk
    BY <2>1, KeepHolds DEF FilesInv, FileServers!Keep
  <2>3. AnswerHolds'
    BY <1>2, <2>1, <2>2, PlainAnswer DEF FileServers!Nothing, FileServers!Tools
  <2> QED
    BY <1>2, <2>2, <2>3 DEF FilesInv
<1>4. CASE disk[p].kind # "dir"
  <2>1. FileServers!Write(p, body)
          /\ answer' = [FileServers!Nothing EXCEPT !.tool = "write_file", !.path = p,
               !.result = "ok"]
    BY <1>4 DEF FileServers!WriteFile, FileServers!Answer
  <2>2. DiskHolds'
    BY <2>1, WriteHolds DEF FilesInv
  <2>3. AnswerHolds'
    BY <2>1, PlainAnswer DEF FileServers!Nothing, FileServers!Tools
  <2> QED
    BY <1>2, <2>2, <2>3 DEF FilesInv
<1> QED
  BY <1>3, <1>4

(* What an edit's answer needs, if it wrote and if it did not. *)
LEMMA EditAnswered ==
  ASSUME NEW tool \in {"edit_file", "batch_edit_file"}, NEW t, NEW p \in Paths, NEW edits,
         NEW result,
         FileServers!Edited(tool, t, p, edits, result), before' = disk, disk \in TextDisks,
         \/ result \in {"blocked", "error", "raised"} /\ disk' = disk
         \/ /\ result = "ok"
            /\ \E body : /\ disk' = [disk EXCEPT ![p] = FileServers!File(body)]
                         /\ (Len(edits) > 1 => FileServers!Fresh(edits)) =>
                              FileServers!EachAtItsPlace(FileServers!Text(disk[p].data), edits,
                                body)
  PROVE  AnswerHolds'
<1>1. /\ answer'.tool = tool /\ answer'.path = p /\ answer'.edits = edits /\ answer'.result = result
  BY DEF FileServers!Edited, FileServers!Nothing
<1>2. answer'.tool # "read_file" /\ tool \in FileServers!Tools
  BY <1>1 DEF FileServers!Tools
<1>3. CASE result \in {"blocked", "error", "raised"} /\ disk' = disk
  BY <1>1, <1>2, <1>3
     DEF AnswerHolds, FileServers!EditsExact, FileServers!AllOrNothing, FileServers!PagesCover,
         FileServers!Edit
<1>4. CASE result = "ok"
  <2>1. PICK body : /\ disk' = [disk EXCEPT ![p] = FileServers!File(body)]
                    /\ (Len(edits) > 1 => FileServers!Fresh(edits)) =>
                         FileServers!EachAtItsPlace(FileServers!Text(disk[p].data), edits, body)
    BY <1>4
  <2>2. disk'[p].data = body /\ \A q \in Paths \ {p} : disk'[q] = disk[q]
    <3>1. disk' = [disk EXCEPT ![p] = FileServers!File(body)] /\ DOMAIN disk = Paths
      BY <2>1 DEF TextDisks
    <3>2. disk'[p] = FileServers!File(body) /\ FileServers!File(body).data = body
      BY <3>1 DEF FileServers!File
    <3> QED
      BY <3>1, <3>2
  <2>3. FileServers!EditsExact'
    <3>1. FileServers!TextBefore' = FileServers!Text(disk[p].data)
            /\ disk'[answer'.path].data = body
      BY <1>1, <2>2 DEF FileServers!TextBefore
    <3> QED
      BY <1>1, <2>1, <3>1 DEF FileServers!EditsExact
  <2>4. FileServers!AllOrNothing'
    BY <1>1, <1>4, <2>2 DEF FileServers!AllOrNothing
  <2> QED
    BY <1>1, <1>2, <1>4, <2>3, <2>4 DEF AnswerHolds, FileServers!PagesCover
<1> QED
  BY <1>3, <1>4

LEMMA EditFileStep ==
  ASSUME FilesInv, NEW t \in Turns, NEW p \in Paths, NEW e \in EditOf(Chars),
         FileServers!EditFile(t, p, e)
  PROVE  FilesInv'
<1>1. FileServers!Call("edit_file") /\ desk' = desk /\ readFiles' = readFiles /\ command' = command
  BY DEF FileServers!EditFile
<1>2. DeskHolds' /\ before' = disk
  BY <1>1, CallHolds DEF FilesInv, DeskHolds
<1>3. DiskHolds /\ disk \in TextDisks
  BY DEF FilesInv, DiskHolds
<1>4. PICK txt, result :
        /\ txt = FileServers!Text(disk[p].data)
        /\ result = IF p \notin readFiles[t] THEN "blocked"
                    ELSE IF p \notin FileServers!Files
                           \/ ~FileServers!Unique(txt, e.old) THEN "error" ELSE "ok"
        /\ IF result = "ok" THEN FileServers!Write(p,
             FileServers!Apply([ok |-> TRUE, text |-> txt], e).text) ELSE FileServers!Keep
        /\ FileServers!Edited("edit_file", t, p, <<e>>, result)
  BY DEF FileServers!EditFile
<1>5. txt \in Seq(Chars)
  BY <1>3, <1>4, DataTypes, TextIs
<1>6. CASE result = "ok"
  <2>1. FileServers!Unique(txt, e.old)
    BY <1>4, <1>6
  <2>2. PICK body : body = FileServers!Apply([ok |-> TRUE, text |-> txt], e).text
    OBVIOUS
  <2>3. body \in Seq(Chars) /\ FileServers!EachAtItsPlace(txt, <<e>>, body)
    BY <1>5, <2>1, <2>2, EditLands
  <2>4. FileServers!Write(p, body)
    BY <1>4, <1>6, <2>2
  <2>5. DiskHolds' /\ disk' = [disk EXCEPT ![p] = FileServers!File(body)]
    BY <1>3, <2>3, <2>4, WriteHolds
  <2>6. AnswerHolds'
    BY <1>2, <1>3, <1>4, <1>6, <2>3, <2>5, EditAnswered
  <2> QED
    BY <1>2, <2>5, <2>6 DEF FilesInv
<1>7. CASE result # "ok"
  <2>1. result \in {"blocked", "error", "raised"} /\ FileServers!Keep
    BY <1>4, <1>7
  <2>2. DiskHolds' /\ disk' = disk
    BY <1>3, <2>1, KeepHolds DEF FileServers!Keep
  <2>3. AnswerHolds'
    BY <1>2, <1>3, <1>4, <2>1, <2>2, EditAnswered
  <2> QED
    BY <1>2, <2>2, <2>3 DEF FilesInv
<1> QED
  BY <1>6, <1>7

LEMMA BatchEditStep ==
  ASSUME FilesInv, NEW t \in Turns, NEW p \in Paths, NEW edits,
         edits = <<>> \/ \E e, f \in EditOf(Chars) :
           edits = <<e, f>>, FileServers!BatchEdit(t, p, edits)
  PROVE  FilesInv'
<1>1. FileServers!Call("batch_edit_file") /\ desk' = desk /\ readFiles' = readFiles
        /\ command' = command
  BY DEF FileServers!BatchEdit
<1>2. DeskHolds' /\ before' = disk
  BY <1>1, CallHolds DEF FilesInv, DeskHolds
<1>3. DiskHolds /\ disk \in TextDisks
  BY DEF FilesInv, DiskHolds
<1>4. PICK txt, valid, result :
        /\ txt = FileServers!Text(disk[p].data)
        /\ valid <=> p \in FileServers!Files /\ edits # <<>> /\ \A k \in DOMAIN edits :
             FileServers!Unique(txt, edits[k].old)
        /\ result = IF ~valid THEN "error" ELSE IF FileServers!ApplyAll(txt,
             edits).ok THEN "ok" ELSE "raised"
        /\ IF result = "ok" THEN FileServers!Write(p,
             FileServers!ApplyAll(txt, edits).text) ELSE FileServers!Keep
        /\ FileServers!Edited("batch_edit_file", t, p, edits, result)
  BY DEF FileServers!BatchEdit
<1>5. txt \in Seq(Chars)
  BY <1>3, <1>4, DataTypes, TextIs
<1>6. CASE result = "ok"
  <2>1. valid /\ FileServers!ApplyAll(txt, edits).ok
    BY <1>4, <1>6
  <2>2. PICK e \in EditOf(Chars), f \in EditOf(Chars) : edits = <<e, f>>
    BY <1>4, <2>1
  <2>3. PICK body : body = FileServers!ApplyAll(txt, edits).text
    OBVIOUS
  <2>4. body \in Seq(Chars)
          /\ (FileServers!Fresh(edits) => FileServers!EachAtItsPlace(txt, edits, body))
    BY <1>5, <2>1, <2>2, <2>3, BatchLands
  <2>5. FileServers!Write(p, body)
    BY <1>4, <1>6, <2>3
  <2>6. DiskHolds' /\ disk' = [disk EXCEPT ![p] = FileServers!File(body)]
    BY <1>3, <2>4, <2>5, WriteHolds
  <2>7. Len(edits) > 1
    BY <2>2
  <2>8. AnswerHolds'
    BY <1>2, <1>3, <1>4, <1>6, <2>4, <2>6, <2>7, EditAnswered
  <2> QED
    BY <1>2, <2>6, <2>8 DEF FilesInv
<1>7. CASE result # "ok"
  <2>1. result \in {"blocked", "error", "raised"} /\ FileServers!Keep
    BY <1>4, <1>7
  <2>2. DiskHolds' /\ disk' = disk
    BY <1>3, <2>1, KeepHolds DEF FileServers!Keep
  <2>3. AnswerHolds'
    BY <1>2, <1>3, <1>4, <2>1, <2>2, EditAnswered
  <2> QED
    BY <1>2, <2>2, <2>3 DEF FilesInv
<1> QED
  BY <1>6, <1>7

LEMMA CreateDirectoryStep ==
  ASSUME FilesInv, NEW p \in Paths, FileServers!CreateDirectory(p)
  PROVE  FilesInv'
<1>1. FileServers!Call("create_directory") /\ desk' = desk /\ readFiles' = readFiles
        /\ command' = command
  BY DEF FileServers!CreateDirectory
<1>2. DeskHolds' /\ before' = disk
  BY <1>1, CallHolds DEF FilesInv, DeskHolds
<1>3. CASE p \in FileServers!Files
  <2>1. FileServers!Keep
          /\ answer' = [FileServers!Nothing EXCEPT !.tool = "create_directory", !.path = p,
               !.result = "raised"]
    BY <1>3 DEF FileServers!CreateDirectory, FileServers!Answer
  <2>2. DiskHolds' /\ disk' = disk
    BY <2>1, KeepHolds DEF FilesInv, FileServers!Keep
  <2>3. AnswerHolds'
    BY <1>2, <2>1, <2>2, PlainAnswer DEF FileServers!Nothing, FileServers!Tools
  <2> QED
    BY <1>2, <2>2, <2>3 DEF FilesInv
<1>4. CASE p \notin FileServers!Files
  <2>1. PICK new : new = [disk EXCEPT ![p] = FileServers!Directory]
    OBVIOUS
  <2>2. /\ FileServers!Change(new, order)
        /\ answer' = [FileServers!Nothing EXCEPT !.tool = "create_directory", !.path = p,
             !.result = "ok"]
    BY <1>4, <2>1 DEF FileServers!CreateDirectory, FileServers!Answer
  <2>3. DiskHolds'
    <3>1. new \in TextDisks /\ \A q \in Paths :
            new[q] = IF q = p THEN FileServers!Directory ELSE disk[q]
      BY <2>1 DEF FilesInv, DiskHolds, TextDisks
    <3>2. \A q \in Paths : Len(new[q].data) <= MaxLen
      BY <3>1, ContextAssumption, SizeIs
         DEF FileServers!FilesAssumption, FilesInv, DiskHolds, FileServers!Directory
    <3>3. /\ order \in Seq(Paths) /\ Once(order)
          /\ {q \in Paths : new[q].kind = "file"} \subseteq FileServers!ToSet(order)
      BY <3>1 DEF FilesInv, DiskHolds, FileServers!Files, FileServers!Directory
    <3> QED
      BY <2>2, <3>1, <3>2, <3>3, ChangeHolds DEF FilesInv
  <2>4. AnswerHolds'
    BY <2>2, PlainAnswer DEF FileServers!Nothing, FileServers!Tools
  <2> QED
    BY <1>2, <2>3, <2>4 DEF FilesInv
<1> QED
  BY <1>3, <1>4

LEMMA DeleteFileStep ==
  ASSUME FilesInv, NEW p \in Paths, FileServers!DeleteFile(p)
  PROVE  FilesInv'
<1>1. FileServers!Call("delete_file") /\ desk' = desk /\ readFiles' = readFiles
        /\ command' = command
  BY DEF FileServers!DeleteFile
<1>2. DeskHolds' /\ before' = disk
  BY <1>1, CallHolds DEF FilesInv, DeskHolds
<1>3. CASE p \notin FileServers!Files
  <2>1. FileServers!Keep
          /\ answer' = [FileServers!Nothing EXCEPT !.tool = "delete_file", !.path = p,
               !.result = "error"]
    BY <1>3 DEF FileServers!DeleteFile, FileServers!Answer
  <2>2. DiskHolds' /\ disk' = disk
    BY <2>1, KeepHolds DEF FilesInv, FileServers!Keep
  <2>3. AnswerHolds'
    BY <1>2, <2>1, <2>2, PlainAnswer DEF FileServers!Nothing, FileServers!Tools
  <2> QED
    BY <1>2, <2>2, <2>3 DEF FilesInv
<1>4. CASE p \in FileServers!Files
  <2>1. PICK new : new = [disk EXCEPT ![p] = FileServers!Absent]
    OBVIOUS
  <2>2. /\ FileServers!Change(new, order)
        /\ answer' = [FileServers!Nothing EXCEPT !.tool = "delete_file", !.path = p,
             !.result = "ok"]
    BY <1>4, <2>1 DEF FileServers!DeleteFile, FileServers!Answer
  <2>3. DiskHolds'
    <3>1. new \in TextDisks /\ \A q \in Paths :
            new[q] = IF q = p THEN FileServers!Absent ELSE disk[q]
      BY <2>1 DEF FilesInv, DiskHolds, TextDisks
    <3>2. \A q \in Paths : Len(new[q].data) <= MaxLen
      BY <3>1, ContextAssumption, SizeIs
         DEF FileServers!FilesAssumption, FilesInv, DiskHolds, FileServers!Absent
    <3>3. /\ order \in Seq(Paths) /\ Once(order)
          /\ {q \in Paths : new[q].kind = "file"} \subseteq FileServers!ToSet(order)
      BY <3>1 DEF FilesInv, DiskHolds, FileServers!Files, FileServers!Absent
    <3> QED
      BY <2>2, <3>1, <3>2, <3>3, ChangeHolds DEF FilesInv
  <2>4. AnswerHolds'
    BY <2>2, PlainAnswer DEF FileServers!Nothing, FileServers!Tools
  <2> QED
    BY <1>2, <2>3, <2>4 DEF FilesInv
<1> QED
  BY <1>3, <1>4

(* A file that is renamed keeps its place among the files, and the one it     *)
(* replaces is gone.                                                          *)
LEMMA MoveFileStep ==
  ASSUME FilesInv, NEW p \in Paths, NEW q \in Paths, FileServers!MoveFile(p, q)
  PROVE  FilesInv'
<1>1. FileServers!Call("move_file") /\ desk' = desk /\ readFiles' = readFiles /\ command' = command
  BY SizeIs DEF FileServers!MoveFile
<1>2. DeskHolds' /\ before' = disk
  BY <1>1, CallHolds DEF FilesInv, DeskHolds
<1>3. DiskHolds /\ disk \in TextDisks /\ order \in Seq(Paths) /\ Once(order)
        /\ FileServers!ToSet(order) = FileServers!Files
  BY DEF FilesInv, DiskHolds
<1>4. PICK kinds, others, new, recent :
        /\ kinds = {disk[p].kind, disk[q].kind} \ {"none"}
        /\ others = FileServers!Among(order, Paths \ {q})
        /\ new = [x \in Paths |-> CASE x = q -> disk[p] [] x = p
             /\ p # q -> FileServers!Absent [] OTHER -> disk[x]]
        /\ recent = IF p = q THEN order
                    ELSE [i \in DOMAIN others |-> IF others[i] = p THEN q ELSE others[i]]
  OBVIOUS
<1>5. \/ disk[p].kind = "none" /\ FileServers!Keep /\ FileServers!Answer("move_file", p, "error")
      \/ FileServers!Keep /\ FileServers!Answer("move_file", p, "raised")
      \/ /\ disk[p].kind # "none" /\ ~(Cardinality(kinds) > 1)
         /\ FileServers!Change(new, recent) /\ FileServers!Answer("move_file", p, "ok")
  BY <1>4, SizeIs DEF FileServers!MoveFile
<1>6. CASE FileServers!Keep /\ \E r \in {"error", "raised"} : FileServers!Answer("move_file", p, r)
  <2>1. PICK r \in {"error", "raised"} :
          answer' = [FileServers!Nothing EXCEPT !.tool = "move_file", !.path = p, !.result = r]
    BY <1>6 DEF FileServers!Answer
  <2>2. DiskHolds' /\ disk' = disk
    BY <1>3, <1>6, KeepHolds DEF FileServers!Keep
  <2>3. AnswerHolds'
    BY <1>2, <2>1, <2>2, PlainAnswer DEF FileServers!Nothing, FileServers!Tools
  <2> QED
    BY <1>2, <2>2, <2>3 DEF FilesInv
<1>7. CASE /\ disk[p].kind # "none" /\ ~(Cardinality(kinds) > 1)
           /\ FileServers!Change(new, recent) /\ FileServers!Answer("move_file", p, "ok")
  <2>1. \A x \in Paths :
          new[x] = IF x = q THEN disk[p] ELSE IF x = p THEN FileServers!Absent ELSE disk[x]
    BY <1>4
  <2>2. new \in TextDisks
    <3>1. FileServers!Absent \in {FileServers!Absent, FileServers!Directory}
            /\ new = [x \in Paths |-> new[x]]
      BY <1>4
    <3> QED
      BY <1>3, <2>1, <3>1 DEF TextDisks
  <2>3. \A x \in Paths : Len(new[x].data) <= MaxLen
    BY <1>3, <2>1, ContextAssumption, SizeIs
       DEF FileServers!FilesAssumption, DiskHolds, FileServers!Absent
  <2>4. disk[q].kind = "file" => disk[p].kind = "file"
    <3> SUFFICES ASSUME disk[q].kind = "file", disk[p].kind # "file"
                 PROVE  FALSE
      OBVIOUS
    <3>1. disk[p].kind = "dir"
      BY <1>3, <1>7, DataTypes
    <3>2. kinds = {"dir", "file"}
      BY <1>4, <3>1
    <3>3. Cardinality(kinds) = 2
      <4>1. IsFiniteSet({"file"}) /\ Cardinality({"file"}) = 1
        BY FS_Singleton
      <4>2. Cardinality({"file"} \union {"dir"}) = 1 + 1
        BY <4>1, FS_AddElement
      <4> QED
        BY <3>2, <4>2
    <3> QED
      BY <1>7, <3>3
  <2>5. /\ recent \in Seq(Paths) /\ Once(recent)
        /\ {x \in Paths : new[x].kind = "file"} \subseteq FileServers!ToSet(recent)
    <3>1. CASE p = q
      BY <1>3, <1>4, <2>1, <3>1 DEF FileServers!Files
    <3>2. CASE p # q
      <4>1. others \in Seq(Paths) /\ Once(others)
              /\ FileServers!ToSet(others) = FileServers!Files \ {q}
        <5>1. FileServers!ToSet(others) = FileServers!ToSet(order) \intersect (Paths \ {q})
          BY <1>3, <1>4, AmongIs
        <5> QED
          BY <1>3, <1>4, <5>1, AmongIs DEF FileServers!Files
      <4>2. PICK n \in Nat : DOMAIN others = 1..n /\ n = Len(others)
        BY <4>1, LenProperties
      <4>3. \A i \in 1..n : others[i] \in Paths /\ others[i] # q
        BY <4>1, <4>2 DEF FileServers!ToSet, FileServers!Files
      <4>4. recent = [i \in 1..n |-> IF others[i] = p THEN q ELSE others[i]]
        BY <1>4, <3>2, <4>2
      <4>5. recent \in Seq(Paths) /\ DOMAIN recent = 1..n
        BY <4>3, <4>4
      <4>6. Once(recent)
        BY <4>1, <4>2, <4>3, <4>4, <4>5 DEF Once
      <4>7. ASSUME NEW x \in Paths, new[x].kind = "file"
            PROVE  \E i \in 1..n : recent[i] = x
        <5>1. CASE x = q
          <6>1. p \in FileServers!Files \ {q}
            BY <2>1, <3>2, <4>7, <5>1 DEF FileServers!Files
          <6>2. PICK i \in 1..n : others[i] = p
            BY <4>1, <4>2, <6>1 DEF FileServers!ToSet
          <6> QED
            BY <4>4, <5>1, <6>2
        <5>2. CASE x # q
          <6>1. x # p /\ x \in FileServers!Files \ {q}
            BY <2>1, <4>7, <5>2 DEF FileServers!Files, FileServers!Absent
          <6>2. PICK i \in 1..n : others[i] = x
            BY <4>1, <4>2, <6>1 DEF FileServers!ToSet
          <6> QED
            BY <4>4, <6>1, <6>2
        <5> QED
          BY <5>1, <5>2
      <4> QED
        BY <4>5, <4>6, <4>7 DEF FileServers!ToSet
    <3> QED
      BY <3>1, <3>2
  <2>6. DiskHolds'
    BY <1>3, <1>7, <2>2, <2>3, <2>5, ChangeHolds
  <2>7. AnswerHolds'
    BY <1>7, PlainAnswer DEF FileServers!Nothing, FileServers!Tools, FileServers!Answer
  <2> QED
    BY <1>2, <2>6, <2>7 DEF FilesInv
<1> QED
  BY <1>5, <1>6, <1>7

LEMMA SearchFilesStep ==
  ASSUME FilesInv, NEW s, NEW max, FileServers!SearchFiles(s, max)
  PROVE  FilesInv'
<1>1. FileServers!Call("search_files") /\ FileServers!Keep /\ desk' = desk
        /\ readFiles' = readFiles /\ command' = command
  BY DEF FileServers!SearchFiles
<1>2. DiskHolds'
  BY <1>1, KeepHolds DEF FilesInv
<1>3. DeskHolds' /\ before' = disk
  BY <1>1, CallHolds DEF FilesInv, DeskHolds
<1>4. answer'.tool = "search_files" /\ answer'.result = "ok"
  BY DEF FileServers!SearchFiles, FileServers!Nothing
<1>5. AnswerHolds'
  BY <1>4, PlainAnswer DEF FileServers!Tools
<1> QED
  BY <1>2, <1>3, <1>5 DEF FilesInv

LEMMA RunCommandStep == FilesInv /\ FileServers!RunCommand => FilesInv'
<1> SUFFICES ASSUME FilesInv, FileServers!RunCommand
             PROVE  FilesInv'
  OBVIOUS
<1>1. FileServers!Call("run_command") /\ FileServers!Keep /\ desk' = desk /\ readFiles' = readFiles
        /\ command' = "running"
        /\ answer' = FileServers!Nothing
  BY DEF FileServers!RunCommand
<1>2. DiskHolds'
  BY <1>1, KeepHolds DEF FilesInv
<1>3. DeskHolds' /\ before' = disk
  BY <1>1, CallHolds DEF FilesInv, DeskHolds
<1>4. AnswerHolds'
  BY <1>1, PlainAnswer DEF FileServers!Nothing
<1> QED
  BY <1>2, <1>3, <1>4 DEF FilesInv

LEMMA CommandWritesStep ==
  ASSUME FilesInv, NEW p \in Paths, NEW body \in Seq(Chars), FileServers!CommandWrites(p, body)
  PROVE  FilesInv'
<1>1. DiskHolds'
  BY WriteHolds DEF FileServers!CommandWrites, FilesInv
<1>2. DeskHolds'
  <2>1. desk.calls \in Nat
    BY SceneTypes DEF FilesInv, DeskHolds
  <2> QED
    BY <2>1 DEF FileServers!CommandWrites, FilesInv, DeskHolds
<1>3. AnswerHolds'
  <2>1. answer' = FileServers!Nothing
    BY DEF FileServers!CommandWrites
  <2> QED
    BY <2>1, PlainAnswer DEF FileServers!Nothing
<1> QED
  BY <1>1, <1>2, <1>3 DEF FilesInv

LEMMA CommandEndsStep ==
  ASSUME FilesInv, NEW exit, FileServers!CommandEnds(exit)
  PROVE  FilesInv'
<1>1. DiskHolds'
  BY KeepHolds DEF FileServers!CommandEnds, FilesInv
<1>2. DeskHolds'
  BY DEF FileServers!CommandEnds, FilesInv, DeskHolds
<1>3. AnswerHolds'
  <2>1. answer'.tool = "run_command" /\ answer'.result = "ok"
    BY DEF FileServers!CommandEnds, FileServers!Nothing
  <2> QED
    BY <2>1, PlainAnswer DEF FileServers!Tools
<1> QED
  BY <1>1, <1>2, <1>3 DEF FilesInv

LEMMA FilesSame ==
  ASSUME FilesInv, UNCHANGED FileServers!vars
  PROVE  FilesInv'
<1>1. /\ desk' = desk /\ disk' = disk /\ left' = left /\ readFiles' = readFiles /\ order' = order
      /\ cursor' = cursor /\ command' = command /\ before' = before /\ answer' = answer
  BY DEF FileServers!vars
<1>2. DiskHolds'
  BY <1>1, KeepHolds DEF FilesInv, FileServers!Keep
<1>3. DeskHolds' /\ AnswerHolds'
  BY <1>1
     DEF FilesInv, DeskHolds, AnswerHolds, FileServers!EditsExact, FileServers!AllOrNothing,
         FileServers!PagesCover, FileServers!Edit, FileServers!TextBefore
<1> QED
  BY <1>2, <1>3 DEF FilesInv

LEMMA FilesGoOn == FilesInv /\ [FileServers!Next]_(FileServers!vars) => FilesInv'
<1> SUFFICES ASSUME FilesInv, [FileServers!Next]_(FileServers!vars)
             PROVE  FilesInv'
  OBVIOUS
<1>1. desk.strings \in SUBSET Seq(Chars)
  BY SceneTypes DEF FilesInv, DeskHolds
<1>2. FileServers!Edits \subseteq EditOf(Chars)
  BY <1>1 DEF FileServers!Edits, EditOf
<1>3. CASE UNCHANGED FileServers!vars
  BY <1>3, FilesSame
<1>4. ASSUME NEW t \in Turns, NEW p \in Paths, NEW limit \in {1, 2},
             FileServers!ReadPage(t, p, limit)
      PROVE  FilesInv'
  BY <1>4, ReadPageStep
<1>5. ASSUME NEW t \in Turns, NEW p \in Paths, NEW e \in FileServers!Edits,
             FileServers!EditFile(t, p, e)
      PROVE  FilesInv'
  BY <1>2, <1>5, EditFileStep
<1>6. ASSUME NEW t \in Turns, NEW p \in Paths,
             NEW edits \in {<<>>} \union (FileServers!Edits \X FileServers!Edits),
             FileServers!BatchEdit(t, p, edits)
      PROVE  FilesInv'
  <2>1. edits = <<>> \/ \E e, f \in EditOf(Chars) : edits = <<e, f>>
    BY <1>2
  <2> QED
    BY <1>6, <2>1, BatchEditStep
<1>7. ASSUME NEW t \in Turns, NEW S \in SUBSET Paths, FileServers!ReadFiles(t, S)
      PROVE  FilesInv'
  BY <1>7, ReadFilesStep
<1>8. ASSUME NEW p \in Paths, NEW s \in desk.strings, FileServers!WriteFile(p, s)
             \/ FileServers!CommandWrites(p, s)
      PROVE  FilesInv'
  BY <1>1, <1>8, WriteFileStep, CommandWritesStep
<1>9. ASSUME NEW p \in Paths, FileServers!CreateDirectory(p) \/ FileServers!DeleteFile(p)
             \/ \E q \in Paths : FileServers!MoveFile(p, q)
      PROVE  FilesInv'
  BY <1>9, CreateDirectoryStep, DeleteFileStep, MoveFileStep
<1>10. ASSUME NEW s \in desk.strings, NEW max \in {1, 2}, FileServers!SearchFiles(s, max)
       PROVE  FilesInv'
  BY <1>10, SearchFilesStep
<1>11. ASSUME NEW exit \in {"zero", "other", "timeout"}, FileServers!CommandEnds(exit)
       PROVE  FilesInv'
  BY <1>11, CommandEndsStep
<1> QED
  BY <1>3, <1>4, <1>5, <1>6, <1>7, <1>8, <1>9, <1>10, <1>11, RunCommandStep DEF FileServers!Next

-----------------------------------------------------------------------------
(* The context of a turn: a step of Context is a step of one component and    *)
(* leaves the others as they are.                                             *)

ContextInv == MemoryInv /\ StoreInv /\ FilesInv

LEMMA StepsOfParts ==
  ASSUME [MemoryStep \/ DialogueStep \/ StoreStep \/ FilesStep]_all
  PROVE  [Next]_vars /\ [Store!Next]_(Store!vars) /\ [FileServers!Next]_(FileServers!vars)
<1>1. /\ UNCHANGED storeVars => UNCHANGED Store!vars
      /\ UNCHANGED filesVars => UNCHANGED FileServers!vars
  BY DEF storeVars, Store!vars, Store!storeVars, Store!convVars, Store!history, filesVars,
         FileServers!vars
<1>2. CASE MemoryStep
  BY <1>1, <1>2 DEF MemoryStep
<1>3. CASE StoreStep
  BY <1>1, <1>3 DEF StoreStep
<1>4. CASE DialogueStep
  BY <1>1, <1>4 DEF DialogueStep
<1>5. CASE FilesStep
  BY <1>1, <1>5 DEF FilesStep
<1>6. CASE UNCHANGED all
  BY <1>1, <1>6 DEF all
<1> QED
  BY <1>2, <1>3, <1>4, <1>5, <1>6

(* The inductive invariant of the memory, the attachments and the files.      *)
THEOREM ContextInvariant == ContextSpec => []ContextInv
<1>1. ContextInit => ContextInv
  BY MemoryStarts, StoreStarts, FilesStart DEF ContextInit, ContextInv
<1>2. ContextInv /\ [MemoryStep \/ DialogueStep \/ StoreStep \/ FilesStep]_all => ContextInv'
  BY StepsOfParts, MemoryGoesOn, StoreGoesOn, FilesGoOn DEF ContextInv
<1> QED
  BY <1>1, <1>2, PTL DEF ContextSpec

(* Nothing the memory was told is lost unless somebody removed it, locked     *)
(* memories are left to the user, and a proposal is decided once (the engine, *)
(* cut off anywhere).                                                         *)
THEOREM MemoryIsKept == ContextSpec => MemoryKept
<1> DEFINE
      Kept == \A i \in DOMAIN rows :
                rows[i].locked /\ (i \notin DOMAIN rows' \/ rows'[i].says # rows[i].says) =>
                  \E o \in Ops :
                    /\ op'[o] # op[o]
                    /\ \/ op[o].pc \in Deliberate
                       \/ /\ i \in DOMAIN op[o].seen
                          /\ ~op[o].seen[i].locked \/ op[o].seen[i].says # rows[i].says
<1>1. ContextInv => NothingErased /\ DecidedOnce
  BY MemorySays DEF ContextInv
<1>2. ContextInv /\ [MemoryStep \/ DialogueStep \/ StoreStep \/ FilesStep]_all => [Kept]_vars
  <2> SUFFICES ASSUME ContextInv, [MemoryStep \/ DialogueStep \/ StoreStep \/ FilesStep]_all
               PROVE  Kept
    OBVIOUS
  <2> QED
    BY StepsOfParts, MemoryRespects DEF ContextInv, Permitted
<1>3. ContextSpec => [](NothingErased /\ DecidedOnce) /\ [][Kept]_vars
  BY <1>1, <1>2, ContextInvariant, PTL DEF ContextSpec
<1> QED
  BY <1>3 DEF MemoryKept, LockedKept

(* What was to be forgotten is gone, never comes back, and is in no later     *)
(* context (delete_session_memories, the index behind the rows).              *)
THEOREM MemoryIsForgotten == ContextSpec => MemoryForgets
<1> DEFINE Lost == \A i \in 1..used : i \notin DOMAIN rows => i \notin DOMAIN rows'
<1>1. ContextInv => Forgotten /\ NoGhostsRecalled
  BY MemorySays DEF ContextInv
<1>2. ContextInv /\ [MemoryStep \/ DialogueStep \/ StoreStep \/ FilesStep]_all => [Lost]_vars
  <2> SUFFICES ASSUME ContextInv, [MemoryStep \/ DialogueStep \/ StoreStep \/ FilesStep]_all
               PROVE  Lost
    OBVIOUS
  <2> QED
    BY StepsOfParts, MemoryRespects DEF ContextInv
<1>3. ContextSpec => [](Forgotten /\ NoGhostsRecalled) /\ [][Lost]_vars
  BY <1>1, <1>2, ContextInvariant, PTL DEF ContextSpec
<1> QED
  BY <1>3 DEF MemoryForgets, NoReturn

(* Rows and files agree but for one race, a run gets the bytes it asked for,  *)
(* and nothing of a deleted conversation is left in the database unless it    *)
(* had a run under way (attachments, delete_conversation).                    *)
THEOREM StoreIsClean == ContextSpec => []StoreClean
<1>1. ContextInv => StoreClean
  BY StoreSays DEF ContextInv, StoreClean
<1> QED
  BY <1>1, ContextInvariant, PTL

(* An edit that succeeds, of one place or of several at once, replaces what   *)
(* it names and nothing else, one that fails changes nothing, and the pages   *)
(* of a file make up the file (filesystem_server.py).                         *)
THEOREM FilesAreExact == ContextSpec => []FilesExact
<1>1. ContextInv => FilesExact
  BY FilesTyped DEF ContextInv, FilesInv, AnswerHolds, FilesExact
<1> QED
  BY <1>1, ContextInvariant, PTL
=============================================================================
