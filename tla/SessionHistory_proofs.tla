------------------------ MODULE SessionHistory_proofs ------------------------
(***************************************************************************)
(* Proofs about SessionHistory, for any number of turns, deletions and     *)
(* processes. Whatever overlaps, fails, expires or restarts: every         *)
(* variable has its type, no message is changed under its id, and the      *)
(* transcript comes first (LogInv). Until something does: the copies       *)
(* agree, what was deleted stays away and nothing said is lost (QuietInv). *)
(***************************************************************************)
EXTENDS SessionHistory, FiniteSetTheorems, SequenceTheorems,
        WellFoundedInduction, TLAPS

-----------------------------------------------------------------------------
(* Folding over data without an induction theorem: the least counterexample. *)

(* A nonempty set of numbers has a least one: the sets 0..n are well-founded. *)
LEMMA LeastOf ==
  ASSUME NEW T \in SUBSET Nat, T # {}
  PROVE  \E n \in T : \A m \in T : n <= m
<1> DEFINE Below == {0..n : n \in T}
<1>1. Below \subseteq FiniteSubsetsOf(Nat)
  <2>1. ASSUME NEW n \in T
        PROVE  0..n \in SUBSET Nat /\ IsFiniteSet(0..n)
    <3>1. n \in Int /\ 0 \in Int /\ 0..n \subseteq Nat
      OBVIOUS
    <3> QED
      BY <3>1, FS_Interval
  <2> QED
    BY <2>1 DEF FiniteSubsetsOf
<1>2. Below # {}
  OBVIOUS
<1>3. PICK A \in Below : \A B \in Below : ~(<<B, A>> \in StrictSubsetOrdering(Nat))
  BY <1>1, <1>2, FS_StrictSubsetOrderingWellFounded, WFMin
<1>4. PICK n \in T : A = 0..n
  OBVIOUS
<1>5. ASSUME NEW m \in T, m < n
      PROVE  FALSE
  <2>1. (0..m) \subseteq (0..n) /\ n \in 0..n /\ n \notin 0..m
    BY <1>5
  <2>2. <<0..m, 0..n>> \in (SUBSET Nat) \X (SUBSET Nat)
    OBVIOUS
  <2>3. <<0..m, 0..n>> \in StrictSubsetOrdering(Nat)
    BY <2>1, <2>2 DEF StrictSubsetOrdering
  <2> QED
    BY <2>3, <1>3, <1>4
<1> QED
  BY <1>5

(* What holds of 0 and of the successor of every number it holds of. *)
LEMMA InductionOn ==
  ASSUME NEW S \in SUBSET Nat, 0 \in S, \A n \in S : n + 1 \in S
  PROVE  S = Nat
<1> SUFFICES ASSUME Nat \ S # {}
             PROVE  FALSE
  OBVIOUS
<1>1. PICK n \in Nat \ S : \A m \in Nat \ S : n <= m
  BY LeastOf
<1>2. n # 0 /\ n - 1 \in Nat /\ n - 1 \notin Nat \ S
  BY <1>1
<1> QED
  BY <1>1, <1>2

(* The beginnings of the function by which FlattenSeq is defined. *)
FlattensUpTo(b, n, g) == g = [i \in 1..n |-> IF i = 1 THEN b[i] ELSE g[i - 1] \o b[i]]

(* A beginning of that function can be made longer by one. *)
LEMMA FlattensFurther ==
  ASSUME NEW b, NEW n \in Nat, NEW g, FlattensUpTo(b, n, g)
  PROVE  \E h : FlattensUpTo(b, n + 1, h)
<1> DEFINE last == IF n = 0 THEN b[1] ELSE g[n] \o b[n + 1]
           h == [i \in 1..(n + 1) |-> IF i = n + 1 THEN last ELSE g[i]]
<1>1. ASSUME NEW i \in 1..(n + 1)
      PROVE  h[i] = IF i = 1 THEN b[i] ELSE h[i - 1] \o b[i]
  <2>1. CASE i = n + 1
    <3>1. h[i] = last
      BY <2>1
    <3>2. n # 0 => h[i - 1] = g[n]
      BY <2>1
    <3> QED
      BY <2>1, <3>1, <3>2
  <2>2. CASE i \in 1..n
    <3>1. h[i] = g[i]
      BY <2>2
    <3>2. g[i] = IF i = 1 THEN b[i] ELSE g[i - 1] \o b[i]
      BY <2>2 DEF FlattensUpTo
    <3>3. i # 1 => h[i - 1] = g[i - 1]
      BY <2>2
    <3> QED
      BY <3>1, <3>2, <3>3
  <2> QED
    BY <2>1, <2>2
<1>2. h = [i \in 1..(n + 1) |-> h[i]]
  OBVIOUS
<1> HIDE DEF h
<1>3. h = [i \in 1..(n + 1) |-> IF i = 1 THEN b[i] ELSE h[i - 1] \o b[i]]
  BY <1>1, <1>2
<1> QED
  BY <1>3 DEF FlattensUpTo

(* So the function exists for every length. *)
LEMMA FlatteningExists ==
  ASSUME NEW b, NEW n \in Nat
  PROVE  \E g : FlattensUpTo(b, n, g)
<1> DEFINE S == {k \in Nat : \E g : FlattensUpTo(b, k, g)}
<1>1. 0 \in S
  <2>1. FlattensUpTo(b, 0, [i \in 1..0 |-> <<>>])
    BY DEF FlattensUpTo
  <2> QED
    BY <2>1
<1>2. \A k \in S : k + 1 \in S
  BY FlattensFurther
<1>3. S \in SUBSET Nat
  OBVIOUS
<1>4. S = Nat
  <2> HIDE DEF S
  <2> QED
    BY <1>1, <1>2, <1>3, InductionOn
<1> QED
  BY <1>4

(* A concatenation holds the elements of both sequences. *)
LEMMA ConcatElements ==
  ASSUME NEW M, NEW s \in Seq(M), NEW u \in Seq(M)
  PROVE  s \o u \in Seq(M) /\ Elements(s \o u) = Elements(s) \union Elements(u)
<1>1. Len(s \o u) = Len(s) + Len(u) /\ s \o u \in Seq(M) /\ Len(s) \in Nat /\ Len(u) \in Nat
  OBVIOUS
<1>2. \A i \in 1..Len(s) : (s \o u)[i] = s[i]
  OBVIOUS
<1>3. \A i \in 1..Len(u) : (s \o u)[Len(s) + i] = u[i]
  OBVIOUS
<1>4. \A i \in 1..(Len(s) + Len(u)) : i \in 1..Len(s) \/ i - Len(s) \in 1..Len(u)
  BY <1>1
<1>5. Elements(s) \subseteq Elements(s \o u)
  BY <1>1, <1>2 DEF Elements
<1>6. ASSUME NEW i \in 1..Len(u)
      PROVE  u[i] \in Elements(s \o u)
  <2>1. Len(s) + i \in 1..Len(s \o u)
    BY <1>1
  <2> QED
    BY <2>1, <1>3 DEF Elements
<1>7. ASSUME NEW i \in 1..Len(s \o u)
      PROVE  (s \o u)[i] \in Elements(s) \union Elements(u)
  <2>1. CASE i \in 1..Len(s)
    BY <2>1, <1>2 DEF Elements
  <2>2. CASE i - Len(s) \in 1..Len(u)
    <3>1. (s \o u)[Len(s) + (i - Len(s))] = u[i - Len(s)]
      BY <1>3, <2>2
    <3>2. Len(s) + (i - Len(s)) = i
      BY <1>1
    <3> QED
      BY <2>2, <3>1, <3>2 DEF Elements
  <2> QED
    BY <1>1, <1>4, <2>1, <2>2
<1> QED
  BY <1>1, <1>5, <1>6, <1>7 DEF Elements

(* What the function by which FlattenSeq is defined is at n. *)
FlatAt(b, g, M, n) ==
  /\ g[n] \in Seq(M)
  /\ Elements(g[n]) = UNION {Elements(b[i]) : i \in 1..n}

(* The union of the blocks is carried from one position to the next. *)
LEMMA FlatAtNext ==
  ASSUME NEW M, NEW b \in Seq(Seq(M)), NEW g, FlattensUpTo(b, Len(b), g),
         NEW n \in Nat, n + 1 <= Len(b), n = 0 \/ FlatAt(b, g, M, n)
  PROVE  FlatAt(b, g, M, n + 1)
<1>1. n + 1 \in 1..Len(b) /\ b[n + 1] \in Seq(M)
  OBVIOUS
<1>2. CASE n = 0
  <2>1. g[n + 1] = b[1] /\ 1..(n + 1) = {1}
    BY <1>1, <1>2 DEF FlattensUpTo
  <2> QED
    BY <1>1, <1>2, <2>1 DEF FlatAt
<1>3. CASE n # 0
  <2>1. g[n + 1] = g[n] \o b[n + 1]
    <3>1. g[n + 1] = IF n + 1 = 1 THEN b[n + 1] ELSE g[(n + 1) - 1] \o b[n + 1]
      BY <1>1 DEF FlattensUpTo
    <3>2. (n + 1) - 1 = n
      OBVIOUS
    <3>3. n + 1 # 1
      BY <1>3
    <3> QED
      BY <3>1, <3>2, <3>3, Zenon
  <2>2. g[n] \in Seq(M) /\ Elements(g[n]) = UNION {Elements(b[i]) : i \in 1..n}
    BY <1>3 DEF FlatAt
  <2>3. g[n + 1] \in Seq(M) /\ Elements(g[n + 1]) = Elements(g[n]) \union Elements(b[n + 1])
    BY <1>1, <2>1, <2>2, ConcatElements
  <2>4. 1..(n + 1) = (1..n) \union {n + 1}
    OBVIOUS
  <2>5. UNION {Elements(b[i]) : i \in 1..(n + 1)}
          = (UNION {Elements(b[i]) : i \in 1..n}) \union Elements(b[n + 1])
    BY <2>4
  <2> QED
    BY <2>2, <2>3, <2>5 DEF FlatAt
<1> QED
  BY <1>2, <1>3

(* What FlattenSeq returns holds the elements of the blocks, and no others. *)
LEMMA Flattened ==
  ASSUME NEW M, NEW b \in Seq(Seq(M))
  PROVE  /\ FlattenSeq(b) \in Seq(M)
         /\ Elements(FlattenSeq(b)) = UNION {Elements(b[i]) : i \in 1..Len(b)}
<1>1. CASE Len(b) = 0
  <2>1. FlattenSeq(b) = b /\ b = <<>>
    BY <1>1 DEF FlattenSeq
  <2> QED
    BY <2>1 DEF Elements
<1>2. CASE Len(b) # 0
  <2> DEFINE g == CHOOSE f : FlattensUpTo(b, Len(b), f)
  <2>1. FlattensUpTo(b, Len(b), g)
    <3>1. Len(b) \in Nat
      OBVIOUS
    <3> QED
      BY <3>1, FlatteningExists
  <2>2. FlattenSeq(b) = g[Len(b)]
    BY <1>2 DEF FlattenSeq, FlattensUpTo
  <2> HIDE DEF g
  <2> DEFINE S == {n \in Nat : n = 0 \/ (n <= Len(b) => FlatAt(b, g, M, n))}
  <2>3. 0 \in S /\ S \in SUBSET Nat
    OBVIOUS
  <2>4. ASSUME NEW n \in S
        PROVE  n + 1 \in S
    <3>1. n + 1 <= Len(b) => FlatAt(b, g, M, n + 1)
      BY <2>1, FlatAtNext
    <3> QED
      BY <3>1
  <2>5. S = Nat
    <3> HIDE DEF S
    <3> QED
      BY <2>3, <2>4, InductionOn
  <2>6. Len(b) \in Nat
    OBVIOUS
  <2>7. FlatAt(b, g, M, Len(b))
    BY <1>2, <2>5, <2>6
  <2> QED
    BY <2>2, <2>7 DEF FlatAt
<1> QED
  BY <1>1, <1>2

-----------------------------------------------------------------------------
(* What the operators on messages return. *)

(* The elements of a sequence are in its set, and none means it is empty. *)
LEMMA ElementsIn ==
  ASSUME NEW M, NEW s \in Seq(M)
  PROVE  Elements(s) \subseteq M /\ (Elements(s) = {} <=> s = <<>>)
<1>1. Len(s) \in Nat /\ \A i \in 1..Len(s) : s[i] \in M
  OBVIOUS
<1>2. s # <<>> => 1 \in 1..Len(s)
  BY EmptySeq
<1>3. s = <<>> => Elements(s) = {}
  BY DEF Elements
<1>4. s # <<>> => s[1] \in Elements(s)
  BY <1>2 DEF Elements
<1>5. Elements(s) \subseteq M
  BY <1>1 DEF Elements
<1> QED
  BY <1>3, <1>4, <1>5

(* A list says what one of its messages says. *)
LEMMA SaidBy ==
  ASSUME NEW s, NEW p
  PROVE  p \in Said(s) <=> \E m \in Elements(s) : p \in m.says
BY DEF Said

(* The empty list. *)
LEMMA NothingSaid == Elements(<<>>) = {} /\ Said(<<>>) = {}
BY DEF Elements, Said

(* The message Msg makes, field by field. *)
LEMMA MsgIn ==
  ASSUME NEW id \in Nat, NEW kind \in Kinds, NEW says \in SUBSET Parts
  PROVE  /\ Msg(id, kind, says) \in Message
         /\ Msg(id, kind, says).id = id /\ Msg(id, kind, says).kind = kind
         /\ Msg(id, kind, says).says = says
BY DEF Msg, Message

(* The fields of a message. *)
LEMMA MessageParts ==
  ASSUME NEW m \in Message
  PROVE  m.id \in Nat /\ m.kind \in Kinds /\ m.says \in SUBSET Parts
BY DEF Message

(* What a list says are parts of turns. *)
LEMMA SaidIn ==
  ASSUME NEW s \in Seq(Message)
  PROVE  Said(s) \subseteq Parts
BY ElementsIn, MessageParts DEF Said

(* A list with one more message. *)
LEMMA Appended ==
  ASSUME NEW s \in Seq(Message), NEW m \in Message
  PROVE  /\ Append(s, m) \in Seq(Message)
         /\ Elements(Append(s, m)) = Elements(s) \union {m}
         /\ Said(Append(s, m)) = Said(s) \union m.says
<1>1. /\ Append(s, m) \in Seq(Message)
      /\ Len(Append(s, m)) = Len(s) + 1 /\ Len(s) \in Nat
      /\ Append(s, m)[Len(s) + 1] = m
      /\ \A i \in 1..Len(s) : Append(s, m)[i] = s[i]
  OBVIOUS
<1>2. 1..(Len(s) + 1) = (1..Len(s)) \union {Len(s) + 1}
  BY <1>1
<1>3. Elements(Append(s, m)) = Elements(s) \union {m}
  BY <1>1, <1>2 DEF Elements
<1> QED
  BY <1>1, <1>3 DEF Said

(* One list after another. *)
LEMMA Concatenated ==
  ASSUME NEW s \in Seq(Message), NEW u \in Seq(Message)
  PROVE  /\ s \o u \in Seq(Message)
         /\ Elements(s \o u) = Elements(s) \union Elements(u)
         /\ Said(s \o u) = Said(s) \union Said(u)
<1>1. s \o u \in Seq(Message) /\ Elements(s \o u) = Elements(s) \union Elements(u)
  BY ConcatElements
<1> QED
  BY <1>1 DEF Said

(* What SubSeq takes from a sequence. *)
LEMMA PartOf ==
  ASSUME NEW M, NEW s \in Seq(M), NEW a \in 1..(Len(s) + 1), NEW b \in 0..Len(s)
  PROVE  /\ SubSeq(s, a, b) \in Seq(M)
         /\ Elements(SubSeq(s, a, b)) = {s[i] : i \in a..b}
<1>1. /\ SubSeq(s, a, b) \in Seq(M)
      /\ Len(SubSeq(s, a, b)) = IF a <= b THEN b - a + 1 ELSE 0
      /\ \A i \in 1..(b - a + 1) : SubSeq(s, a, b)[i] = s[a + i - 1]
  <2>1. a \in Int /\ b \in Int /\ \A i \in a..b : s[i] \in M
    OBVIOUS
  <2> QED
    BY <2>1, SubSeqProperties
<1>2. 1..Len(SubSeq(s, a, b)) = 1..(b - a + 1)
  BY <1>1
<1>3. ASSUME NEW i \in 1..(b - a + 1)
      PROVE  a + i - 1 \in a..b /\ SubSeq(s, a, b)[i] = s[a + i - 1]
  BY <1>1
<1>4. ASSUME NEW i \in a..b
      PROVE  i - a + 1 \in 1..Len(SubSeq(s, a, b)) /\ SubSeq(s, a, b)[i - a + 1] = s[i]
  <2>1. i - a + 1 \in 1..(b - a + 1) /\ a + (i - a + 1) - 1 = i
    OBVIOUS
  <2> QED
    BY <1>1, <1>2, <2>1
<1>5. Elements(SubSeq(s, a, b)) = {SubSeq(s, a, b)[i] : i \in 1..(b - a + 1)}
  BY <1>2 DEF Elements
<1>6. Elements(SubSeq(s, a, b)) \subseteq {s[i] : i \in a..b}
  BY <1>3, <1>5
<1>7. {s[i] : i \in a..b} \subseteq Elements(SubSeq(s, a, b))
  BY <1>4 DEF Elements
<1> QED
  BY <1>1, <1>6, <1>7

(* A stretch of a list says no more than the list. *)
LEMMA PartSays ==
  ASSUME NEW s \in Seq(Message), NEW a \in 1..(Len(s) + 1), NEW b \in 0..Len(s)
  PROVE  /\ SubSeq(s, a, b) \in Seq(Message)
         /\ Elements(SubSeq(s, a, b)) \subseteq Elements(s)
         /\ Said(SubSeq(s, a, b)) \subseteq Said(s)
<1>1. SubSeq(s, a, b) \in Seq(Message) /\ Elements(SubSeq(s, a, b)) = {s[i] : i \in a..b}
  BY PartOf
<1>2. a..b \subseteq 1..Len(s)
  OBVIOUS
<1>3. Elements(SubSeq(s, a, b)) \subseteq Elements(s)
  BY <1>1, <1>2 DEF Elements
<1> QED
  BY <1>1, <1>3 DEF Said

(* A list cut in two says what both halves say. *)
LEMMA SplitSays ==
  ASSUME NEW s \in Seq(Message), NEW k \in 0..Len(s)
  PROVE  Said(s) = Said(SubSeq(s, 1, k)) \union Said(SubSeq(s, k + 1, Len(s)))
<1>1. 1 \in 1..(Len(s) + 1) /\ k + 1 \in 1..(Len(s) + 1) /\ Len(s) \in 0..Len(s)
  OBVIOUS
<1>2. /\ Elements(SubSeq(s, 1, k)) = {s[i] : i \in 1..k}
      /\ Elements(SubSeq(s, k + 1, Len(s))) = {s[i] : i \in (k + 1)..Len(s)}
  BY <1>1, PartOf
<1>3. 1..Len(s) = (1..k) \union ((k + 1)..Len(s))
  OBVIOUS
<1>4. Elements(s) = Elements(SubSeq(s, 1, k)) \union Elements(SubSeq(s, k + 1, Len(s)))
  BY <1>2, <1>3 DEF Elements
<1> QED
  BY <1>4 DEF Said
(* The kinds a copy fed to the model holds. *)
PlainKinds == {"user", "assistant", "skill", "summary"}
Plain(s) == \A m \in Elements(s) : m.kind \in PlainKinds
Silent(s) == \A m \in Elements(s) : m.kind \in {"calls", "results"} => m.says = {}

(* The thin records of skills that prepare_for_save adds. *)
Thinned(s, id) == {Msg(id + i, "skill", s[i].says) : i \in 1..Len(s)}

(* What prepare_for_save keeps: everything but tool calls, and a skill's
   call in short. *)
LEMMA PreparedElements ==
  ASSUME NEW s \in Seq(Message), NEW id \in Nat
  PROVE  /\ Prepared(s, id) \in Seq(Message)
         /\ Elements(Prepared(s, id))
              = {m \in Elements(s) : m.kind \notin {"calls", "results", "skillCalls"}}
                  \union {Msg(id + i, "skill", s[i].says) :
                            i \in {j \in 1..Len(s) : s[j].kind = "skillCalls"}}
<1> DEFINE b == [i \in 1..Len(s) |->
                   IF s[i].kind \in {"calls", "results"} THEN <<>>
                   ELSE IF s[i].kind = "skillCalls" THEN <<Msg(id + i, "skill", s[i].says)>>
                   ELSE <<s[i]>>]
           Of(i) == IF s[i].kind \in {"calls", "results"} THEN {}
                    ELSE IF s[i].kind = "skillCalls" THEN {Msg(id + i, "skill", s[i].says)}
                    ELSE {s[i]}
<1>1. ASSUME NEW i \in 1..Len(s)
      PROVE  s[i] \in Message /\ Msg(id + i, "skill", s[i].says) \in Message
  <2>1. s[i] \in Message /\ id + i \in Nat
    OBVIOUS
  <2>2. s[i].says \in SUBSET Parts /\ "skill" \in Kinds
    BY <2>1, MessageParts DEF Kinds
  <2> QED
    BY <2>1, <2>2, MsgIn
<1>2. ASSUME NEW m \in Message
      PROVE  <<m>> \in Seq(Message) /\ Elements(<<m>>) = {m}
  BY DEF Elements
<1>3. ASSUME NEW i \in 1..Len(s)
      PROVE  b[i] \in Seq(Message) /\ Elements(b[i]) = Of(i)
  <2>1. CASE s[i].kind \in {"calls", "results"}
    <3>1. b[i] = <<>> /\ Of(i) = {}
      BY <2>1
    <3>2. <<>> \in Seq(Message)
      OBVIOUS
    <3> QED
      BY <3>1, <3>2, NothingSaid, Zenon
  <2>2. CASE s[i].kind = "skillCalls"
    <3>1. b[i] = <<Msg(id + i, "skill", s[i].says)>> /\ Of(i) = {Msg(id + i, "skill", s[i].says)}
      BY <2>2
    <3> QED
      BY <3>1, <1>1, <1>2
  <2>3. CASE s[i].kind \notin {"calls", "results", "skillCalls"}
    <3>1. b[i] = <<s[i]>> /\ Of(i) = {s[i]}
      BY <2>3
    <3> QED
      BY <3>1, <1>1, <1>2
  <2> QED
    BY <2>1, <2>2, <2>3
<1>4. Len(s) \in Nat
  OBVIOUS
<1>5. b \in Seq(Seq(Message)) /\ Len(b) = Len(s)
  <2>1. b \in [1..Len(s) -> Seq(Message)]
    BY <1>3
  <2>2. DOMAIN b = 1..Len(s)
    OBVIOUS
  <2> HIDE DEF b
  <2> QED
    BY <1>4, <2>1, <2>2
<1>6. FlattenSeq(b) \in Seq(Message)
      /\ Elements(FlattenSeq(b)) = UNION {Elements(b[i]) : i \in 1..Len(b)}
  BY <1>5, Flattened
<1>7. UNION {Elements(b[i]) : i \in 1..Len(s)} = UNION {Of(i) : i \in 1..Len(s)}
  BY <1>3
<1>8. UNION {Of(i) : i \in 1..Len(s)}
        = {m \in Elements(s) : m.kind \notin {"calls", "results", "skillCalls"}}
            \union {Msg(id + i, "skill", s[i].says) :
                      i \in {j \in 1..Len(s) : s[j].kind = "skillCalls"}}
  BY DEF Elements
<1>9. Prepared(s, id) = FlattenSeq(b)
  BY DEF Prepared
<1> QED
  BY <1>5, <1>6, <1>7, <1>8, <1>9

(* prepare_for_save returns a list of plain messages, and drops nothing
   that was said. *)
LEMMA PreparedParts ==
  ASSUME NEW s \in Seq(Message), NEW id \in Nat
  PROVE  /\ Prepared(s, id) \in Seq(Message)
         /\ Elements(Prepared(s, id)) \subseteq Elements(s) \union Thinned(s, id)
         /\ Plain(Prepared(s, id))
         /\ Said(Prepared(s, id)) \subseteq Said(s)
         /\ Silent(s) => Said(Prepared(s, id)) = Said(s)
<1> DEFINE thin == {Msg(id + i, "skill", s[i].says) :
                      i \in {j \in 1..Len(s) : s[j].kind = "skillCalls"}}
<1>1. /\ Prepared(s, id) \in Seq(Message)
      /\ Elements(Prepared(s, id))
           = {m \in Elements(s) : m.kind \notin {"calls", "results", "skillCalls"}} \union thin
  BY PreparedElements
<1>2. thin \subseteq Thinned(s, id)
  BY DEF Thinned
<1>3. \A m \in Elements(s) : m.kind \in Kinds
  BY ElementsIn, MessageParts
<1>4. ASSUME NEW m \in thin
      PROVE  m.kind = "skill" /\ \E n \in Elements(s) : n.kind = "skillCalls" /\ m.says = n.says
  BY DEF Msg, Elements
<1>5. ASSUME NEW n \in Elements(s), n.kind = "skillCalls"
      PROVE  \E m \in thin : m.says = n.says
  <2>1. PICK i \in 1..Len(s) : n = s[i]
    BY <1>5 DEF Elements
  <2>2. Msg(id + i, "skill", s[i].says) \in thin
    BY <1>5, <2>1
  <2>3. Msg(id + i, "skill", s[i].says).says = n.says
    BY <2>1 DEF Msg
  <2> QED
    BY <2>2, <2>3
<1>6. Plain(Prepared(s, id))
  BY <1>1, <1>3, <1>4 DEF Plain, PlainKinds, Kinds
<1> HIDE DEF thin
<1>7. Said(Prepared(s, id)) \subseteq Said(s)
  BY <1>1, <1>4 DEF Said
<1>8. ASSUME Silent(s), NEW n \in Elements(s), NEW p \in n.says
      PROVE  \E m \in Elements(Prepared(s, id)) : p \in m.says
  <2>1. n.kind \notin {"calls", "results"}
    BY <1>8 DEF Silent
  <2> QED
    BY <1>1, <1>5, <2>1
<1>9. Silent(s) => Said(s) \subseteq Said(Prepared(s, id))
  BY <1>8 DEF Said
<1> QED
  BY <1>1, <1>2, <1>6, <1>7, <1>9

(* entries_to_messages gives fresh ids to the same messages. *)
LEMMA RebuiltParts ==
  ASSUME NEW s \in Seq(Message), NEW id \in Nat
  PROVE  /\ Rebuilt(s, id) \in Seq(Message) /\ Len(Rebuilt(s, id)) = Len(s)
         /\ \A i \in 1..Len(s) : /\ Rebuilt(s, id)[i].id = id + i
                                 /\ Rebuilt(s, id)[i].kind = s[i].kind
                                 /\ Rebuilt(s, id)[i].says = s[i].says
         /\ Said(Rebuilt(s, id)) = Said(s)
         /\ Silent(s) => Silent(Rebuilt(s, id))
<1> DEFINE r == Rebuilt(s, id)
<1>1. Len(s) \in Nat /\ \A i \in 1..Len(s) : s[i] \in Message
  OBVIOUS
<1>2. ASSUME NEW m \in Message, NEW k \in Nat
      PROVE  /\ [m EXCEPT !.id = k] \in Message
             /\ [m EXCEPT !.id = k].id = k
             /\ [m EXCEPT !.id = k].kind = m.kind
             /\ [m EXCEPT !.id = k].says = m.says
  BY DEF Message
<1>3. ASSUME NEW i \in 1..Len(s)
      PROVE  r[i] \in Message /\ r[i].id = id + i /\ r[i].kind = s[i].kind /\ r[i].says = s[i].says
  <2>1. r[i] = [s[i] EXCEPT !.id = id + i] /\ id + i \in Nat
    BY DEF Rebuilt
  <2> QED
    BY <1>1, <1>2, <2>1
<1>4. r \in [1..Len(s) -> Message]
  <2>1. r = [i \in 1..Len(s) |-> r[i]]
    BY DEF Rebuilt
  <2> HIDE DEF r
  <2> QED
    BY <1>3, <2>1
<1> HIDE DEF r
<1>5. r \in Seq(Message) /\ Len(r) = Len(s)
  BY <1>1, <1>4
<1>6. Said(r) = Said(s)
  BY <1>3, <1>5 DEF Said, Elements
<1>7. Silent(s) => Silent(r)
  BY <1>3, <1>5 DEF Silent, Elements
<1> QED
  BY <1>3, <1>5, <1>6, <1>7 DEF r

(* The batch compaction takes is a beginning of the list. *)
LEMMA BatchRange ==
  ASSUME NEW s \in Seq(Message)
  PROVE  Batch(s) \in 0..Len(s)
<1>1. Len(s) \in Nat
  OBVIOUS
<1>2. ASSUME NEW n \in Nat
      PROVE  (3 * n) \div 5 \in Nat /\ (3 * n) \div 5 <= n
  OBVIOUS
<1> QED
  BY <1>1, <1>2 DEF Batch

(* A compaction says what the list said: the summary speaks for the batch. *)
LEMMA CompactedParts ==
  ASSUME NEW s \in Seq(Message), NEW id \in Nat
  PROVE  /\ Compacted(s, id) \in Seq(Message)
         /\ \A m \in Elements(Compacted(s, id)) : m \in Elements(s) \/ (m.id = id /\ m.kind = "summary")
         /\ \A m, n \in Elements(Compacted(s, id)) :
              m \notin Elements(s) /\ n \notin Elements(s) => m = n
         /\ Said(Compacted(s, id)) = Said(s)
<1> DEFINE k == Batch(s)
           old == SubSeq(s, 1, k)
           young == SubSeq(s, k + 1, Len(s))
           sum == Msg(id, "summary", Said(old))
<1>1. k \in 0..Len(s) /\ Len(s) \in Nat
  BY BatchRange
<1>2. /\ old \in Seq(Message) /\ young \in Seq(Message)
      /\ Elements(young) \subseteq Elements(s)
  <2>1. 1 \in 1..(Len(s) + 1) /\ k + 1 \in 1..(Len(s) + 1) /\ Len(s) \in 0..Len(s)
    BY <1>1
  <2> QED
    BY <1>1, <2>1, PartSays
<1>3. Said(s) = Said(old) \union Said(young)
  BY <1>1, SplitSays
<1>4. Compacted(s, id) = <<sum>> \o young
  BY DEF Compacted
<1>5. sum \in Message /\ sum.id = id /\ sum.kind = "summary" /\ sum.says = Said(old)
  <2>1. Said(old) \in SUBSET Parts /\ "summary" \in Kinds
    BY <1>2, SaidIn DEF Kinds
  <2> QED
    BY <2>1, MsgIn
<1> HIDE DEF k, old, young, sum
<1>6. <<sum>> \in Seq(Message) /\ Elements(<<sum>>) = {sum}
  BY <1>5 DEF Elements
<1>7. Said(<<sum>>) = Said(old)
  BY <1>5, <1>6 DEF Said
<1>8. /\ Compacted(s, id) \in Seq(Message)
      /\ Elements(Compacted(s, id)) = {sum} \union Elements(young)
      /\ Said(Compacted(s, id)) = Said(old) \union Said(young)
  <2> DEFINE first == <<sum>>
  <2>1. first \in Seq(Message) /\ Elements(first) = {sum} /\ Said(first) = Said(old)
    BY <1>6, <1>7
  <2>2. Compacted(s, id) = first \o young
    BY <1>4
  <2> HIDE DEF first
  <2> QED
    BY <1>2, <2>1, <2>2, Concatenated
<1> QED
  BY <1>2, <1>3, <1>5, <1>8

(* The messages an append takes are those whose id it did not read. *)
LEMMA UnknownParts ==
  ASSUME NEW t \in Turns, mem[t] \in Seq(Message)
  PROVE  /\ Unknown(t) \in Seq(Message)
         /\ Elements(Unknown(t))
              = {m \in Elements(mem[t]) : m.id \notin Ids(SubSeq(log, 1, base[t]))}
<1> DEFINE s == mem[t]
           known == Ids(SubSeq(log, 1, base[t]))
           b == [i \in 1..Len(s) |-> IF s[i].id \in known THEN <<>> ELSE <<s[i]>>]
           Of(i) == IF s[i].id \in known THEN {} ELSE {s[i]}
<1>1. ASSUME NEW i \in 1..Len(s)
      PROVE  b[i] \in Seq(Message) /\ Elements(b[i]) = Of(i)
  <2>1. CASE s[i].id \in known
    <3>1. b[i] = <<>> /\ Of(i) = {} /\ <<>> \in Seq(Message)
      BY <2>1
    <3> QED
      BY <3>1, NothingSaid, Zenon
  <2>2. CASE s[i].id \notin known
    <3>1. b[i] = <<s[i]>> /\ Of(i) = {s[i]} /\ s[i] \in Message
      BY <2>2
    <3>2. ASSUME NEW m \in Message
          PROVE  <<m>> \in Seq(Message) /\ Elements(<<m>>) = {m}
      BY DEF Elements
    <3> QED
      BY <3>1, <3>2
  <2> QED
    BY <2>1, <2>2
<1>2. b \in Seq(Seq(Message)) /\ Len(b) = Len(s)
  <2>1. b \in [1..Len(s) -> Seq(Message)] /\ DOMAIN b = 1..Len(s) /\ Len(s) \in Nat
    BY <1>1
  <2> HIDE DEF b
  <2> QED
    BY <2>1
<1>3. FlattenSeq(b) \in Seq(Message)
      /\ Elements(FlattenSeq(b)) = UNION {Elements(b[i]) : i \in 1..Len(b)}
  BY <1>2, Flattened
<1>4. UNION {Elements(b[i]) : i \in 1..Len(s)} = UNION {Of(i) : i \in 1..Len(s)}
  BY <1>1
<1>5. UNION {Of(i) : i \in 1..Len(s)} = {m \in Elements(s) : m.id \notin known}
  BY DEF Elements
<1>6. Unknown(t) = FlattenSeq(b)
  BY DEF Unknown
<1> QED
  BY <1>2, <1>3, <1>4, <1>5, <1>6

(* The parts of the rows that are shown. *)
Shown == {p \in Parts : rows[p[1]] = "visible" /\ (p[2] = "answer" => p[1] \in answered)}

(* The messages a deletion makes from the rows. *)
Rows(id) ==
  {Msg(id + 2 * t - 1, "user", {<<t, "user">>}) : t \in Turns}
    \union {Msg(id + 2 * t, "assistant", {<<t, "answer">>}) : t \in Turns}

(* The history rebuilt from the rows says what the visible rows show. *)
LEMMA FromRowsParts ==
  ASSUME NEW id \in Nat
  PROVE  /\ FromRows(id) \in Seq(Message)
         /\ Elements(FromRows(id)) \subseteq Rows(id)
         /\ Said(FromRows(id)) = Shown
<1> DEFINE User(t) == Msg(id + 2 * t - 1, "user", {<<t, "user">>})
           Reply(t) == Msg(id + 2 * t, "assistant", {<<t, "answer">>})
           b == [t \in Turns |-> IF rows[t] # "visible" THEN <<>>
                                 ELSE IF t \notin answered THEN <<User(t)>>
                                 ELSE <<User(t), Reply(t)>>]
           Of(t) == IF rows[t] # "visible" THEN {}
                    ELSE IF t \notin answered THEN {User(t)}
                    ELSE {User(t), Reply(t)}
<1>1. Turns = 1..MaxTurns /\ MaxTurns \in Nat
  BY HistoryAssumption DEF Turns
<1>2. ASSUME NEW t \in Turns
      PROVE  /\ User(t) \in Message /\ Reply(t) \in Message
             /\ User(t).says = {<<t, "user">>} /\ Reply(t).says = {<<t, "answer">>}
  <2>1. id + 2 * t - 1 \in Nat /\ id + 2 * t \in Nat
    BY <1>1
  <2>2. {<<t, "user">>} \in SUBSET Parts /\ {<<t, "answer">>} \in SUBSET Parts
    BY DEF Parts
  <2>3. "user" \in Kinds /\ "assistant" \in Kinds
    BY DEF Kinds
  <2> QED
    BY <2>1, <2>2, <2>3, MsgIn
<1>3. ASSUME NEW m \in Message, NEW n \in Message
      PROVE  /\ <<m>> \in Seq(Message) /\ Elements(<<m>>) = {m}
             /\ <<m, n>> \in Seq(Message) /\ Elements(<<m, n>>) = {m, n}
  BY DEF Elements
<1>4. ASSUME NEW t \in Turns
      PROVE  b[t] \in Seq(Message) /\ Elements(b[t]) = Of(t)
  <2>1. CASE rows[t] # "visible"
    <3>1. b[t] = <<>> /\ Of(t) = {} /\ <<>> \in Seq(Message)
      BY <2>1
    <3> QED
      BY <3>1, NothingSaid, Zenon
  <2>2. CASE rows[t] = "visible" /\ t \notin answered
    <3>1. b[t] = <<User(t)>> /\ Of(t) = {User(t)}
      BY <2>2
    <3> QED
      BY <3>1, <1>2, <1>3
  <2>3. CASE rows[t] = "visible" /\ t \in answered
    <3>1. b[t] = <<User(t), Reply(t)>> /\ Of(t) = {User(t), Reply(t)}
      BY <2>3
    <3> QED
      BY <3>1, <1>2, <1>3
  <2> QED
    BY <2>1, <2>2, <2>3
<1>5. b \in Seq(Seq(Message)) /\ Len(b) = MaxTurns
  <2>1. b \in [1..MaxTurns -> Seq(Message)] /\ DOMAIN b = 1..MaxTurns
    BY <1>1, <1>4
  <2> HIDE DEF b
  <2> QED
    BY <1>1, <2>1
<1>6. FlattenSeq(b) \in Seq(Message)
      /\ Elements(FlattenSeq(b)) = UNION {Elements(b[i]) : i \in 1..Len(b)}
  BY <1>5, Flattened
<1>7. UNION {Elements(b[i]) : i \in 1..MaxTurns} = UNION {Of(t) : t \in Turns}
  <2>1. {Elements(b[i]) : i \in 1..MaxTurns} = {Elements(b[t]) : t \in Turns}
    BY <1>1
  <2>2. {Elements(b[t]) : t \in Turns} = {Of(t) : t \in Turns}
    <3> HIDE DEF b, Of
    <3> QED
      BY <1>4
  <2> QED
    BY <2>1, <2>2
<1>8. FromRows(id) = FlattenSeq(b)
  BY DEF FromRows
<1>9. FromRows(id) \in Seq(Message) /\ Elements(FromRows(id)) = UNION {Of(t) : t \in Turns}
  BY <1>5, <1>6, <1>7, <1>8
<1>10. UNION {Of(t) : t \in Turns} \subseteq Rows(id)
  BY DEF Rows
<1> HIDE DEF User, Reply
<1>11. ASSUME NEW p \in Said(FromRows(id))
       PROVE  p \in Shown
  <2>1. PICK m \in UNION {Of(t) : t \in Turns} : p \in m.says
    BY <1>9, SaidBy
  <2>2. PICK t \in Turns : m \in Of(t)
    BY <2>1
  <2>3. rows[t] = "visible" /\ (m = User(t) \/ (m = Reply(t) /\ t \in answered))
    BY <2>2
  <2>4. p = <<t, "user">> \/ (p = <<t, "answer">> /\ t \in answered)
    BY <1>2, <2>1, <2>3
  <2> QED
    BY <2>3, <2>4 DEF Shown, Parts
<1>12. ASSUME NEW p \in Shown
       PROVE  p \in Said(FromRows(id))
  <2>1. PICK t \in Turns : p \in {<<t, "user">>, <<t, "answer">>}
    BY DEF Shown, Parts
  <2>2. rows[t] = "visible" /\ (p = <<t, "answer">> => t \in answered)
    BY <2>1 DEF Shown
  <2>3. \E m \in Of(t) : p \in m.says
    BY <1>2, <2>1, <2>2
  <2> QED
    BY <1>9, <2>3, SaidBy
<1> QED
  BY <1>9, <1>10, <1>11, <1>12

-----------------------------------------------------------------------------
(* Parts of the inductive invariant. *)

(* Where a turn may be. *)
Places == {"idle", "load", "loadRow", "replay", "backfill", "ready",
           "talk", "tools", "saving", "over", "dead"}

(* The type invariant, by what a step of the code touches together. *)
RowTypes ==
  /\ rows \in [Turns -> {"none", "running", "visible", "deleted"}]
  /\ answered \subseteq Turns
  /\ disabled \subseteq Processes
  /\ nextId \in Nat
  /\ scene \in Scenes
  /\ faults \in Nat /\ restarts \in Nat

MessageTypes ==
  /\ log \in Seq(Message)
  /\ short \in Seq(Message) \union {NoCopy}
  /\ cache \in Seq(Message) \union {NoCopy}
  /\ mem \in [Turns -> Seq(Message)]
  /\ wlist \in [Writers -> Seq(Message)]

PlaceTypes ==
  /\ home \in [Writers -> Processes]
  /\ pc \in [Turns -> Places]
  /\ wpc \in [Writers -> {"idle", "append", "commit", "cache", "row"}]
  /\ dpc \in [Deletions -> {"idle", "rebuild", "save", "wipe", "wipeRuns", "over", "dead"}]

CountTypes ==
  /\ rounds \in [Turns -> Nat] /\ \A t \in Turns : rounds[t] <= scene.rounds
  /\ base \in [Turns -> Nat] /\ \A t \in Turns : base[t] <= Len(log)

SetTypes ==
  /\ dpart \in [Deletions -> SUBSET Parts]
  /\ erased \subseteq Parts
  /\ stopped \subseteq Turns /\ spoke \subseteq Turns /\ cut \subseteq Turns
  /\ unlogged \subseteq Turns /\ replayed \subseteq Turns
  /\ disturbed \in BOOLEAN

HistoryTypes == RowTypes /\ MessageTypes /\ PlaceTypes /\ CountTypes /\ SetTypes

messages == <<log, short, cache, mem, wlist>>

-----------------------------------------------------------------------------

(* What a copy holds, if there is one. *)
LEMMA HeldIn ==
  ASSUME NEW copy \in Seq(Message) \union {NoCopy}
  PROVE  /\ Held(copy) \in Seq(Message)
         /\ copy \in Seq(Message) => copy # NoCopy /\ Held(copy) = copy
         /\ copy = NoCopy => Held(copy) = <<>>
<1>1. <<>> \in Seq(Message)
  OBVIOUS
<1> QED
  BY <1>1, NoCopyAssumption DEF Held

(* Turns and deletions are different writers. *)
LEMMA TurnsAndDeletions ==
  /\ Turns \subseteq Writers /\ Deletions \subseteq Writers
  /\ Turns \intersect Deletions = {}
  /\ MaxTurns \in Nat /\ Turns \subseteq Nat
  /\ Scenes \subseteq SceneType
BY HistoryAssumption DEF Turns, Writers

(* What each step that makes messages makes. *)

(* A replay starts the session from the transcript. *)
LEMMA ReplayMakes ==
  ASSUME RowTypes, MessageTypes, NEW t \in Turns, Replay(t)
  PROVE  /\ mem' = [mem EXCEPT ![t] = mem'[t]]
         /\ mem'[t] \in Seq(Message) /\ Plain(mem'[t])
         /\ log = <<>> => mem'[t] = <<>> /\ UNCHANGED <<nextId, wlist>>
         /\ log # <<>> => wlist' = [wlist EXCEPT ![t] = mem'[t]]
                          /\ nextId' = nextId + 2 * Len(log)
         /\ Said(mem'[t]) \subseteq Said(log)
         /\ Silent(log) => Said(mem'[t]) = Said(log)
         /\ Elements(mem'[t]) \subseteq
              Elements(Rebuilt(log, nextId))
                \union Thinned(Rebuilt(log, nextId), nextId + Len(log))
<1> DEFINE r == Rebuilt(log, nextId)
           list == Prepared(r, nextId + Len(log))
<1>1. log \in Seq(Message) /\ nextId \in Nat /\ Len(log) \in Nat /\ nextId + Len(log) \in Nat
  BY DEF RowTypes, MessageTypes
<1>2. /\ r \in Seq(Message) /\ Said(r) = Said(log) /\ (Silent(log) => Silent(r))
      /\ Len(r) = Len(log)
  BY <1>1, RebuiltParts
<1>3. /\ list \in Seq(Message)
      /\ Elements(list) \subseteq Elements(r) \union Thinned(r, nextId + Len(log))
      /\ Plain(list) /\ Said(list) \subseteq Said(r)
      /\ Silent(r) => Said(list) = Said(r)
  <2> HIDE DEF r
  <2> QED
    BY <1>1, <1>2, PreparedParts
<1>4. /\ mem' = [mem EXCEPT ![t] = list] /\ mem'[t] = list
      /\ log = <<>> => UNCHANGED <<nextId, wlist>>
      /\ log # <<>> => wlist' = [wlist EXCEPT ![t] = list] /\ nextId' = nextId + 2 * Len(log)
  BY DEF Replay, MessageTypes
<1>5. log = <<>> => list = <<>>
  <2> HIDE DEF list
  <2>1. ASSUME log = <<>>
        PROVE  Elements(list) = {}
    <3>1. Len(r) = 0
      BY <2>1, <1>2
    <3>2. Elements(r) = {} /\ Thinned(r, nextId + Len(log)) = {}
      <4> HIDE DEF r
      <4> QED
        BY <3>1 DEF Elements, Thinned
    <3> QED
      BY <1>3, <3>2
  <2> QED
    BY <1>3, <2>1, ElementsIn
<1> HIDE DEF list, r
<1>6. mem' = [mem EXCEPT ![t] = mem'[t]]
  BY <1>4
<1> QED
  BY <1>2, <1>3, <1>4, <1>5, <1>6 DEF r
(* The messages of new that old lacks are fresh: their ids are above lo, not *)
(* above hi, and name one message each; the tools say nothing.               *)
Adds(new, old, lo, hi) ==
  /\ \A m \in new \ old : /\ m.id \in (lo + 1)..hi
                          /\ m.kind \in {"calls", "results"} => m.says = {}
  /\ \A m, n \in new \ old : m.id = n.id => m.says = n.says

(* The messages a replay makes have ids of their own. *)
LEMMA ReplayAdds ==
  ASSUME RowTypes, MessageTypes, Silent(log), NEW t \in Turns, Replay(t)
  PROVE  Adds(Elements(mem'[t]), {}, nextId, nextId + 2 * Len(log))
<1> DEFINE r == Rebuilt(log, nextId)
           thin == Thinned(r, nextId + Len(log))
<1>1. log \in Seq(Message) /\ nextId \in Nat /\ Len(log) \in Nat
  BY DEF RowTypes, MessageTypes
<1>2. /\ r \in Seq(Message) /\ Len(r) = Len(log)
      /\ \A i \in 1..Len(log) : r[i].id = nextId + i
      /\ Silent(r)
  BY <1>1, RebuiltParts
<1>3. Elements(mem'[t]) \subseteq Elements(r) \union thin
  BY ReplayMakes
<1> HIDE DEF r
<1>4. \A m \in Elements(r) : \E i \in 1..Len(log) : m = r[i] /\ m.id = nextId + i
  BY <1>2 DEF Elements
<1>5. \A m \in thin : \E i \in 1..Len(log) :
        m.id = nextId + Len(log) + i /\ m.kind = "skill" /\ m.says = r[i].says
  BY <1>2 DEF Thinned, Msg
<1>6. \A m \in Elements(r) : m.kind \in {"calls", "results"} => m.says = {}
  BY <1>2 DEF Silent
<1> HIDE DEF thin
<1>7. ASSUME NEW m \in Elements(r) \union thin
      PROVE  /\ m.id \in (nextId + 1)..(nextId + 2 * Len(log))
             /\ m.kind \in {"calls", "results"} => m.says = {}
  BY <1>1, <1>4, <1>5, <1>6
<1>8. ASSUME NEW m \in Elements(r) \union thin, NEW n \in Elements(r) \union thin, m.id = n.id
      PROVE  m.says = n.says
  <2>1. CASE m \in Elements(r) /\ n \in Elements(r)
    BY <1>1, <1>4, <1>8, <2>1
  <2>2. CASE m \in thin /\ n \in thin
    BY <1>1, <1>5, <1>8, <2>2
  <2>3. CASE m \in Elements(r) /\ n \in thin
    BY <1>1, <1>4, <1>5, <1>8, <2>3
  <2>4. CASE m \in thin /\ n \in Elements(r)
    BY <1>1, <1>4, <1>5, <1>8, <2>4
  <2> QED
    BY <2>1, <2>2, <2>3, <2>4
<1> QED
  BY <1>3, <1>7, <1>8 DEF Adds

(* The two parts of a turn. *)
LEMMA PartsOf ==
  ASSUME NEW t \in Turns
  PROVE  {<<t, "user">>} \in SUBSET Parts /\ {<<t, "answer">>} \in SUBSET Parts
BY DEF Parts

(* Composing adds what the user says. *)
LEMMA ComposeMakes ==
  ASSUME RowTypes, MessageTypes, NEW t \in Turns, Compose(t)
  PROVE  /\ mem' = [mem EXCEPT ![t] = mem'[t]]
         /\ mem'[t] \in Seq(Message)
         /\ Said(mem'[t]) = Said(mem[t]) \union {<<t, "user">>}
         /\ nextId' = nextId + 2
         /\ Adds(Elements(mem'[t]), Elements(mem[t]), nextId, nextId + 2)
<1>1. mem[t] \in Seq(Message) /\ nextId \in Nat /\ nextId + 1 \in Nat /\ nextId + 2 \in Nat
  BY DEF RowTypes, MessageTypes
<1> DEFINE user == Msg(nextId + 2, "user", {<<t, "user">>})
<1>2. user \in Message /\ user.id = nextId + 2 /\ user.kind = "user" /\ user.says = {<<t, "user">>}
  <2>1. "user" \in Kinds /\ {<<t, "user">>} \in SUBSET Parts
    BY PartsOf DEF Kinds
  <2> QED
    BY <1>1, <2>1, MsgIn
<1>3. PICK list \in {mem[t]} \union (IF mem[t] = <<>> THEN {} ELSE {Compacted(mem[t], nextId + 1)}) :
        mem' = [mem EXCEPT ![t] = Append(list, Msg(nextId + 2, "user", {<<t, "user">>}))]
  BY DEF Compose
<1>4. mem' = [mem EXCEPT ![t] = Append(list, user)] /\ mem'[t] = Append(list, user)
  BY <1>3 DEF MessageTypes
<1> HIDE DEF user
<1>5. /\ Compacted(mem[t], nextId + 1) \in Seq(Message)
      /\ \A m \in Elements(Compacted(mem[t], nextId + 1)) :
           m \in Elements(mem[t]) \/ (m.id = nextId + 1 /\ m.kind = "summary")
      /\ \A m, n \in Elements(Compacted(mem[t], nextId + 1)) :
           m \notin Elements(mem[t]) /\ n \notin Elements(mem[t]) => m = n
      /\ Said(Compacted(mem[t], nextId + 1)) = Said(mem[t])
  BY <1>1, CompactedParts
<1>6. /\ list \in Seq(Message) /\ Said(list) = Said(mem[t])
      /\ \A m \in Elements(list) :
           m \in Elements(mem[t]) \/ (m.id = nextId + 1 /\ m.kind = "summary")
      /\ \A m, n \in Elements(list) :
           m \notin Elements(mem[t]) /\ n \notin Elements(mem[t]) => m = n
  <2>1. list = mem[t] \/ list = Compacted(mem[t], nextId + 1)
    BY <1>3
  <2> QED
    BY <1>1, <1>5, <2>1
<1>7. /\ Append(list, user) \in Seq(Message)
      /\ Elements(Append(list, user)) = Elements(list) \union {user}
      /\ Said(Append(list, user)) = Said(list) \union user.says
  BY <1>2, <1>6, Appended
<1>8. Adds(Elements(list) \union {user}, Elements(mem[t]), nextId, nextId + 2)
  BY <1>1, <1>2, <1>6 DEF Adds
<1>9. nextId' = nextId + 2
  BY DEF Compose
<1> QED
  BY <1>2, <1>4, <1>6, <1>7, <1>8, <1>9

(* Composing within the context window may leave out the oldest. *)
LEMMA ComposeTrimmedMakes ==
  ASSUME RowTypes, MessageTypes, NEW t \in Turns, ComposeTrimmed(t)
  PROVE  /\ mem' = [mem EXCEPT ![t] = mem'[t]]
         /\ mem'[t] \in Seq(Message)
         /\ Said(mem'[t]) \subseteq Said(mem[t]) \union {<<t, "user">>}
         /\ <<t, "user">> \in Said(mem'[t])
         /\ nextId' = nextId + 1
         /\ Adds(Elements(mem'[t]), Elements(mem[t]), nextId, nextId + 1)
<1>1. mem[t] \in Seq(Message) /\ nextId \in Nat /\ nextId + 1 \in Nat /\ Len(mem[t]) \in Nat
  BY DEF RowTypes, MessageTypes
<1> DEFINE user == Msg(nextId + 1, "user", {<<t, "user">>})
<1>2. user \in Message /\ user.id = nextId + 1 /\ user.kind = "user" /\ user.says = {<<t, "user">>}
  <2>1. "user" \in Kinds /\ {<<t, "user">>} \in SUBSET Parts
    BY PartsOf DEF Kinds
  <2> QED
    BY <1>1, <2>1, MsgIn
<1>3. PICK k \in 2..Len(mem[t]) :
        mem' = [mem EXCEPT ![t] = Append(SubSeq(mem[t], k, Len(mem[t])), user)]
  BY DEF ComposeTrimmed, MessageTypes
<1> DEFINE list == SubSeq(mem[t], k, Len(mem[t]))
<1>4. mem' = [mem EXCEPT ![t] = Append(list, user)] /\ mem'[t] = Append(list, user)
  BY <1>3 DEF MessageTypes
<1>5. list \in Seq(Message) /\ Elements(list) \subseteq Elements(mem[t]) /\ Said(list) \subseteq Said(mem[t])
  <2>1. k \in 1..(Len(mem[t]) + 1) /\ Len(mem[t]) \in 0..Len(mem[t])
    BY <1>1
  <2> QED
    BY <1>1, <2>1, PartSays
<1> HIDE DEF user, list
<1>6. /\ Append(list, user) \in Seq(Message)
      /\ Elements(Append(list, user)) = Elements(list) \union {user}
      /\ Said(Append(list, user)) = Said(list) \union user.says
  BY <1>2, <1>5, Appended
<1>7. Adds(Elements(list) \union {user}, Elements(mem[t]), nextId, nextId + 1)
  BY <1>1, <1>2, <1>5 DEF Adds
<1>8. nextId' = nextId + 1
  BY DEF ComposeTrimmed
<1> QED
  BY <1>2, <1>4, <1>5, <1>6, <1>7, <1>8

(* A message is added to the session under a fresh id. *)
LEMMA SpeakMakes ==
  ASSUME RowTypes, MessageTypes, NEW t \in Turns, NEW from, NEW to,
         NEW kind \in Kinds, NEW says \in SUBSET Parts,
         kind \in {"calls", "results"} => says = {},
         Speak(t, from, to, kind, says)
  PROVE  /\ mem' = [mem EXCEPT ![t] = mem'[t]]
         /\ mem'[t] \in Seq(Message)
         /\ Said(mem'[t]) = Said(mem[t]) \union says
         /\ nextId' = nextId + 1
         /\ Adds(Elements(mem'[t]), Elements(mem[t]), nextId, nextId + 1)
<1>1. mem[t] \in Seq(Message) /\ nextId \in Nat /\ nextId + 1 \in Nat
  BY DEF RowTypes, MessageTypes
<1> DEFINE new == Msg(nextId + 1, kind, says)
<1>2. new \in Message /\ new.id = nextId + 1 /\ new.kind = kind /\ new.says = says
  BY <1>1, MsgIn
<1>3. mem' = [mem EXCEPT ![t] = Append(mem[t], new)] /\ mem'[t] = Append(mem[t], new)
      /\ nextId' = nextId + 1
  BY DEF Speak, MessageTypes
<1> HIDE DEF new
<1>4. /\ Append(mem[t], new) \in Seq(Message)
      /\ Elements(Append(mem[t], new)) = Elements(mem[t]) \union {new}
      /\ Said(Append(mem[t], new)) = Said(mem[t]) \union new.says
  BY <1>1, <1>2, Appended
<1>5. Adds(Elements(mem[t]) \union {new}, Elements(mem[t]), nextId, nextId + 1)
  BY <1>1, <1>2 DEF Adds
<1> QED
  BY <1>2, <1>3, <1>4, <1>5

(* After an append: what is saved is prepared from the session. *)
LEMMA AfterAppendMakes ==
  ASSUME RowTypes, MessageTypes, NEW t \in Turns, pc[t] = "saving", AfterAppend(t)
  PROVE  /\ wlist' = [wlist EXCEPT ![t] = wlist'[t]]
         /\ wlist'[t] \in Seq(Message) /\ Plain(wlist'[t])
         /\ Said(wlist'[t]) \subseteq Said(mem[t])
         /\ Silent(mem[t]) => Said(wlist'[t]) = Said(mem[t])
         /\ nextId' = nextId + Len(mem[t]) /\ Len(mem[t]) \in Nat
         /\ Adds(Elements(wlist'[t]), Elements(mem[t]), nextId, nextId + Len(mem[t]))
<1>1. mem[t] \in Seq(Message) /\ nextId \in Nat /\ Len(mem[t]) \in Nat /\ t \in Writers
  BY TurnsAndDeletions DEF RowTypes, MessageTypes
<1> DEFINE list == Prepared(mem[t], nextId)
<1>2. /\ list \in Seq(Message)
      /\ Elements(list) \subseteq Elements(mem[t]) \union Thinned(mem[t], nextId)
      /\ Plain(list) /\ Said(list) \subseteq Said(mem[t])
      /\ Silent(mem[t]) => Said(list) = Said(mem[t])
  BY <1>1, PreparedParts
<1>3. /\ wlist' = [wlist EXCEPT ![t] = list] /\ wlist'[t] = list
      /\ nextId' = nextId + Len(mem[t])
  BY <1>1 DEF AfterAppend, MessageTypes
<1> HIDE DEF list
<1>4. \A m \in Thinned(mem[t], nextId) : \E i \in 1..Len(mem[t]) :
        m.id = nextId + i /\ m.kind = "skill" /\ m.says = mem[t][i].says
  BY DEF Thinned, Msg
<1>5. ASSUME NEW m \in Thinned(mem[t], nextId)
      PROVE  /\ m.id \in (nextId + 1)..(nextId + Len(mem[t]))
             /\ m.kind \in {"calls", "results"} => m.says = {}
  BY <1>1, <1>4
<1>6. ASSUME NEW m \in Thinned(mem[t], nextId), NEW n \in Thinned(mem[t], nextId), m.id = n.id
      PROVE  m.says = n.says
  BY <1>1, <1>4, <1>6
<1>7. Adds(Elements(list), Elements(mem[t]), nextId, nextId + Len(mem[t]))
  BY <1>2, <1>5, <1>6 DEF Adds
<1> QED
  BY <1>1, <1>2, <1>3, <1>7

(* A deletion writes what the visible rows show. *)
LEMMA RebuildMakes ==
  ASSUME RowTypes, MessageTypes, NEW d \in Deletions, Rebuild(d)
  PROVE  /\ wlist' = [wlist EXCEPT ![d] = wlist'[d]]
         /\ wlist'[d] \in Seq(Message) /\ Plain(wlist'[d])
         /\ Said(wlist'[d]) = Shown
         /\ nextId' = nextId + 2 * MaxTurns
         /\ Adds(Elements(wlist'[d]), {}, nextId, nextId + 2 * MaxTurns)
<1>1. nextId \in Nat /\ d \in Writers /\ MaxTurns \in Nat /\ Turns = 1..MaxTurns
  BY TurnsAndDeletions DEF RowTypes, Turns
<1> DEFINE list == FromRows(nextId)
<1>2. list \in Seq(Message) /\ Elements(list) \subseteq Rows(nextId) /\ Said(list) = Shown
  BY <1>1, FromRowsParts
<1>3. /\ wlist' = [wlist EXCEPT ![d] = list] /\ wlist'[d] = list
      /\ nextId' = nextId + 2 * MaxTurns
  BY <1>1 DEF Rebuild, MessageTypes
<1> HIDE DEF list
<1>4. \A m \in Rows(nextId) : \E t \in 1..MaxTurns :
        \/ m.id = nextId + 2 * t - 1 /\ m.kind = "user" /\ m.says = {<<t, "user">>}
        \/ m.id = nextId + 2 * t /\ m.kind = "assistant" /\ m.says = {<<t, "answer">>}
  <2>2. ASSUME NEW m \in Rows(nextId)
        PROVE  \E t \in Turns : \/ m = Msg(nextId + 2 * t - 1, "user", {<<t, "user">>})
                                \/ m = Msg(nextId + 2 * t, "assistant", {<<t, "answer">>})
    BY DEF Rows
  <2>3. ASSUME NEW m \in Rows(nextId)
        PROVE  \E t \in Turns :
                 \/ m.id = nextId + 2 * t - 1 /\ m.kind = "user" /\ m.says = {<<t, "user">>}
                 \/ m.id = nextId + 2 * t /\ m.kind = "assistant" /\ m.says = {<<t, "answer">>}
    <3>1. PICK t \in Turns : \/ m = Msg(nextId + 2 * t - 1, "user", {<<t, "user">>})
                             \/ m = Msg(nextId + 2 * t, "assistant", {<<t, "answer">>})
      BY <2>2
    <3>2. CASE m = Msg(nextId + 2 * t - 1, "user", {<<t, "user">>})
      BY <3>2 DEF Msg
    <3>3. CASE m = Msg(nextId + 2 * t, "assistant", {<<t, "answer">>})
      BY <3>3 DEF Msg
    <3> QED
      BY <3>1, <3>2, <3>3
  <2> QED
    BY <1>1, <2>3
<1>5. ASSUME NEW m \in Rows(nextId)
      PROVE  /\ m.id \in (nextId + 1)..(nextId + 2 * MaxTurns)
             /\ m.kind \in {"user", "assistant"}
  BY <1>1, <1>4
<1>6. ASSUME NEW m \in Rows(nextId), NEW n \in Rows(nextId), m.id = n.id
      PROVE  m.says = n.says
  <2>1. PICK t \in 1..MaxTurns :
          \/ m.id = nextId + 2 * t - 1 /\ m.kind = "user" /\ m.says = {<<t, "user">>}
          \/ m.id = nextId + 2 * t /\ m.kind = "assistant" /\ m.says = {<<t, "answer">>}
    BY <1>4
  <2>2. PICK u \in 1..MaxTurns :
          \/ n.id = nextId + 2 * u - 1 /\ n.kind = "user" /\ n.says = {<<u, "user">>}
          \/ n.id = nextId + 2 * u /\ n.kind = "assistant" /\ n.says = {<<u, "answer">>}
    BY <1>4
  <2>3. \A i, j \in Nat : /\ nextId + 2 * i - 1 # nextId + 2 * j
                          /\ nextId + 2 * i - 1 = nextId + 2 * j - 1 => i = j
                          /\ nextId + 2 * i = nextId + 2 * j => i = j
    BY <1>1
  <2>4. t \in Nat /\ u \in Nat
    OBVIOUS
  <2>5. CASE m.id = nextId + 2 * t - 1 /\ m.says = {<<t, "user">>}
    <3>1. n.id = nextId + 2 * u - 1 /\ n.says = {<<u, "user">>}
      BY <1>6, <2>2, <2>3, <2>4, <2>5
    <3>2. t = u
      BY <1>6, <2>3, <2>4, <2>5, <3>1
    <3> QED
      BY <2>5, <3>1, <3>2
  <2>6. CASE m.id = nextId + 2 * t /\ m.says = {<<t, "answer">>}
    <3>1. n.id = nextId + 2 * u /\ n.says = {<<u, "answer">>}
      BY <1>6, <2>2, <2>3, <2>4, <2>6
    <3>2. t = u
      BY <1>6, <2>3, <2>4, <2>6, <3>1
    <3> QED
      BY <2>6, <3>1, <3>2
  <2> QED
    BY <2>1, <2>5, <2>6
<1>7. Plain(list)
  BY <1>2, <1>5 DEF Plain, PlainKinds
<1>8. Adds(Elements(list), {}, nextId, nextId + 2 * MaxTurns)
  BY <1>2, <1>5, <1>6 DEF Adds
<1> QED
  BY <1>2, <1>3, <1>7, <1>8

(* The append itself, when it is not refused. *)
LEMMA AppendCommitMakes ==
  ASSUME RowTypes, MessageTypes, CountTypes, NEW t \in Turns, AppendCommit(t)
  PROVE  /\ log' \in Seq(Message)
         /\ Elements(log) \subseteq Elements(log')
         /\ Elements(log') \subseteq Elements(log) \union Elements(mem[t])
         /\ Said(log) \subseteq Said(log')
         /\ Len(log) <= Len(log')
         /\ t \notin unlogged' =>
              \A m \in Elements(mem[t]) : \E n \in Elements(log') : n.id = m.id
                                            /\ (n = m \/ n \in Elements(log))
<1>1. mem[t] \in Seq(Message) /\ log \in Seq(Message) /\ Len(log) \in Nat
      /\ base[t] \in 0..Len(log)
  BY DEF MessageTypes, CountTypes
<1>2. /\ Unknown(t) \in Seq(Message)
      /\ Elements(Unknown(t))
           = {m \in Elements(mem[t]) : m.id \notin Ids(SubSeq(log, 1, base[t]))}
  BY <1>1, UnknownParts
<1>3. CASE log' = log \o Unknown(t)
  <2>1. /\ log' \in Seq(Message)
        /\ Elements(log') = Elements(log) \union Elements(Unknown(t))
        /\ Said(log') = Said(log) \union Said(Unknown(t))
    BY <1>1, <1>2, <1>3, Concatenated
  <2>2. Len(log') = Len(log) + Len(Unknown(t)) /\ Len(Unknown(t)) \in Nat
    BY <1>1, <1>2, <1>3
  <2>3. ASSUME NEW m \in Elements(mem[t])
        PROVE  \E n \in Elements(log') : n.id = m.id /\ (n = m \/ n \in Elements(log))
    <3>1. CASE m \in Elements(Unknown(t))
      BY <2>1, <3>1
    <3>2. CASE m.id \in Ids(SubSeq(log, 1, base[t]))
      <4>1. Elements(SubSeq(log, 1, base[t])) \subseteq Elements(log)
        <5>1. 1 \in 1..(Len(log) + 1)
          BY <1>1
        <5> QED
          BY <1>1, <5>1, PartSays
      <4>2. PICK n \in Elements(SubSeq(log, 1, base[t])) : n.id = m.id
        BY <3>2 DEF Ids
      <4> QED
        BY <2>1, <4>1, <4>2
    <3> QED
      BY <1>2, <3>1, <3>2
  <2> QED
    BY <1>1, <1>2, <2>1, <2>2, <2>3
<1>4. CASE log' = log /\ t \in unlogged'
  BY <1>1, <1>4
<1>5. log' = log \o Unknown(t) \/ (log' = log /\ t \in unlogged')
  BY DEF AppendCommit
<1> QED
  BY <1>3, <1>4, <1>5

(* Rows, counters and the scene keep their types. *)
LEMMA RowTypesKept ==
  ASSUME HistoryTypes, [Next]_vars
  PROVE  RowTypes'
<1> USE DEF rowVars, copies, turnVars, writeVars, deleteVars, historyVars, bounds
<1>1. ASSUME NEW t \in Turns, TurnStep(t)
      PROVE  RowTypes'
  <2>1. CASE Start(t) \/ BackfillDone(t) \/ Break(t) \/ SaveDone(t) \/
            CutSave(t) \/ Finish(t) \/ AppendRead(t)
    BY <2>1 DEF Start, BackfillDone, Break, SaveDone, CutSave, Finish,
       AppendRead, Step, RowTypes, HistoryTypes
  <2>2. CASE LoadCache(t) \/ LoadCacheFails(t) \/ LoadRow(t) \/
            LoadRowFails(t)
    <3>1. home[t] \in Processes
      BY TurnsAndDeletions DEF HistoryTypes, PlaceTypes
    <3> QED
      BY <2>2, <3>1 DEF LoadCache, LoadCacheFails, LoadRow, LoadRowFails, Step, Loaded,
         RowTypes, HistoryTypes
  <2>3. CASE CallTools(t) \/ ToolsDone(t) \/ Answer(t) \/ Compose(t) \/
            ComposeTrimmed(t) \/ BreakEarly(t)
    BY <2>3 DEF CallTools, ToolsDone, Answer, Compose, ComposeTrimmed,
       BreakEarly, Speak, Step, RowTypes, HistoryTypes
  <2>4. CASE Replay(t)
    <3>1. nextId \in Nat /\ Len(log) \in Nat /\ Len(mem[t]) \in Nat
      BY DEF HistoryTypes, RowTypes, MessageTypes
    <3> QED
      BY <2>4, <3>1 DEF Replay, Step, RowTypes, HistoryTypes
  <2>5. CASE AppendCommit(t)
    <3>1. nextId \in Nat /\ Len(log) \in Nat /\ Len(mem[t]) \in Nat
      BY DEF HistoryTypes, RowTypes, MessageTypes
    <3> QED
      BY <2>5, <3>1 DEF AppendCommit, AfterAppend, RowTypes, HistoryTypes
  <2>6. CASE AppendFails(t)
    <3>1. nextId \in Nat /\ Len(log) \in Nat /\ Len(mem[t]) \in Nat
      BY DEF HistoryTypes, RowTypes, MessageTypes
    <3> QED
      BY <2>6, <3>1 DEF AppendFails, AfterAppend, RowTypes, HistoryTypes
  <2> QED
    BY <1>1, <2>1, <2>2, <2>3, <2>4, <2>5, <2>6 DEF TurnStep
<1>2. ASSUME NEW w \in Writers, WriterStep(w)
      PROVE  RowTypes'
  <2>1. CASE WriteCache(w) \/ WriteCacheFails(w) \/ WriteRow(w) \/
            WriteRowFails(w)
    <3>1. home[w] \in Processes
      BY DEF HistoryTypes, PlaceTypes
    <3> QED
      BY <2>1, <3>1 DEF WriteCache, WriteCacheFails, WriteRow, WriteRowFails, WriteStep,
         RowTypes, HistoryTypes
  <2> QED
    BY <1>2, <2>1 DEF WriterStep
<1>3. ASSUME NEW d \in Deletions, NEW t \in Turns, DeleteUser(d, t) \/ DeleteAnswer(d, t)
      PROVE  RowTypes'
  <2>1. CASE DeleteUser(d, t) \/ DeleteAnswer(d, t)
    BY <2>1 DEF DeleteUser, DeleteAnswer, DeleteStep, RowTypes, HistoryTypes
  <2> QED
    BY <1>3, <2>1
<1>4. ASSUME NEW d \in Deletions, DeletionStep(d),
             ~(\E t \in Turns : DeleteUser(d, t) \/ DeleteAnswer(d, t))
      PROVE  RowTypes'
  <2>1. CASE DeleteDone(d) \/ WipeCache(d) \/ WipeRow(d) \/ WipeRuns(d)
    BY <2>1 DEF DeleteDone, WipeCache, WipeRow, WipeRuns, DeleteStep,
       RowTypes, HistoryTypes
  <2>2. CASE Rebuild(d)
    <3>1. 2 * MaxTurns \in Nat
      BY TurnsAndDeletions
    <3> QED
      BY <2>2, <3>1 DEF Rebuild, DeleteStep, RowTypes, HistoryTypes
  <2> QED
    BY <1>4, <2>1, <2>2 DEF DeletionStep
<1>5. CASE Expire
  BY <1>5 DEF Expire, RowTypes, HistoryTypes
<1>6. ASSUME NEW p \in Processes, Restart(p)
      PROVE  RowTypes'
  BY <1>6 DEF Restart, RowTypes, HistoryTypes
<1>7. CASE UNCHANGED vars
  BY <1>7 DEF vars, RowTypes, HistoryTypes
<1> QED
  BY <1>1, <1>2, <1>3, <1>4, <1>5, <1>6, <1>7 DEF Next, DeletionStep

(* Everyone is at a place of the code. *)
LEMMA PlaceTypesKept ==
  ASSUME HistoryTypes, [Next]_vars
  PROVE  PlaceTypes'
<1> USE DEF rowVars, copies, turnVars, writeVars, deleteVars, historyVars, bounds, Places
<1>1. ASSUME NEW t \in Turns, TurnStep(t)
      PROVE  PlaceTypes'
  <2>1. CASE Start(t) \/ LoadCache(t) \/ LoadCacheFails(t) \/ LoadRow(t) \/
            LoadRowFails(t)
    BY <2>1, TurnsAndDeletions DEF Start, LoadCache, LoadCacheFails, LoadRow,
       LoadRowFails, Step, Loaded, PlaceTypes, HistoryTypes
  <2>2. CASE BackfillDone(t) \/ Compose(t) \/ ComposeTrimmed(t) \/
            CallTools(t) \/ ToolsDone(t) \/ SaveDone(t) \/ CutSave(t) \/
            Finish(t)
    BY <2>2, TurnsAndDeletions DEF BackfillDone, Compose, ComposeTrimmed,
       CallTools, ToolsDone, SaveDone, CutSave, Finish, Step, Speak,
       PlaceTypes, HistoryTypes
  <2>3. CASE Replay(t) \/ Answer(t) \/ Break(t) \/ BreakEarly(t) \/
            AppendRead(t)
    BY <2>3, TurnsAndDeletions DEF Replay, Answer, Break, BreakEarly,
       AppendRead, Step, Speak, PlaceTypes, HistoryTypes
  <2>4. CASE AppendCommit(t) \/ AppendFails(t)
    BY <2>4, TurnsAndDeletions DEF AppendCommit, AppendFails, AfterAppend,
       PlaceTypes, HistoryTypes
  <2> QED
    BY <1>1, <2>1, <2>2, <2>3, <2>4 DEF TurnStep
<1>2. ASSUME NEW w \in Writers, WriterStep(w)
      PROVE  PlaceTypes'
  <2>1. CASE WriteCache(w) \/ WriteCacheFails(w) \/ WriteRow(w) \/
            WriteRowFails(w)
    BY <2>1, TurnsAndDeletions DEF WriteCache, WriteCacheFails, WriteRow,
       WriteRowFails, WriteStep, PlaceTypes, HistoryTypes
  <2> QED
    BY <1>2, <2>1 DEF WriterStep
<1>3. ASSUME NEW d \in Deletions, NEW t \in Turns, DeleteUser(d, t) \/ DeleteAnswer(d, t)
      PROVE  PlaceTypes'
  <2>1. CASE DeleteUser(d, t) \/ DeleteAnswer(d, t)
    BY <2>1, TurnsAndDeletions DEF DeleteUser, DeleteAnswer, DeleteStep,
       PlaceTypes, HistoryTypes
  <2> QED
    BY <1>3, <2>1
<1>4. ASSUME NEW d \in Deletions, DeletionStep(d),
             ~(\E t \in Turns : DeleteUser(d, t) \/ DeleteAnswer(d, t))
      PROVE  PlaceTypes'
  <2>1. CASE Rebuild(d) \/ DeleteDone(d) \/ WipeCache(d) \/ WipeRow(d) \/
            WipeRuns(d)
    BY <2>1, TurnsAndDeletions DEF Rebuild, DeleteDone, WipeCache, WipeRow,
       WipeRuns, DeleteStep, PlaceTypes, HistoryTypes
  <2> QED
    BY <1>4, <2>1 DEF DeletionStep
<1>5. CASE Expire
  BY <1>5, TurnsAndDeletions DEF Expire, PlaceTypes, HistoryTypes
<1>6. ASSUME NEW p \in Processes, Restart(p)
      PROVE  PlaceTypes'
  BY <1>6, TurnsAndDeletions DEF Restart, PlaceTypes, HistoryTypes
<1>7. CASE UNCHANGED vars
  BY <1>7, TurnsAndDeletions DEF vars, PlaceTypes, HistoryTypes
<1> QED
  BY <1>1, <1>2, <1>3, <1>4, <1>5, <1>6, <1>7 DEF Next, DeletionStep

(* Rounds and the length an append has read stay in bounds. *)
LEMMA CountTypesKept ==
  ASSUME HistoryTypes, [Next]_vars
  PROVE  CountTypes'
<1> USE DEF rowVars, copies, turnVars, writeVars, deleteVars, historyVars, bounds
<1>1. ASSUME NEW t \in Turns, TurnStep(t)
      PROVE  CountTypes'
  <2>1. CASE Start(t) \/ BackfillDone(t) \/ Break(t) \/ SaveDone(t) \/
            CutSave(t) \/ Finish(t)
    BY <2>1 DEF Start, BackfillDone, Break, SaveDone, CutSave, Finish, Step,
       CountTypes, HistoryTypes
  <2>2. CASE LoadCache(t) \/ LoadCacheFails(t) \/ LoadRow(t) \/
            LoadRowFails(t)
    BY <2>2 DEF LoadCache, LoadCacheFails, LoadRow, LoadRowFails, Step,
       Loaded, CountTypes, HistoryTypes
  <2>3. CASE Replay(t) \/ Compose(t) \/ ComposeTrimmed(t) \/ ToolsDone(t) \/
            Answer(t) \/ BreakEarly(t)
    BY <2>3 DEF Replay, Compose, ComposeTrimmed, ToolsDone, Answer,
       BreakEarly, Step, Speak, CountTypes, HistoryTypes
  <2>4. CASE CallTools(t)
    <3>1. scene.rounds \in Nat
      BY TurnsAndDeletions DEF HistoryTypes, RowTypes, SceneType
    <3>2. /\ rounds[t] \in Nat /\ rounds[t] + 1 <= scene.rounds
          /\ rounds' = [rounds EXCEPT ![t] = rounds[t] + 1] /\ UNCHANGED <<base, log, scene>>
      BY <2>4, <3>1 DEF CallTools, HistoryTypes, CountTypes
    <3> QED
      BY <3>1, <3>2 DEF CountTypes, HistoryTypes
  <2>5. CASE AppendRead(t)
    <3>1. Len(log) \in Nat
      BY DEF HistoryTypes, MessageTypes
    <3> QED
      BY <2>5, <3>1 DEF AppendRead, CountTypes, HistoryTypes
  <2>6. CASE AppendCommit(t)
    <3>1. log' \in Seq(Message) /\ Len(log) <= Len(log')
      BY <2>6, AppendCommitMakes DEF HistoryTypes
    <3>2. Len(log) \in Nat /\ Len(log') \in Nat
      BY <3>1 DEF HistoryTypes, MessageTypes
    <3>3. UNCHANGED <<rounds, base, scene>>
      BY <2>6 DEF AppendCommit
    <3> QED
      BY <3>1, <3>2, <3>3 DEF CountTypes, HistoryTypes
  <2>7. CASE AppendFails(t)
    BY <2>7 DEF AppendFails, AfterAppend, CountTypes, HistoryTypes
  <2> QED
    BY <1>1, <2>1, <2>2, <2>3, <2>4, <2>5, <2>6, <2>7 DEF TurnStep
<1>2. ASSUME NEW w \in Writers, WriterStep(w)
      PROVE  CountTypes'
  <2>1. CASE WriteCache(w) \/ WriteCacheFails(w) \/ WriteRow(w) \/
            WriteRowFails(w)
    BY <2>1 DEF WriteCache, WriteCacheFails, WriteRow, WriteRowFails,
       WriteStep, CountTypes, HistoryTypes
  <2> QED
    BY <1>2, <2>1 DEF WriterStep
<1>3. ASSUME NEW d \in Deletions, NEW t \in Turns, DeleteUser(d, t) \/ DeleteAnswer(d, t)
      PROVE  CountTypes'
  <2>1. CASE DeleteUser(d, t) \/ DeleteAnswer(d, t)
    BY <2>1 DEF DeleteUser, DeleteAnswer, DeleteStep, CountTypes, HistoryTypes
  <2> QED
    BY <1>3, <2>1
<1>4. ASSUME NEW d \in Deletions, DeletionStep(d),
             ~(\E t \in Turns : DeleteUser(d, t) \/ DeleteAnswer(d, t))
      PROVE  CountTypes'
  <2>1. CASE Rebuild(d) \/ DeleteDone(d) \/ WipeCache(d) \/ WipeRow(d) \/
            WipeRuns(d)
    BY <2>1 DEF Rebuild, DeleteDone, WipeCache, WipeRow, WipeRuns, DeleteStep,
       CountTypes, HistoryTypes
  <2> QED
    BY <1>4, <2>1 DEF DeletionStep
<1>5. CASE Expire
  BY <1>5 DEF Expire, CountTypes, HistoryTypes
<1>6. ASSUME NEW p \in Processes, Restart(p)
      PROVE  CountTypes'
  BY <1>6 DEF Restart, CountTypes, HistoryTypes
<1>7. CASE UNCHANGED vars
  BY <1>7 DEF vars, CountTypes, HistoryTypes
<1> QED
  BY <1>1, <1>2, <1>3, <1>4, <1>5, <1>6, <1>7 DEF Next, DeletionStep

(* The sets of turns and of parts keep their types. *)
LEMMA SetTypesKept ==
  ASSUME HistoryTypes, [Next]_vars
  PROVE  SetTypes'
<1> USE DEF rowVars, copies, turnVars, writeVars, deleteVars, historyVars, bounds
<1>1. ASSUME NEW t \in Turns, TurnStep(t)
      PROVE  SetTypes'
  <2>1. CASE Start(t) \/ BackfillDone(t) \/ Break(t) \/ SaveDone(t) \/
            CutSave(t) \/ Finish(t)
    BY <2>1 DEF Start, BackfillDone, Break, SaveDone, CutSave, Finish, Step,
       SetTypes, HistoryTypes
  <2>2. CASE LoadCache(t) \/ LoadCacheFails(t) \/ LoadRow(t) \/
            LoadRowFails(t)
    BY <2>2 DEF LoadCache, LoadCacheFails, LoadRow, LoadRowFails, Step,
       Loaded, SetTypes, HistoryTypes
  <2>3. CASE Compose(t) \/ ComposeTrimmed(t) \/ ToolsDone(t) \/ CallTools(t)
            \/ Answer(t) \/ BreakEarly(t)
    BY <2>3 DEF Compose, ComposeTrimmed, ToolsDone, CallTools, Answer,
       BreakEarly, Step, Speak, SetTypes, HistoryTypes
  <2>4. CASE AppendRead(t) \/ AppendCommit(t) \/ AppendFails(t)
    BY <2>4 DEF AppendRead, AppendCommit, AppendFails, AfterAppend, SetTypes,
       HistoryTypes
  <2>5. CASE Replay(t)
    BY <2>5 DEF Replay, Step, SetTypes, HistoryTypes
  <2> QED
    BY <1>1, <2>1, <2>2, <2>3, <2>4, <2>5 DEF TurnStep
<1>2. ASSUME NEW w \in Writers, WriterStep(w)
      PROVE  SetTypes'
  <2>1. CASE WriteCache(w) \/ WriteCacheFails(w) \/ WriteRow(w) \/
            WriteRowFails(w)
    BY <2>1 DEF WriteCache, WriteCacheFails, WriteRow, WriteRowFails,
       WriteStep, SetTypes, HistoryTypes
  <2> QED
    BY <1>2, <2>1 DEF WriterStep
<1>3. ASSUME NEW d \in Deletions, NEW t \in Turns, DeleteUser(d, t) \/ DeleteAnswer(d, t)
      PROVE  SetTypes'
  <2>1. CASE DeleteUser(d, t)
    <3>1. {<<t, "user">>, <<t, "answer">>} \in SUBSET Parts
      BY DEF Parts
    <3> QED
      BY <2>1, <3>1 DEF DeleteUser, SetTypes, HistoryTypes
  <2>2. CASE DeleteAnswer(d, t)
    <3>1. {<<t, "answer">>} \in SUBSET Parts
      BY DEF Parts
    <3> QED
      BY <2>2, <3>1 DEF DeleteAnswer, SetTypes, HistoryTypes
  <2> QED
    BY <1>3, <2>1, <2>2
<1>4. ASSUME NEW d \in Deletions, DeletionStep(d),
             ~(\E t \in Turns : DeleteUser(d, t) \/ DeleteAnswer(d, t))
      PROVE  SetTypes'
  <2>1. CASE Rebuild(d) \/ DeleteDone(d) \/ WipeCache(d) \/ WipeRow(d) \/
            WipeRuns(d)
    BY <2>1 DEF Rebuild, DeleteDone, WipeCache, WipeRow, WipeRuns, DeleteStep,
       SetTypes, HistoryTypes
  <2> QED
    BY <1>4, <2>1 DEF DeletionStep
<1>5. CASE Expire
  BY <1>5 DEF Expire, SetTypes, HistoryTypes
<1>6. ASSUME NEW p \in Processes, Restart(p)
      PROVE  SetTypes'
  BY <1>6 DEF Restart, SetTypes, HistoryTypes
<1>7. CASE UNCHANGED vars
  BY <1>7 DEF vars, SetTypes, HistoryTypes
<1> QED
  BY <1>1, <1>2, <1>3, <1>4, <1>5, <1>6, <1>7 DEF Next, DeletionStep

(* Every list of messages stays one. *)
LEMMA MessageTypesKept ==
  ASSUME HistoryTypes, [Next]_vars
  PROVE  MessageTypes'
<1> USE DEF rowVars, copies, turnVars, writeVars, deleteVars, historyVars, bounds
<1>1. ASSUME NEW t \in Turns, TurnStep(t)
      PROVE  MessageTypes'
  <2>1. CASE Start(t) \/ BackfillDone(t) \/ Break(t) \/ SaveDone(t) \/
            CutSave(t) \/ Finish(t)
    BY <2>1 DEF Start, BackfillDone, Break, SaveDone, CutSave, Finish, Step,
       MessageTypes, HistoryTypes
  <2>2. CASE LoadCache(t)
    <3>1. UNCHANGED mem \/ (cache # NoCopy /\ mem' = [mem EXCEPT ![t] = cache])
      BY <2>2 DEF LoadCache, Loaded
    <3> QED
      BY <2>2, <3>1 DEF LoadCache, MessageTypes, HistoryTypes
  <2>3. CASE LoadCacheFails(t)
    BY <2>3 DEF LoadCacheFails, Step, MessageTypes, HistoryTypes
  <2>4. CASE LoadRow(t)
    <3>1. Held(short) \in Seq(Message)
      BY HeldIn DEF HistoryTypes, MessageTypes
    <3> QED
      BY <2>4, <3>1 DEF LoadRow, Loaded, MessageTypes, HistoryTypes
  <2>5. CASE LoadRowFails(t)
    <3>1. <<>> \in Seq(Message)
      OBVIOUS
    <3> QED
      BY <2>5, <3>1 DEF LoadRowFails, Loaded, MessageTypes, HistoryTypes
  <2>6. CASE Replay(t)
    <3>1. mem' = [mem EXCEPT ![t] = mem'[t]] /\ mem'[t] \in Seq(Message)
      BY <2>6, ReplayMakes DEF HistoryTypes
    <3>2. wlist' = wlist \/ wlist' = [wlist EXCEPT ![t] = mem'[t]]
      BY <2>6, ReplayMakes DEF HistoryTypes
    <3>3. UNCHANGED <<log, short, cache>>
      BY <2>6 DEF Replay
    <3> QED
      BY <3>1, <3>2, <3>3 DEF MessageTypes, HistoryTypes
  <2>7. CASE Compose(t)
    <3>1. mem' = [mem EXCEPT ![t] = mem'[t]] /\ mem'[t] \in Seq(Message)
      BY <2>7, ComposeMakes DEF HistoryTypes
    <3> QED
      BY <2>7, <3>1 DEF Compose, MessageTypes, HistoryTypes
  <2>8. CASE ComposeTrimmed(t)
    <3>1. mem' = [mem EXCEPT ![t] = mem'[t]] /\ mem'[t] \in Seq(Message)
      BY <2>8, ComposeTrimmedMakes DEF HistoryTypes
    <3> QED
      BY <2>8, <3>1 DEF ComposeTrimmed, MessageTypes, HistoryTypes
  <2>9. CASE CallTools(t)
    <3>1. (IF scene.skill THEN "skillCalls" ELSE "calls") \in Kinds /\ {} \in SUBSET Parts /\ ((IF scene.skill THEN "skillCalls" ELSE "calls") \in {"calls", "results"} => {} = {})
      BY PartsOf DEF Kinds
    <3>2. Speak(t, "talk", "tools", (IF scene.skill THEN "skillCalls" ELSE "calls"), {})
      BY <2>9 DEF CallTools
    <3>3. mem' = [mem EXCEPT ![t] = mem'[t]] /\ mem'[t] \in Seq(Message)
      BY <3>1, <3>2, SpeakMakes DEF HistoryTypes
    <3> QED
      BY <2>9, <3>3 DEF CallTools, MessageTypes, HistoryTypes
  <2>10. CASE ToolsDone(t)
    <3>1. "results" \in Kinds /\ {} \in SUBSET Parts /\ ("results" \in {"calls", "results"} => {} = {})
      BY PartsOf DEF Kinds
    <3>2. Speak(t, "tools", "talk", "results", {})
      BY <2>10 DEF ToolsDone
    <3>3. mem' = [mem EXCEPT ![t] = mem'[t]] /\ mem'[t] \in Seq(Message)
      BY <3>1, <3>2, SpeakMakes DEF HistoryTypes
    <3> QED
      BY <2>10, <3>3 DEF ToolsDone, MessageTypes, HistoryTypes
  <2>11. CASE Answer(t)
    <3>1. "assistant" \in Kinds /\ {<<t, "answer">>} \in SUBSET Parts /\ ("assistant" \in {"calls", "results"} => {<<t, "answer">>} = {})
      BY PartsOf DEF Kinds
    <3>2. Speak(t, "talk", "saving", "assistant", {<<t, "answer">>})
      BY <2>11 DEF Answer
    <3>3. mem' = [mem EXCEPT ![t] = mem'[t]] /\ mem'[t] \in Seq(Message)
      BY <3>1, <3>2, SpeakMakes DEF HistoryTypes
    <3> QED
      BY <2>11, <3>3 DEF Answer, MessageTypes, HistoryTypes
  <2>12. CASE BreakEarly(t)
    <3>1. <<>> \in Seq(Message)
      OBVIOUS
    <3> QED
      BY <2>12, <3>1 DEF BreakEarly, MessageTypes, HistoryTypes
  <2>13. CASE AppendRead(t)
    BY <2>13 DEF AppendRead, MessageTypes, HistoryTypes
  <2>14. CASE AppendCommit(t)
    <3>1. AfterAppend(t) /\ UNCHANGED <<short, cache, mem>>
      BY <2>14 DEF AppendCommit
    <3>2. log' \in Seq(Message)
      BY <2>14, AppendCommitMakes DEF HistoryTypes
    <3>3. CASE pc[t] = "saving"
      <4>1. wlist' = [wlist EXCEPT ![t] = wlist'[t]] /\ wlist'[t] \in Seq(Message)
        BY <3>1, <3>3, AfterAppendMakes DEF HistoryTypes
      <4> QED
        BY <3>1, <3>2, <4>1 DEF MessageTypes, HistoryTypes
    <3>4. CASE pc[t] # "saving"
      <4>1. wlist' = wlist
        BY <3>1, <3>4 DEF AfterAppend
      <4> QED
        BY <3>1, <3>2, <4>1 DEF MessageTypes, HistoryTypes
    <3> QED
      BY <3>3, <3>4
  <2>15. CASE AppendFails(t)
    <3>1. AfterAppend(t) /\ UNCHANGED <<short, cache, mem>>
      BY <2>15 DEF AppendFails
    <3>2. log' \in Seq(Message)
      BY <2>15 DEF AppendFails, HistoryTypes, MessageTypes
    <3>3. CASE pc[t] = "saving"
      <4>1. wlist' = [wlist EXCEPT ![t] = wlist'[t]] /\ wlist'[t] \in Seq(Message)
        BY <3>1, <3>3, AfterAppendMakes DEF HistoryTypes
      <4> QED
        BY <3>1, <3>2, <4>1 DEF MessageTypes, HistoryTypes
    <3>4. CASE pc[t] # "saving"
      <4>1. wlist' = wlist
        BY <3>1, <3>4 DEF AfterAppend
      <4> QED
        BY <3>1, <3>2, <4>1 DEF MessageTypes, HistoryTypes
    <3> QED
      BY <3>3, <3>4
  <2> QED
    BY <1>1, <2>1, <2>2, <2>3, <2>4, <2>5, <2>6, <2>7, <2>8, <2>9, <2>10,
       <2>11, <2>12, <2>13, <2>14, <2>15 DEF TurnStep
<1>2. ASSUME NEW w \in Writers, WriterStep(w)
      PROVE  MessageTypes'
  <2>1. CASE WriteCache(w) \/ WriteCacheFails(w) \/ WriteRow(w) \/
            WriteRowFails(w)
    BY <2>1 DEF WriteCache, WriteCacheFails, WriteRow, WriteRowFails,
       WriteStep, MessageTypes, HistoryTypes
  <2> QED
    BY <1>2, <2>1 DEF WriterStep
<1>3. ASSUME NEW d \in Deletions, NEW t \in Turns, DeleteUser(d, t) \/ DeleteAnswer(d, t)
      PROVE  MessageTypes'
  <2>1. CASE DeleteUser(d, t) \/ DeleteAnswer(d, t)
    BY <2>1 DEF DeleteUser, DeleteAnswer, DeleteStep, MessageTypes,
       HistoryTypes
  <2> QED
    BY <1>3, <2>1
<1>4. ASSUME NEW d \in Deletions, DeletionStep(d),
             ~(\E t \in Turns : DeleteUser(d, t) \/ DeleteAnswer(d, t))
      PROVE  MessageTypes'
  <2>1. CASE DeleteDone(d) \/ WipeCache(d) \/ WipeRow(d) \/ WipeRuns(d)
    BY <2>1 DEF DeleteDone, WipeCache, WipeRow, WipeRuns, DeleteStep,
       MessageTypes, HistoryTypes
  <2>2. CASE Rebuild(d)
    <3>1. wlist' = [wlist EXCEPT ![d] = wlist'[d]] /\ wlist'[d] \in Seq(Message)
      BY <2>2, RebuildMakes DEF HistoryTypes
    <3> QED
      BY <2>2, <3>1 DEF Rebuild, MessageTypes, HistoryTypes
  <2> QED
    BY <1>4, <2>1, <2>2 DEF DeletionStep
<1>5. CASE Expire
  BY <1>5 DEF Expire, MessageTypes, HistoryTypes
<1>6. ASSUME NEW p \in Processes, Restart(p)
      PROVE  MessageTypes'
  BY <1>6 DEF Restart, MessageTypes, HistoryTypes
<1>7. CASE UNCHANGED vars
  BY <1>7 DEF vars, MessageTypes, HistoryTypes
<1> QED
  BY <1>1, <1>2, <1>3, <1>4, <1>5, <1>6, <1>7 DEF Next, DeletionStep

(* The messages of the conversation, wherever they are. *)
AllOf(l, s, c, m, w) ==
  Elements(l) \union Elements(Held(s)) \union Elements(Held(c))
    \union (UNION {Elements(m[t]) : t \in Turns})
    \union (UNION {Elements(w[x]) : x \in Writers})

Everywhere == AllOf(log, short, cache, mem, wlist)

(* An id up to n names one message, and tool calls and results say nothing. *)
WellKept(E, n) ==
  /\ \A m \in E : m.id <= n /\ (m.kind \in {"calls", "results"} => m.says = {})
  /\ \A m, x \in E : m.id = x.id => m.says = x.says

MessagesKept == WellKept(Everywhere, nextId)

(* Neither a copy nor what is written to one holds a tool call or its
   result. *)
PlainCopies == Plain(Held(short)) /\ Plain(Held(cache)) /\ \A w \in Writers : Plain(wlist[w])

(* Every list is part of Everywhere. *)
LEMMA AllHas ==
  /\ Elements(log) \subseteq Everywhere
  /\ Elements(Held(short)) \subseteq Everywhere
  /\ Elements(Held(cache)) \subseteq Everywhere
  /\ \A t \in Turns : Elements(mem[t]) \subseteq Everywhere
  /\ \A x \in Writers : Elements(wlist[x]) \subseteq Everywhere
BY DEF Everywhere, AllOf

(* What all lists are part of has every message there is. *)
LEMMA AllIn ==
  ASSUME NEW l, NEW s, NEW c, NEW m, NEW w, NEW E,
         Elements(l) \subseteq E, Elements(Held(s)) \subseteq E, Elements(Held(c)) \subseteq E,
         \A t \in Turns : Elements(m[t]) \subseteq E,
         \A x \in Writers : Elements(w[x]) \subseteq E
  PROVE  \A e \in AllOf(l, s, c, m, w) : e \in E
BY DEF AllOf

(* Where the messages of the next state are from. *)
LEMMA MemoryGrows ==
  ASSUME HistoryTypes, NEW t \in Turns, UNCHANGED <<log, short, cache, wlist>>,
         mem' = [mem EXCEPT ![t] = mem'[t]]
  PROVE  Everywhere' \subseteq Everywhere \union Elements(mem'[t])
<1> DEFINE E == Everywhere \union Elements(mem'[t])
<1>1. /\ Elements(log') \subseteq E
      /\ Elements(Held(short')) \subseteq E /\ Elements(Held(cache')) \subseteq E
      /\ \A u \in Turns : Elements(mem'[u]) \subseteq E
      /\ \A x \in Writers : Elements(wlist'[x]) \subseteq E
  BY AllHas DEF HistoryTypes, MessageTypes
<1> HIDE DEF E
<1>2. \A e \in Everywhere' : e \in E
  BY <1>1, AllIn DEF Everywhere
<1> QED
  BY <1>2 DEF E

(* The same when a writer has a new list to write. *)
LEMMA ListGrows ==
  ASSUME HistoryTypes, NEW w \in Writers, UNCHANGED <<short, cache, mem>>,
         Elements(log') \subseteq Everywhere, wlist' = [wlist EXCEPT ![w] = wlist'[w]]
  PROVE  Everywhere' \subseteq Everywhere \union Elements(wlist'[w])
<1> DEFINE E == Everywhere \union Elements(wlist'[w])
<1>1. /\ Elements(log') \subseteq E
      /\ Elements(Held(short')) \subseteq E /\ Elements(Held(cache')) \subseteq E
      /\ \A u \in Turns : Elements(mem'[u]) \subseteq E
      /\ \A x \in Writers : Elements(wlist'[x]) \subseteq E
  BY AllHas DEF HistoryTypes, MessageTypes
<1> HIDE DEF E
<1>2. \A e \in Everywhere' : e \in E
  BY <1>1, AllIn DEF Everywhere
<1> QED
  BY <1>2 DEF E

(* The same when messages only move or go. *)
LEMMA NothingGrows ==
  ASSUME Elements(log') \subseteq Everywhere,
         Elements(Held(short')) \subseteq Everywhere, Elements(Held(cache')) \subseteq Everywhere,
         \A u \in Turns : Elements(mem'[u]) \subseteq Everywhere,
         \A x \in Writers : Elements(wlist'[x]) \subseteq Everywhere
  PROVE  Everywhere' \subseteq Everywhere
<1> DEFINE E == Everywhere
<1>1. /\ Elements(log') \subseteq E
      /\ Elements(Held(short')) \subseteq E /\ Elements(Held(cache')) \subseteq E
      /\ \A u \in Turns : Elements(mem'[u]) \subseteq E
      /\ \A x \in Writers : Elements(wlist'[x]) \subseteq E
  OBVIOUS
<1> HIDE DEF E
<1>2. \A e \in Everywhere' : e \in E
  BY <1>1, AllIn DEF Everywhere
<1> QED
  BY <1>2 DEF E

(* New messages under fresh ids leave the messages well kept. *)
LEMMA Grown ==
  ASSUME NEW E \in SUBSET Message, NEW E2, NEW F \in SUBSET Message, NEW old,
         NEW lo \in Nat, NEW hi \in Nat,
         lo <= hi, WellKept(E, lo), Adds(F, old, lo, hi), old \subseteq E, E2 \subseteq E \union F
  PROVE  WellKept(E2, hi)
<1>1. \A m \in E \union F : m.id \in Nat
  BY MessageParts
<1>2. \A m \in E : m.id <= lo
  BY DEF WellKept
<1>3. \A m \in F : m \in E \/ (m.id \in (lo + 1)..hi /\ m \in F \ old)
  BY DEF Adds
<1>4. ASSUME NEW m \in E2
      PROVE  m.id <= hi /\ (m.kind \in {"calls", "results"} => m.says = {})
  <2>1. CASE m \in E
    BY <1>1, <1>2, <2>1 DEF WellKept
  <2>2. CASE m \in F \ E
    BY <1>3, <2>2 DEF Adds
  <2> QED
    BY <2>1, <2>2
<1>5. ASSUME NEW m \in E2, NEW x \in E2, m.id = x.id
      PROVE  m.says = x.says
  <2>1. CASE m \in E /\ x \in E
    BY <1>5, <2>1 DEF WellKept
  <2>2. CASE m \notin E /\ x \notin E
    BY <1>3, <1>5, <2>2 DEF Adds
  <2>3. CASE m \in E /\ x \notin E
    <3>1. m.id <= lo /\ x.id >= lo + 1 /\ m.id \in Nat
      BY <1>1, <1>2, <1>3, <2>3
    <3> QED
      BY <1>5, <3>1
  <2>4. CASE m \notin E /\ x \in E
    <3>1. x.id <= lo /\ m.id >= lo + 1 /\ x.id \in Nat
      BY <1>1, <1>2, <1>3, <2>4
    <3> QED
      BY <1>5, <3>1
  <2> QED
    BY <2>1, <2>2, <2>3, <2>4
<1> QED
  BY <1>4, <1>5 DEF WellKept

(* Everything there is is a message. *)
LEMMA EverywhereIn ==
  ASSUME MessageTypes
  PROVE  Everywhere \subseteq Message
<1>1. /\ Held(short) \in Seq(Message) /\ Held(cache) \in Seq(Message)
      /\ log \in Seq(Message)
      /\ \A t \in Turns : mem[t] \in Seq(Message)
      /\ \A x \in Writers : wlist[x] \in Seq(Message)
  BY HeldIn DEF MessageTypes
<1>2. \A s \in Seq(Message) : Elements(s) \subseteq Message
  BY ElementsIn
<1> DEFINE E == Message
<1>3. /\ Elements(log) \subseteq E
      /\ Elements(Held(short)) \subseteq E /\ Elements(Held(cache)) \subseteq E
      /\ \A t \in Turns : Elements(mem[t]) \subseteq E
      /\ \A x \in Writers : Elements(wlist[x]) \subseteq E
  BY <1>1, <1>2
<1> HIDE DEF E
<1>4. \A e \in Everywhere : e \in E
  BY <1>3, AllIn DEF Everywhere
<1> QED
  BY <1>4 DEF E

(* Every step leaves the messages well kept. *)
LEMMA MessagesKeptKept ==
  ASSUME HistoryTypes, MessagesKept, [Next]_vars
  PROVE  MessagesKept'
<1> USE DEF rowVars, copies, turnVars, writeVars, deleteVars, historyVars, bounds
<1>1. ASSUME NEW t \in Turns, TurnStep(t)
      PROVE  MessagesKept'
  <2>1. CASE Start(t) \/ BackfillDone(t) \/ Break(t) \/ SaveDone(t) \/
            CutSave(t) \/ Finish(t) \/ AppendRead(t) \/ LoadCacheFails(t)
    <3>1. UNCHANGED <<messages, nextId>>
      BY <2>1 DEF messages, Start, BackfillDone, Break, SaveDone, CutSave, Finish,
         AppendRead, LoadCacheFails, Step
    <3>2. Everywhere' = Everywhere
      BY <3>1 DEF Everywhere, messages
    <3> QED
      BY <3>1, <3>2 DEF MessagesKept
  <2>2. CASE LoadCache(t)
    <3>1. UNCHANGED nextId /\ Everywhere' \subseteq Everywhere
      <4>1. UNCHANGED <<nextId, log, short, cache, wlist>>
        BY <2>2 DEF LoadCache
      <4>2. UNCHANGED mem \/ \E list \in {Held(short), Held(cache), <<>>} : mem' = [mem EXCEPT ![t] = list]
        BY <2>2, HeldIn DEF LoadCache, Loaded, Held
      <4>3. \A u \in Turns : Elements(mem'[u]) \subseteq Everywhere
        BY <4>2, AllHas, NothingSaid DEF HistoryTypes, MessageTypes
      <4>4. /\ Elements(log') \subseteq Everywhere
            /\ Elements(Held(short')) \subseteq Everywhere /\ Elements(Held(cache')) \subseteq Everywhere
            /\ \A x \in Writers : Elements(wlist'[x]) \subseteq Everywhere
        BY <4>1, AllHas
      <4> QED
        BY <4>1, <4>3, <4>4, NothingGrows
    <3> QED
      BY <3>1 DEF MessagesKept, WellKept
  <2>3. CASE LoadRow(t)
    <3>1. UNCHANGED nextId /\ Everywhere' \subseteq Everywhere
      <4>1. UNCHANGED <<nextId, log, short, cache, wlist>>
        BY <2>3 DEF LoadRow
      <4>2. UNCHANGED mem \/ \E list \in {Held(short), Held(cache), <<>>} : mem' = [mem EXCEPT ![t] = list]
        BY <2>3, HeldIn DEF LoadRow, Loaded, Held
      <4>3. \A u \in Turns : Elements(mem'[u]) \subseteq Everywhere
        BY <4>2, AllHas, NothingSaid DEF HistoryTypes, MessageTypes
      <4>4. /\ Elements(log') \subseteq Everywhere
            /\ Elements(Held(short')) \subseteq Everywhere /\ Elements(Held(cache')) \subseteq Everywhere
            /\ \A x \in Writers : Elements(wlist'[x]) \subseteq Everywhere
        BY <4>1, AllHas
      <4> QED
        BY <4>1, <4>3, <4>4, NothingGrows
    <3> QED
      BY <3>1 DEF MessagesKept, WellKept
  <2>4. CASE LoadRowFails(t)
    <3>1. UNCHANGED nextId /\ Everywhere' \subseteq Everywhere
      <4>1. UNCHANGED <<nextId, log, short, cache, wlist>>
        BY <2>4 DEF LoadRowFails
      <4>2. UNCHANGED mem \/ \E list \in {Held(short), Held(cache), <<>>} : mem' = [mem EXCEPT ![t] = list]
        BY <2>4, HeldIn DEF LoadRowFails, Loaded, Held
      <4>3. \A u \in Turns : Elements(mem'[u]) \subseteq Everywhere
        BY <4>2, AllHas, NothingSaid DEF HistoryTypes, MessageTypes
      <4>4. /\ Elements(log') \subseteq Everywhere
            /\ Elements(Held(short')) \subseteq Everywhere /\ Elements(Held(cache')) \subseteq Everywhere
            /\ \A x \in Writers : Elements(wlist'[x]) \subseteq Everywhere
        BY <4>1, AllHas
      <4> QED
        BY <4>1, <4>3, <4>4, NothingGrows
    <3> QED
      BY <3>1 DEF MessagesKept, WellKept
  <2>5. CASE Replay(t)
    <3>1. /\ mem' = [mem EXCEPT ![t] = mem'[t]] /\ mem'[t] \in Seq(Message)
          /\ UNCHANGED <<log, short, cache>>
          /\ log = <<>> => mem'[t] = <<>> /\ UNCHANGED <<nextId, wlist>>
          /\ log # <<>> => wlist' = [wlist EXCEPT ![t] = mem'[t]]
                           /\ nextId' = nextId + 2 * Len(log)
      BY <2>5, ReplayMakes DEF Replay, HistoryTypes
    <3>2. Silent(log)
      BY AllHas DEF MessagesKept, WellKept, Silent
    <3>3. Adds(Elements(mem'[t]), {}, nextId, nextId + 2 * Len(log))
      BY <2>5, <3>2, ReplayAdds DEF HistoryTypes
    <3>4. nextId' = nextId + 2 * Len(log) /\ Len(log) \in Nat
      <4>1. log = <<>> => Len(log) = 0
        OBVIOUS
      <4>2. nextId \in Nat /\ Len(log) \in Nat
        BY DEF HistoryTypes, RowTypes, MessageTypes
      <4> QED
        BY <3>1, <4>1, <4>2
    <3>5. Everywhere' \subseteq Everywhere \union Elements(mem'[t])
      <4> DEFINE E == Everywhere \union Elements(mem'[t])
      <4>1. /\ Elements(log') \subseteq E
            /\ Elements(Held(short')) \subseteq E /\ Elements(Held(cache')) \subseteq E
            /\ \A u \in Turns : Elements(mem'[u]) \subseteq E
        BY <3>1, AllHas DEF HistoryTypes, MessageTypes
      <4>2. \A x \in Writers : Elements(wlist'[x]) \subseteq E
        BY <3>1, AllHas DEF HistoryTypes, MessageTypes
      <4> HIDE DEF E
      <4>3. \A e \in Everywhere' : e \in E
        BY <4>1, <4>2, AllIn DEF Everywhere
      <4> QED
        BY <4>3 DEF E
    <3>6. Elements(mem'[t]) \in SUBSET Message
      BY <3>1, ElementsIn
    <3>7. nextId \in Nat /\ nextId' \in Nat /\ nextId <= nextId'
      BY <3>4 DEF HistoryTypes, RowTypes
    <3> QED
      BY <3>3, <3>4, <3>5, <3>6, <3>7, EverywhereIn, Grown DEF MessagesKept, HistoryTypes
  <2>6. CASE Compose(t)
    <3>1. /\ mem' = [mem EXCEPT ![t] = mem'[t]] /\ mem'[t] \in Seq(Message)
          /\ nextId' = nextId + 2 /\ UNCHANGED <<log, short, cache, wlist>>
          /\ Adds(Elements(mem'[t]), Elements(mem[t]), nextId, nextId + 2)
      BY <2>6, ComposeMakes DEF Compose, HistoryTypes
    <3>2. Everywhere' \subseteq Everywhere \union Elements(mem'[t])
      BY <3>1, MemoryGrows
    <3>3. Elements(mem'[t]) \in SUBSET Message
      BY <3>1, ElementsIn
    <3>4. nextId \in Nat /\ nextId' \in Nat /\ nextId <= nextId'
      BY <3>1 DEF HistoryTypes, RowTypes
    <3> QED
      BY <3>1, <3>2, <3>3, <3>4, EverywhereIn, Grown, AllHas DEF MessagesKept, HistoryTypes
  <2>7. CASE ComposeTrimmed(t)
    <3>1. /\ mem' = [mem EXCEPT ![t] = mem'[t]] /\ mem'[t] \in Seq(Message)
          /\ nextId' = nextId + 1 /\ UNCHANGED <<log, short, cache, wlist>>
          /\ Adds(Elements(mem'[t]), Elements(mem[t]), nextId, nextId + 1)
      BY <2>7, ComposeTrimmedMakes DEF ComposeTrimmed, HistoryTypes
    <3>2. Everywhere' \subseteq Everywhere \union Elements(mem'[t])
      BY <3>1, MemoryGrows
    <3>3. Elements(mem'[t]) \in SUBSET Message
      BY <3>1, ElementsIn
    <3>4. nextId \in Nat /\ nextId' \in Nat /\ nextId <= nextId'
      BY <3>1 DEF HistoryTypes, RowTypes
    <3> QED
      BY <3>1, <3>2, <3>3, <3>4, EverywhereIn, Grown, AllHas DEF MessagesKept, HistoryTypes
  <2>8. CASE CallTools(t)
    <3>1. /\ mem' = [mem EXCEPT ![t] = mem'[t]] /\ mem'[t] \in Seq(Message)
          /\ nextId' = nextId + 1 /\ UNCHANGED <<log, short, cache, wlist>>
          /\ Adds(Elements(mem'[t]), Elements(mem[t]), nextId, nextId + 1)
      <4>1. (IF scene.skill THEN "skillCalls" ELSE "calls") \in Kinds /\ {} \in SUBSET Parts /\ ((IF scene.skill THEN "skillCalls" ELSE "calls") \in {"calls", "results"} => {} = {})
        BY PartsOf DEF Kinds
      <4>2. Speak(t, "talk", "tools", (IF scene.skill THEN "skillCalls" ELSE "calls"), {}) /\ UNCHANGED <<log, short, cache, wlist>>
        BY <2>8 DEF CallTools
      <4> QED
        BY <4>1, <4>2, SpeakMakes DEF HistoryTypes
    <3>2. Everywhere' \subseteq Everywhere \union Elements(mem'[t])
      BY <3>1, MemoryGrows
    <3>3. Elements(mem'[t]) \in SUBSET Message
      BY <3>1, ElementsIn
    <3>4. nextId \in Nat /\ nextId' \in Nat /\ nextId <= nextId'
      BY <3>1 DEF HistoryTypes, RowTypes
    <3> QED
      BY <3>1, <3>2, <3>3, <3>4, EverywhereIn, Grown, AllHas DEF MessagesKept, HistoryTypes
  <2>9. CASE ToolsDone(t)
    <3>1. /\ mem' = [mem EXCEPT ![t] = mem'[t]] /\ mem'[t] \in Seq(Message)
          /\ nextId' = nextId + 1 /\ UNCHANGED <<log, short, cache, wlist>>
          /\ Adds(Elements(mem'[t]), Elements(mem[t]), nextId, nextId + 1)
      <4>1. "results" \in Kinds /\ {} \in SUBSET Parts /\ ("results" \in {"calls", "results"} => {} = {})
        BY PartsOf DEF Kinds
      <4>2. Speak(t, "tools", "talk", "results", {}) /\ UNCHANGED <<log, short, cache, wlist>>
        BY <2>9 DEF ToolsDone
      <4> QED
        BY <4>1, <4>2, SpeakMakes DEF HistoryTypes
    <3>2. Everywhere' \subseteq Everywhere \union Elements(mem'[t])
      BY <3>1, MemoryGrows
    <3>3. Elements(mem'[t]) \in SUBSET Message
      BY <3>1, ElementsIn
    <3>4. nextId \in Nat /\ nextId' \in Nat /\ nextId <= nextId'
      BY <3>1 DEF HistoryTypes, RowTypes
    <3> QED
      BY <3>1, <3>2, <3>3, <3>4, EverywhereIn, Grown, AllHas DEF MessagesKept, HistoryTypes
  <2>10. CASE Answer(t)
    <3>1. /\ mem' = [mem EXCEPT ![t] = mem'[t]] /\ mem'[t] \in Seq(Message)
          /\ nextId' = nextId + 1 /\ UNCHANGED <<log, short, cache, wlist>>
          /\ Adds(Elements(mem'[t]), Elements(mem[t]), nextId, nextId + 1)
      <4>1. "assistant" \in Kinds /\ {<<t, "answer">>} \in SUBSET Parts /\ ("assistant" \in {"calls", "results"} => {<<t, "answer">>} = {})
        BY PartsOf DEF Kinds
      <4>2. Speak(t, "talk", "saving", "assistant", {<<t, "answer">>}) /\ UNCHANGED <<log, short, cache, wlist>>
        BY <2>10 DEF Answer
      <4> QED
        BY <4>1, <4>2, SpeakMakes DEF HistoryTypes
    <3>2. Everywhere' \subseteq Everywhere \union Elements(mem'[t])
      BY <3>1, MemoryGrows
    <3>3. Elements(mem'[t]) \in SUBSET Message
      BY <3>1, ElementsIn
    <3>4. nextId \in Nat /\ nextId' \in Nat /\ nextId <= nextId'
      BY <3>1 DEF HistoryTypes, RowTypes
    <3> QED
      BY <3>1, <3>2, <3>3, <3>4, EverywhereIn, Grown, AllHas DEF MessagesKept, HistoryTypes
  <2>11. CASE BreakEarly(t)
    <3>1. UNCHANGED nextId /\ Everywhere' \subseteq Everywhere
      <4>1. UNCHANGED <<nextId, log, short, cache, wlist>>
        BY <2>11 DEF BreakEarly
      <4>2. UNCHANGED mem \/ \E list \in {Held(short), Held(cache), <<>>} : mem' = [mem EXCEPT ![t] = list]
        BY <2>11, HeldIn DEF BreakEarly, Loaded, Held
      <4>3. \A u \in Turns : Elements(mem'[u]) \subseteq Everywhere
        BY <4>2, AllHas, NothingSaid DEF HistoryTypes, MessageTypes
      <4>4. /\ Elements(log') \subseteq Everywhere
            /\ Elements(Held(short')) \subseteq Everywhere /\ Elements(Held(cache')) \subseteq Everywhere
            /\ \A x \in Writers : Elements(wlist'[x]) \subseteq Everywhere
        BY <4>1, AllHas
      <4> QED
        BY <4>1, <4>3, <4>4, NothingGrows
    <3> QED
      BY <3>1 DEF MessagesKept, WellKept
  <2>12. CASE AppendCommit(t)
    <3>1. AfterAppend(t) /\ UNCHANGED <<short, cache, mem>>
      BY <2>12 DEF AppendCommit
    <3>2. Elements(log') \subseteq Everywhere
      BY <2>12, AppendCommitMakes, AllHas DEF CountTypes, HistoryTypes
    <3>3. CASE pc[t] = "saving"
      <4>1. /\ wlist' = [wlist EXCEPT ![t] = wlist'[t]] /\ wlist'[t] \in Seq(Message)
            /\ nextId' = nextId + Len(mem[t]) /\ Len(mem[t]) \in Nat
            /\ Adds(Elements(wlist'[t]), Elements(mem[t]), nextId, nextId + Len(mem[t]))
        BY <3>1, <3>3, AfterAppendMakes DEF HistoryTypes
      <4>2. Everywhere' \subseteq Everywhere \union Elements(wlist'[t])
        BY <3>1, <3>2, <4>1, TurnsAndDeletions, ListGrows
      <4>3. Elements(wlist'[t]) \in SUBSET Message
        BY <4>1, ElementsIn
      <4>4. nextId \in Nat /\ nextId' \in Nat /\ nextId <= nextId'
        BY <4>1 DEF HistoryTypes, RowTypes
      <4> QED
        BY <4>1, <4>2, <4>3, <4>4, EverywhereIn, Grown, AllHas DEF MessagesKept, HistoryTypes
    <3>4. CASE pc[t] # "saving"
      <4>1. UNCHANGED <<wlist, nextId>>
        BY <3>1, <3>4 DEF AfterAppend
      <4>2. /\ Elements(Held(short')) \subseteq Everywhere /\ Elements(Held(cache')) \subseteq Everywhere
            /\ \A u \in Turns : Elements(mem'[u]) \subseteq Everywhere
            /\ \A x \in Writers : Elements(wlist'[x]) \subseteq Everywhere
        BY <3>1, <4>1, AllHas
      <4>3. Everywhere' \subseteq Everywhere
        BY <3>2, <4>2, NothingGrows
      <4> QED
        BY <4>1, <4>3 DEF MessagesKept, WellKept
    <3> QED
      BY <3>3, <3>4
  <2>13. CASE AppendFails(t)
    <3>1. AfterAppend(t) /\ UNCHANGED <<short, cache, mem>>
      BY <2>13 DEF AppendFails
    <3>2. Elements(log') \subseteq Everywhere
      BY <2>13, AllHas DEF AppendFails, HistoryTypes
    <3>3. CASE pc[t] = "saving"
      <4>1. /\ wlist' = [wlist EXCEPT ![t] = wlist'[t]] /\ wlist'[t] \in Seq(Message)
            /\ nextId' = nextId + Len(mem[t]) /\ Len(mem[t]) \in Nat
            /\ Adds(Elements(wlist'[t]), Elements(mem[t]), nextId, nextId + Len(mem[t]))
        BY <3>1, <3>3, AfterAppendMakes DEF HistoryTypes
      <4>2. Everywhere' \subseteq Everywhere \union Elements(wlist'[t])
        BY <3>1, <3>2, <4>1, TurnsAndDeletions, ListGrows
      <4>3. Elements(wlist'[t]) \in SUBSET Message
        BY <4>1, ElementsIn
      <4>4. nextId \in Nat /\ nextId' \in Nat /\ nextId <= nextId'
        BY <4>1 DEF HistoryTypes, RowTypes
      <4> QED
        BY <4>1, <4>2, <4>3, <4>4, EverywhereIn, Grown, AllHas DEF MessagesKept, HistoryTypes
    <3>4. CASE pc[t] # "saving"
      <4>1. UNCHANGED <<wlist, nextId>>
        BY <3>1, <3>4 DEF AfterAppend
      <4>2. /\ Elements(Held(short')) \subseteq Everywhere /\ Elements(Held(cache')) \subseteq Everywhere
            /\ \A u \in Turns : Elements(mem'[u]) \subseteq Everywhere
            /\ \A x \in Writers : Elements(wlist'[x]) \subseteq Everywhere
        BY <3>1, <4>1, AllHas
      <4>3. Everywhere' \subseteq Everywhere
        BY <3>2, <4>2, NothingGrows
      <4> QED
        BY <4>1, <4>3 DEF MessagesKept, WellKept
    <3> QED
      BY <3>3, <3>4
  <2> QED
    BY <1>1, <2>1, <2>2, <2>3, <2>4, <2>5, <2>6, <2>7, <2>8, <2>9, <2>10,
       <2>11, <2>12, <2>13 DEF TurnStep
<1>2. ASSUME NEW w \in Writers, WriterStep(w)
      PROVE  MessagesKept'
  <2>1. CASE WriteCache(w) \/ WriteCacheFails(w) \/ WriteRow(w)
    <3>1. UNCHANGED nextId /\ Everywhere' \subseteq Everywhere
      <4>1. UNCHANGED <<nextId, log, mem, wlist>>
        BY <2>1 DEF WriteCache, WriteCacheFails, WriteRow, WriteStep
      <4>2. \A copy \in {short', cache'} :
              copy = NoCopy \/ copy \in {short, cache} \/ \E x \in Writers : copy = wlist[x]
        BY <2>1 DEF WriteCache, WriteCacheFails, WriteRow, WriteStep
      <4>3. \A copy \in {short', cache'} : Elements(Held(copy)) \subseteq Everywhere
        <5>1. Elements(Held(NoCopy)) = {}
          BY NothingSaid DEF Held
        <5>2. \A x \in Writers : Held(wlist[x]) = wlist[x]
          BY HeldIn DEF HistoryTypes, MessageTypes
        <5> QED
          BY <4>2, <5>1, <5>2, AllHas
      <4>4. /\ Elements(log') \subseteq Everywhere
            /\ \A u \in Turns : Elements(mem'[u]) \subseteq Everywhere
            /\ \A x \in Writers : Elements(wlist'[x]) \subseteq Everywhere
        BY <4>1, AllHas
      <4> QED
        BY <4>1, <4>3, <4>4, NothingGrows
    <3> QED
      BY <3>1 DEF MessagesKept, WellKept
  <2>2. CASE WriteRowFails(w)
    <3>1. UNCHANGED <<messages, nextId>>
      BY <2>2 DEF messages, WriteRowFails, WriteStep
    <3>2. Everywhere' = Everywhere
      BY <3>1 DEF Everywhere, messages
    <3> QED
      BY <3>1, <3>2 DEF MessagesKept
  <2> QED
    BY <1>2, <2>1, <2>2 DEF WriterStep
<1>3. ASSUME NEW d \in Deletions, NEW t \in Turns, DeleteUser(d, t) \/ DeleteAnswer(d, t)
      PROVE  MessagesKept'
  <2>1. CASE DeleteUser(d, t) \/ DeleteAnswer(d, t)
    <3>1. UNCHANGED <<messages, nextId>>
      BY <2>1 DEF messages, DeleteUser, DeleteAnswer, DeleteStep
    <3>2. Everywhere' = Everywhere
      BY <3>1 DEF Everywhere, messages
    <3> QED
      BY <3>1, <3>2 DEF MessagesKept
  <2> QED
    BY <1>3, <2>1
<1>4. ASSUME NEW d \in Deletions, DeletionStep(d),
             ~(\E t \in Turns : DeleteUser(d, t) \/ DeleteAnswer(d, t))
      PROVE  MessagesKept'
  <2>1. CASE WipeCache(d) \/ WipeRow(d)
    <3>1. UNCHANGED nextId /\ Everywhere' \subseteq Everywhere
      <4>1. UNCHANGED <<nextId, log, mem, wlist>>
        BY <2>1 DEF WipeCache, WipeRow, DeleteStep
      <4>2. \A copy \in {short', cache'} :
              copy = NoCopy \/ copy \in {short, cache} \/ \E x \in Writers : copy = wlist[x]
        BY <2>1 DEF WipeCache, WipeRow, DeleteStep
      <4>3. \A copy \in {short', cache'} : Elements(Held(copy)) \subseteq Everywhere
        <5>1. Elements(Held(NoCopy)) = {}
          BY NothingSaid DEF Held
        <5>2. \A x \in Writers : Held(wlist[x]) = wlist[x]
          BY HeldIn DEF HistoryTypes, MessageTypes
        <5> QED
          BY <4>2, <5>1, <5>2, AllHas
      <4>4. /\ Elements(log') \subseteq Everywhere
            /\ \A u \in Turns : Elements(mem'[u]) \subseteq Everywhere
            /\ \A x \in Writers : Elements(wlist'[x]) \subseteq Everywhere
        BY <4>1, AllHas
      <4> QED
        BY <4>1, <4>3, <4>4, NothingGrows
    <3> QED
      BY <3>1 DEF MessagesKept, WellKept
  <2>2. CASE DeleteDone(d) \/ WipeRuns(d)
    <3>1. UNCHANGED <<messages, nextId>>
      BY <2>2 DEF messages, DeleteDone, WipeRuns, DeleteStep
    <3>2. Everywhere' = Everywhere
      BY <3>1 DEF Everywhere, messages
    <3> QED
      BY <3>1, <3>2 DEF MessagesKept
  <2>3. CASE Rebuild(d)
    <3>1. /\ wlist' = [wlist EXCEPT ![d] = wlist'[d]] /\ wlist'[d] \in Seq(Message)
          /\ nextId' = nextId + 2 * MaxTurns /\ UNCHANGED <<log, short, cache, mem>>
          /\ Adds(Elements(wlist'[d]), {}, nextId, nextId + 2 * MaxTurns)
      BY <2>3, RebuildMakes DEF Rebuild, HistoryTypes
    <3>2. Everywhere' \subseteq Everywhere \union Elements(wlist'[d])
      BY <3>1, AllHas, TurnsAndDeletions, ListGrows
    <3>3. Elements(wlist'[d]) \in SUBSET Message
      BY <3>1, ElementsIn
    <3>4. nextId \in Nat /\ nextId' \in Nat /\ nextId <= nextId'
      BY <3>1, TurnsAndDeletions DEF HistoryTypes, RowTypes
    <3> QED
      BY <3>1, <3>2, <3>3, <3>4, EverywhereIn, Grown DEF MessagesKept, HistoryTypes
  <2> QED
    BY <1>4, <2>1, <2>2, <2>3 DEF DeletionStep
<1>5. CASE Expire
  <2>1. UNCHANGED nextId /\ Everywhere' \subseteq Everywhere
    <3>1. UNCHANGED <<nextId, log, mem, wlist>>
      BY <1>5 DEF Expire
    <3>2. \A copy \in {short', cache'} :
            copy = NoCopy \/ copy \in {short, cache} \/ \E x \in Writers : copy = wlist[x]
      BY <1>5 DEF Expire
    <3>3. \A copy \in {short', cache'} : Elements(Held(copy)) \subseteq Everywhere
      <4>1. Elements(Held(NoCopy)) = {}
        BY NothingSaid DEF Held
      <4>2. \A x \in Writers : Held(wlist[x]) = wlist[x]
        BY HeldIn DEF HistoryTypes, MessageTypes
      <4> QED
        BY <3>2, <4>1, <4>2, AllHas
    <3>4. /\ Elements(log') \subseteq Everywhere
          /\ \A u \in Turns : Elements(mem'[u]) \subseteq Everywhere
          /\ \A x \in Writers : Elements(wlist'[x]) \subseteq Everywhere
      BY <3>1, AllHas
    <3> QED
      BY <3>1, <3>3, <3>4, NothingGrows
  <2> QED
    BY <2>1 DEF MessagesKept, WellKept
<1>6. ASSUME NEW p \in Processes, Restart(p)
      PROVE  MessagesKept'
  <2>1. UNCHANGED <<messages, nextId>>
    BY <1>6 DEF messages, Restart
  <2>2. Everywhere' = Everywhere
    BY <2>1 DEF Everywhere, messages
  <2> QED
    BY <2>1, <2>2 DEF MessagesKept
<1>7. CASE UNCHANGED vars
  <2>1. UNCHANGED <<messages, nextId>>
    BY <1>7 DEF messages, vars
  <2>2. Everywhere' = Everywhere
    BY <2>1 DEF Everywhere, messages
  <2> QED
    BY <2>1, <2>2 DEF MessagesKept
<1> QED
  BY <1>1, <1>2, <1>3, <1>4, <1>5, <1>6, <1>7 DEF Next, DeletionStep

(* What the steps of a kind have in common. *)
LEMMA LoadMakes ==
  ASSUME HistoryTypes, NEW t \in Turns,
         LoadCache(t) \/ LoadRow(t) \/ LoadRowFails(t) \/ BreakEarly(t)
  PROVE  /\ UNCHANGED <<log, short, cache, wlist>>
         /\ \E list \in {Held(short), Held(cache), <<>>, mem[t]} : mem' = [mem EXCEPT ![t] = list]
<1> USE DEF copies, writeVars
<1>1. UNCHANGED mem => mem' = [mem EXCEPT ![t] = mem[t]]
  BY DEF HistoryTypes, MessageTypes
<1>2. CASE LoadCache(t)
  <2>1. cache # NoCopy => Held(cache) = cache
    BY DEF Held
  <2> QED
    BY <1>1, <1>2, <2>1 DEF LoadCache, Loaded
<1>3. CASE LoadRow(t)
  BY <1>3 DEF LoadRow, Loaded
<1>4. CASE LoadRowFails(t)
  BY <1>4 DEF LoadRowFails, Loaded
<1>5. CASE BreakEarly(t)
  BY <1>5 DEF BreakEarly
<1> QED
  BY <1>2, <1>3, <1>4, <1>5

(* A round of tools adds messages that say nothing. *)
LEMMA ToolRoundMakes ==
  ASSUME HistoryTypes, NEW t \in Turns, CallTools(t) \/ ToolsDone(t)
  PROVE  /\ UNCHANGED <<log, short, cache, wlist>>
         /\ mem' = [mem EXCEPT ![t] = mem'[t]] /\ mem'[t] \in Seq(Message)
         /\ Said(mem'[t]) = Said(mem[t])
         /\ nextId' = nextId + 1
         /\ Adds(Elements(mem'[t]), Elements(mem[t]), nextId, nextId + 1)
<1> USE DEF copies, writeVars
<1> DEFINE none == {}
<1>1. none \in SUBSET Parts /\ "calls" \in Kinds /\ "skillCalls" \in Kinds /\ "results" \in Kinds
  BY DEF Kinds
<1>2. CASE CallTools(t)
  <2> DEFINE kind == IF scene.skill THEN "skillCalls" ELSE "calls"
  <2>1. /\ kind \in Kinds /\ Speak(t, "talk", "tools", kind, none)
        /\ UNCHANGED <<log, short, cache, wlist>>
    BY <1>1, <1>2 DEF CallTools
  <2>2. none = {}
    OBVIOUS
  <2> HIDE DEF kind, none
  <2>3. mem' = [mem EXCEPT ![t] = mem'[t]] /\ mem'[t] \in Seq(Message)
        /\ Said(mem'[t]) = Said(mem[t]) \union none
        /\ nextId' = nextId + 1
        /\ Adds(Elements(mem'[t]), Elements(mem[t]), nextId, nextId + 1)
    BY <1>1, <2>1, <2>2, SpeakMakes DEF HistoryTypes
  <2> QED
    BY <2>1, <2>2, <2>3
<1>3. CASE ToolsDone(t)
  <2>1. Speak(t, "tools", "talk", "results", none) /\ UNCHANGED <<log, short, cache, wlist>>
    BY <1>3 DEF ToolsDone
  <2>2. none = {}
    OBVIOUS
  <2> HIDE DEF none
  <2>3. mem' = [mem EXCEPT ![t] = mem'[t]] /\ mem'[t] \in Seq(Message)
        /\ Said(mem'[t]) = Said(mem[t]) \union none
        /\ nextId' = nextId + 1
        /\ Adds(Elements(mem'[t]), Elements(mem[t]), nextId, nextId + 1)
    BY <1>1, <2>1, <2>2, SpeakMakes DEF HistoryTypes
  <2> QED
    BY <2>1, <2>2, <2>3
<1> QED
  BY <1>2, <1>3

(* The answer adds the answer of the turn. *)
LEMMA AnswerMakes ==
  ASSUME HistoryTypes, NEW t \in Turns, Answer(t)
  PROVE  /\ UNCHANGED <<log, short, cache, wlist>>
         /\ mem' = [mem EXCEPT ![t] = mem'[t]] /\ mem'[t] \in Seq(Message)
         /\ Said(mem'[t]) = Said(mem[t]) \union {<<t, "answer">>}
         /\ nextId' = nextId + 1
         /\ Adds(Elements(mem'[t]), Elements(mem[t]), nextId, nextId + 1)
<1>1. {<<t, "answer">>} \in SUBSET Parts /\ "assistant" \in Kinds
  BY PartsOf DEF Kinds
<1>2. Speak(t, "talk", "saving", "assistant", {<<t, "answer">>})
      /\ UNCHANGED <<log, short, cache, wlist>>
  BY DEF Answer, copies, writeVars
<1> QED
  BY <1>1, <1>2, SpeakMakes DEF HistoryTypes

(* The parts of a turn. *)
Own(t) == {t} \X {"user", "answer"}

(* Whatever a turn adds to its session is its own. *)
LEMMA TalkMakes ==
  ASSUME HistoryTypes, NEW t \in Turns,
         \/ Compose(t) \/ ComposeTrimmed(t) \/ CallTools(t) \/ ToolsDone(t) \/ Answer(t)
  PROVE  /\ UNCHANGED <<log, short, cache, wlist>>
         /\ mem' = [mem EXCEPT ![t] = mem'[t]] /\ mem'[t] \in Seq(Message)
         /\ Said(mem'[t]) \subseteq Said(mem[t]) \union Own(t)
<1> USE DEF copies, writeVars
<1>1. <<t, "user">> \in Own(t) /\ <<t, "answer">> \in Own(t)
  BY DEF Own
<1>2. CASE Compose(t)
  BY <1>1, <1>2, ComposeMakes DEF Compose, HistoryTypes
<1>3. CASE ComposeTrimmed(t)
  BY <1>1, <1>3, ComposeTrimmedMakes DEF ComposeTrimmed, HistoryTypes
<1>4. CASE CallTools(t) \/ ToolsDone(t)
  BY <1>4, ToolRoundMakes
<1>5. CASE Answer(t)
  BY <1>1, <1>5, AnswerMakes
<1> QED
  BY <1>2, <1>3, <1>4, <1>5

(* The steps that write, drop or expire a copy. *)
CopyStep ==
  \/ \E w \in Writers : WriteCache(w) \/ WriteCacheFails(w) \/ WriteRow(w)
  \/ \E d \in Deletions : WipeCache(d) \/ WipeRow(d)
  \/ Expire

(* A step of the copies moves or drops lists there are. *)
LEMMA CopyStepMakes ==
  ASSUME HistoryTypes, CopyStep
  PROVE  /\ UNCHANGED <<log, mem, wlist>>
         /\ \A copy \in {short', cache'} :
              \/ Held(copy) \in {<<>>, Held(short), Held(cache)}
              \/ \E w \in Writers : Held(copy) = wlist[w]
<1> USE DEF turnVars, writeVars, copies
<1>1. /\ UNCHANGED <<log, mem, wlist>>
      /\ \A copy \in {short', cache'} :
           copy = NoCopy \/ copy \in {short, cache} \/ \E w \in Writers : copy = wlist[w]
  BY DEF CopyStep, WriteCache, WriteCacheFails, WriteRow, WriteStep, WipeCache, WipeRow, Expire
<1>2. Held(NoCopy) = <<>> /\ \A w \in Writers : Held(wlist[w]) = wlist[w]
  BY HeldIn DEF HistoryTypes, MessageTypes, Held
<1> QED
  BY <1>1, <1>2

-----------------------------------------------------------------------------
(* The transcript first. *)

(* A turn that nothing interrupted and whose append was not refused. *)
Covered(t) == t \notin stopped \union cut \union unlogged /\ pc[t] # "dead"
(* What a list says of a turn is in the transcript; so it is for every list
   that leaves the session of that turn. *)
Logged(t, s) == Said(s) \intersect Own(t) \subseteq Said(log)
LoggedCopies(t) ==
  /\ Logged(t, Held(short)) /\ Logged(t, Held(cache))
  /\ \A u \in Turns \ {t} : Logged(t, mem[u])
  /\ \A w \in Writers : Logged(t, wlist[w])

LoggedFirst == \A t \in Turns : Covered(t) => LoggedCopies(t)

(* What a turn said so far is in its session. *)
SpokeFor(t) ==
  /\ pc[t] \in {"talk", "tools"} => <<t, "user">> \in Said(mem[t])
  /\ pc[t] = "saving" /\ t \notin stopped => Own(t) \subseteq Said(mem[t])

SaysItsOwn == \A t \in Turns : SpokeFor(t)

(* The append of a turn is past, and what it said is in the transcript. *)
InLog(t) == pc[t] = "over" \/ (pc[t] = "saving" /\ wpc[t] \notin {"append", "commit"})

LoggedOnceSaved == \A t \in Turns : Covered(t) /\ InLog(t) => Own(t) \subseteq Said(log)

(* The row of a covered run is shown when its turn is over. *)
VisibleIsOver == \A t \in Turns : rows[t] = "visible" /\ Covered(t) => pc[t] = "over"

(* The inductive invariant of the transcript. *)
LogInv ==
  /\ HistoryTypes /\ MessagesKept /\ PlainCopies
  /\ LoggedFirst /\ SaysItsOwn /\ LoggedOnceSaved /\ VisibleIsOver

(* After an append that is not refused, the transcript says what the
   session says. *)
LEMMA AppendSays ==
  ASSUME HistoryTypes, MessagesKept, NEW t \in Turns, AppendCommit(t), t \notin unlogged'
  PROVE  Said(mem[t]) \subseteq Said(log')
<1> SUFFICES ASSUME NEW p \in Said(mem[t])
             PROVE  p \in Said(log')
  OBVIOUS
<1>1. PICK m \in Elements(mem[t]) : p \in m.says
  BY SaidBy
<1>2. PICK n \in Elements(log') : n.id = m.id /\ (n = m \/ n \in Elements(log))
  BY AppendCommitMakes DEF HistoryTypes
<1>3. n.says = m.says
  BY <1>2, AllHas DEF MessagesKept, WellKept
<1> QED
  BY <1>1, <1>2, <1>3, SaidBy

(* No two turns say the same part. *)
LEMMA OtherOwn ==
  ASSUME NEW t, NEW u, t # u
  PROVE  Own(t) \intersect Own(u) = {}
BY DEF Own

(* Once a turn is interrupted it counts as interrupted. *)
LEMMA StaysUncovered ==
  ASSUME HistoryTypes, [Next]_vars
  PROVE  \A v \in Turns : Covered(v)' => Covered(v)
<1> USE DEF rowVars, copies, turnVars, writeVars, deleteVars, historyVars, bounds
<1>1. ASSUME NEW t \in Turns, TurnStep(t)
      PROVE  \A v \in Turns : Covered(v)' => Covered(v)
  <2>1. CASE Start(t) \/ LoadCache(t) \/ LoadCacheFails(t) \/ LoadRow(t) \/
            LoadRowFails(t)
    BY <2>1 DEF Start, LoadCache, LoadCacheFails, LoadRow, LoadRowFails, Step,
       Loaded, HistoryTypes, PlaceTypes, Covered
  <2>2. CASE BackfillDone(t) \/ Replay(t) \/ Compose(t) \/ ComposeTrimmed(t)
            \/ CallTools(t) \/ ToolsDone(t) \/ Answer(t)
    BY <2>2 DEF BackfillDone, Replay, Compose, ComposeTrimmed, CallTools,
       ToolsDone, Answer, Step, Speak, HistoryTypes, PlaceTypes, Covered
  <2>3. CASE Break(t) \/ BreakEarly(t) \/ SaveDone(t) \/ CutSave(t)
    BY <2>3 DEF Break, BreakEarly, SaveDone, CutSave, Step, HistoryTypes,
       PlaceTypes, Covered
  <2>4. CASE Finish(t) \/ AppendRead(t)
    <3>1. UNCHANGED <<stopped, cut, unlogged, pc>>
      BY <2>4 DEF Finish, AppendRead
    <3> QED
      BY <3>1 DEF Covered
  <2>5. CASE AppendCommit(t) \/ AppendFails(t)
    BY <2>5 DEF AppendCommit, AppendFails, AfterAppend, HistoryTypes,
       PlaceTypes, Covered
  <2> QED
    BY <1>1, <2>1, <2>2, <2>3, <2>4, <2>5 DEF TurnStep
<1>2. ASSUME NEW w \in Writers, WriterStep(w)
      PROVE  \A v \in Turns : Covered(v)' => Covered(v)
  <2>1. CASE WriteCache(w) \/ WriteCacheFails(w) \/ WriteRow(w) \/
            WriteRowFails(w)
    <3>1. UNCHANGED <<stopped, cut, unlogged, pc>>
      BY <2>1 DEF WriteCache, WriteCacheFails, WriteRow, WriteRowFails, WriteStep
    <3> QED
      BY <3>1 DEF Covered
  <2> QED
    BY <1>2, <2>1 DEF WriterStep
<1>3. ASSUME NEW d \in Deletions, NEW t \in Turns, DeleteUser(d, t) \/ DeleteAnswer(d, t)
      PROVE  \A v \in Turns : Covered(v)' => Covered(v)
  <2>1. CASE DeleteUser(d, t) \/ DeleteAnswer(d, t)
    <3>1. UNCHANGED <<stopped, cut, unlogged, pc>>
      BY <2>1 DEF DeleteUser, DeleteAnswer, DeleteStep
    <3> QED
      BY <3>1 DEF Covered
  <2> QED
    BY <1>3, <2>1
<1>4. ASSUME NEW d \in Deletions, DeletionStep(d),
             ~(\E t \in Turns : DeleteUser(d, t) \/ DeleteAnswer(d, t))
      PROVE  \A v \in Turns : Covered(v)' => Covered(v)
  <2>1. CASE Rebuild(d) \/ DeleteDone(d) \/ WipeCache(d) \/ WipeRow(d) \/
            WipeRuns(d)
    <3>1. UNCHANGED <<stopped, cut, unlogged, pc>>
      BY <2>1 DEF Rebuild, DeleteDone, WipeCache, WipeRow, WipeRuns, DeleteStep
    <3> QED
      BY <3>1 DEF Covered
  <2> QED
    BY <1>4, <2>1 DEF DeletionStep
<1>5. CASE Expire
  BY <1>5 DEF Expire, HistoryTypes, PlaceTypes, Covered
<1>6. ASSUME NEW p \in Processes, Restart(p)
      PROVE  \A v \in Turns : Covered(v)' => Covered(v)
  BY <1>6 DEF Restart, HistoryTypes, PlaceTypes, Covered
<1>7. CASE UNCHANGED vars
  BY <1>7 DEF vars, HistoryTypes, PlaceTypes, Covered
<1> QED
  BY <1>1, <1>2, <1>3, <1>4, <1>5, <1>6, <1>7 DEF Next, DeletionStep

(* These steps touch no list of messages. *)
LEMMA CalmSteps ==
  ASSUME \/ \E t \in Turns : \/ Start(t) \/ BackfillDone(t) \/ Break(t) \/ SaveDone(t)
                             \/ CutSave(t) \/ Finish(t) \/ AppendRead(t) \/ LoadCacheFails(t)
         \/ \E w \in Writers : WriteRowFails(w)
         \/ \E d \in Deletions : \/ \E t \in Turns : DeleteUser(d, t) \/ DeleteAnswer(d, t)
                                 \/ DeleteDone(d) \/ WipeRuns(d)
         \/ \E p \in Processes : Restart(p)
         \/ UNCHANGED vars
  PROVE  UNCHANGED messages
BY DEF Start, BackfillDone, Break, SaveDone, CutSave, Finish, AppendRead, LoadCacheFails,
       WriteRowFails, DeleteUser, DeleteAnswer, DeleteDone, WipeRuns, Restart,
       vars, messages, copies, turnVars, writeVars

(* Nothing reaches a copy or another session before the transcript. *)
LEMMA LoggedFirstKept ==
  ASSUME LogInv, [Next]_vars, NEW v \in Turns, Covered(v)'
  PROVE  LoggedCopies(v)'
<1> USE DEF rowVars, copies, turnVars, writeVars, deleteVars, historyVars, bounds
<1>0. Covered(v) /\ LoggedCopies(v)
  BY StaysUncovered DEF LogInv, LoggedFirst
<1> USE <1>0
<1>1. ASSUME NEW t \in Turns, TurnStep(t)
      PROVE  LoggedCopies(v)'
  <2>1. CASE Start(t) \/ BackfillDone(t) \/ Break(t) \/ SaveDone(t) \/
            CutSave(t) \/ Finish(t) \/ AppendRead(t) \/ LoadCacheFails(t)
    <3>1. UNCHANGED messages
      BY <2>1, CalmSteps
    <3> QED
      BY <3>1 DEF LoggedCopies, Logged, messages
  <2>2. CASE LoadCache(t) \/ LoadRow(t) \/ LoadRowFails(t) \/ BreakEarly(t)
    <3>1. /\ UNCHANGED <<log, short, cache, wlist>>
          /\ \E list \in {Held(short), Held(cache), <<>>, mem[t]} : mem' = [mem EXCEPT ![t] = list]
      BY <2>2, LoadMakes DEF LogInv
    <3>2. Logged(v, <<>>)
      BY NothingSaid DEF Logged
    <3>3. ASSUME NEW u \in Turns \ {v}
          PROVE  Said(mem'[u]) \intersect Own(v) \subseteq Said(log)
      BY <3>1, <3>2 DEF LoggedCopies, Logged, LogInv, HistoryTypes, MessageTypes
    <3> QED
      BY <3>1, <3>3 DEF LoggedCopies, Logged
  <2>3. CASE Compose(t) \/ ComposeTrimmed(t) \/ CallTools(t) \/ ToolsDone(t)
            \/ Answer(t)
    <3>1. /\ UNCHANGED <<log, short, cache, wlist>>
          /\ mem' = [mem EXCEPT ![t] = mem'[t]]
          /\ Said(mem'[t]) \subseteq Said(mem[t]) \union Own(t)
      BY <2>3, TalkMakes DEF LogInv
    <3>2. ASSUME NEW u \in Turns \ {v}
          PROVE  Said(mem'[u]) \intersect Own(v) \subseteq Said(log)
      <4>1. CASE u = t
        BY <3>1, <4>1, OtherOwn DEF LoggedCopies, Logged
      <4>2. CASE u # t
        BY <3>1, <4>2 DEF LoggedCopies, Logged, LogInv, HistoryTypes, MessageTypes
      <4> QED
        BY <4>1, <4>2
    <3> QED
      BY <3>1, <3>2 DEF LoggedCopies, Logged
  <2>4. CASE AppendCommit(t) \/ AppendFails(t)
    <3>1. AfterAppend(t) /\ UNCHANGED <<short, cache, mem, pc>>
      BY <2>4 DEF AppendCommit, AppendFails
    <3>2. Said(log) \subseteq Said(log')
      BY <2>4, AppendCommitMakes DEF LogInv, HistoryTypes, AppendFails
    <3>3. t = v => Said(mem[t]) \subseteq Said(log')
      BY <2>4, AppendSays DEF LogInv, Covered, AppendFails
    <3>4. Said(mem[t]) \intersect Own(v) \subseteq Said(log')
      BY <3>2, <3>3 DEF LoggedCopies, Logged
    <3>5. ASSUME NEW w \in Writers
          PROVE  Said(wlist'[w]) \intersect Own(v) \subseteq Said(log')
      <4>1. CASE pc[t] = "saving"
        <5>1. wlist' = [wlist EXCEPT ![t] = wlist'[t]] /\ Said(wlist'[t]) \subseteq Said(mem[t])
          BY <3>1, <4>1, AfterAppendMakes DEF LogInv, HistoryTypes
        <5>2. w # t => wlist'[w] = wlist[w]
          BY <5>1 DEF LogInv, HistoryTypes, MessageTypes
        <5> QED
          BY <3>2, <3>4, <5>1, <5>2 DEF LoggedCopies, Logged
      <4>2. CASE pc[t] # "saving"
        <5>1. wlist' = wlist
          BY <3>1, <4>2 DEF AfterAppend
        <5> QED
          BY <3>2, <5>1 DEF LoggedCopies, Logged
      <4> QED
        BY <4>1, <4>2
    <3> QED
      BY <3>1, <3>2, <3>5 DEF LoggedCopies, Logged
  <2>5. CASE Replay(t)
    <3>1. /\ UNCHANGED <<log, short, cache>>
          /\ mem' = [mem EXCEPT ![t] = mem'[t]] /\ Said(mem'[t]) \subseteq Said(log)
          /\ wlist' = wlist \/ wlist' = [wlist EXCEPT ![t] = mem'[t]]
      BY <2>5, ReplayMakes DEF Replay, LogInv, HistoryTypes
    <3>2. ASSUME NEW u \in Turns \ {v}
          PROVE  Said(mem'[u]) \intersect Own(v) \subseteq Said(log)
      BY <3>1 DEF LoggedCopies, Logged, LogInv, HistoryTypes, MessageTypes
    <3>3. ASSUME NEW w \in Writers
          PROVE  Said(wlist'[w]) \intersect Own(v) \subseteq Said(log)
      BY <3>1 DEF LoggedCopies, Logged, LogInv, HistoryTypes, MessageTypes
    <3> QED
      BY <3>1, <3>2, <3>3 DEF LoggedCopies, Logged
  <2> QED
    BY <1>1, <2>1, <2>2, <2>3, <2>4, <2>5 DEF TurnStep
<1>2. ASSUME NEW w \in Writers, WriterStep(w)
      PROVE  LoggedCopies(v)'
  <2>1. CASE WriteCache(w) \/ WriteCacheFails(w) \/ WriteRow(w)
    <3>1. CopyStep
      BY <2>1 DEF CopyStep
    <3>2. /\ UNCHANGED <<log, mem, wlist>>
          /\ \A copy \in {short', cache'} :
               \/ Held(copy) \in {<<>>, Held(short), Held(cache)}
               \/ \E x \in Writers : Held(copy) = wlist[x]
      BY <3>1, CopyStepMakes DEF LogInv
    <3>3. Logged(v, <<>>)
      BY NothingSaid DEF Logged
    <3> QED
      BY <3>2, <3>3 DEF LoggedCopies, Logged
  <2>2. CASE WriteRowFails(w)
    <3>1. UNCHANGED messages
      BY <2>2, CalmSteps
    <3> QED
      BY <3>1 DEF LoggedCopies, Logged, messages
  <2> QED
    BY <1>2, <2>1, <2>2 DEF WriterStep
<1>3. ASSUME NEW d \in Deletions, NEW t \in Turns, DeleteUser(d, t) \/ DeleteAnswer(d, t)
      PROVE  LoggedCopies(v)'
  <2>1. CASE DeleteUser(d, t) \/ DeleteAnswer(d, t)
    <3>1. UNCHANGED messages
      BY <2>1, CalmSteps
    <3> QED
      BY <3>1 DEF LoggedCopies, Logged, messages
  <2> QED
    BY <1>3, <2>1
<1>4. ASSUME NEW d \in Deletions, DeletionStep(d),
             ~(\E t \in Turns : DeleteUser(d, t) \/ DeleteAnswer(d, t))
      PROVE  LoggedCopies(v)'
  <2>1. CASE DeleteDone(d) \/ WipeRuns(d)
    <3>1. UNCHANGED messages
      BY <2>1, CalmSteps
    <3> QED
      BY <3>1 DEF LoggedCopies, Logged, messages
  <2>2. CASE WipeCache(d) \/ WipeRow(d)
    <3>1. CopyStep
      BY <2>2 DEF CopyStep
    <3>2. /\ UNCHANGED <<log, mem, wlist>>
          /\ \A copy \in {short', cache'} :
               \/ Held(copy) \in {<<>>, Held(short), Held(cache)}
               \/ \E x \in Writers : Held(copy) = wlist[x]
      BY <3>1, CopyStepMakes DEF LogInv
    <3>3. Logged(v, <<>>)
      BY NothingSaid DEF Logged
    <3> QED
      BY <3>2, <3>3 DEF LoggedCopies, Logged
  <2>3. CASE Rebuild(d)
    <3>1. /\ UNCHANGED <<log, short, cache, mem>>
          /\ wlist' = [wlist EXCEPT ![d] = wlist'[d]] /\ Said(wlist'[d]) = Shown
      BY <2>3, RebuildMakes DEF Rebuild, LogInv, HistoryTypes
    <3>2. Shown \intersect Own(v) \subseteq Said(log)
      <4>1. rows[v] = "visible" => Own(v) \subseteq Said(log)
        BY DEF LogInv, VisibleIsOver, LoggedOnceSaved, InLog
      <4> QED
        BY <4>1 DEF Shown, Own
    <3>3. ASSUME NEW w \in Writers
          PROVE  Said(wlist'[w]) \intersect Own(v) \subseteq Said(log)
      BY <3>1, <3>2 DEF LoggedCopies, Logged, LogInv, HistoryTypes, MessageTypes
    <3> QED
      BY <3>1, <3>3 DEF LoggedCopies, Logged
  <2> QED
    BY <1>4, <2>1, <2>2, <2>3 DEF DeletionStep
<1>5. CASE Expire
  <2>1. CopyStep
    BY <1>5 DEF CopyStep
  <2>2. /\ UNCHANGED <<log, mem, wlist>>
        /\ \A copy \in {short', cache'} :
             \/ Held(copy) \in {<<>>, Held(short), Held(cache)}
             \/ \E x \in Writers : Held(copy) = wlist[x]
    BY <2>1, CopyStepMakes DEF LogInv
  <2>3. Logged(v, <<>>)
    BY NothingSaid DEF Logged
  <2> QED
    BY <2>2, <2>3 DEF LoggedCopies, Logged
<1>6. ASSUME NEW p \in Processes, Restart(p)
      PROVE  LoggedCopies(v)'
  <2>1. UNCHANGED messages
    BY <1>6, CalmSteps
  <2> QED
    BY <2>1 DEF LoggedCopies, Logged, messages
<1>7. CASE UNCHANGED vars
  <2>1. UNCHANGED messages
    BY <1>7, CalmSteps
  <2> QED
    BY <2>1 DEF LoggedCopies, Logged, messages
<1> QED
  BY <1>1, <1>2, <1>3, <1>4, <1>5, <1>6, <1>7 DEF Next, DeletionStep

(* No tool call or result reaches a copy. *)
LEMMA PlainCopiesKept ==
  ASSUME LogInv, [Next]_vars
  PROVE  PlainCopies'
<1> USE DEF rowVars, copies, turnVars, writeVars, deleteVars, historyVars, bounds
<1>0. PlainCopies
  BY DEF LogInv
<1> USE <1>0
<1>1. ASSUME NEW t \in Turns, TurnStep(t)
      PROVE  PlainCopies'
  <2>1. CASE Start(t) \/ BackfillDone(t) \/ Break(t) \/ SaveDone(t) \/
            CutSave(t) \/ Finish(t) \/ AppendRead(t) \/ LoadCacheFails(t)
    <3>1. UNCHANGED messages
      BY <2>1, CalmSteps
    <3> QED
      BY <3>1 DEF PlainCopies, Plain, messages
  <2>2. CASE LoadCache(t) \/ LoadRow(t) \/ LoadRowFails(t) \/ BreakEarly(t)
    <3>1. UNCHANGED <<short, cache, wlist>>
      BY <2>2, LoadMakes DEF LogInv
    <3> QED
      BY <3>1 DEF PlainCopies, Plain
  <2>3. CASE Compose(t) \/ ComposeTrimmed(t) \/ CallTools(t) \/ ToolsDone(t)
            \/ Answer(t)
    <3>1. UNCHANGED <<short, cache, wlist>>
      BY <2>3, TalkMakes DEF LogInv
    <3> QED
      BY <3>1 DEF PlainCopies, Plain
  <2>4. CASE AppendCommit(t) \/ AppendFails(t)
    <3>1. AfterAppend(t) /\ UNCHANGED <<short, cache>>
      BY <2>4 DEF AppendCommit, AppendFails
    <3>2. \/ wlist' = wlist
          \/ Plain(wlist'[t]) /\ wlist' = [wlist EXCEPT ![t] = wlist'[t]]
      <4>1. CASE pc[t] = "saving"
        BY <3>1, <4>1, AfterAppendMakes DEF LogInv, HistoryTypes
      <4>2. CASE pc[t] # "saving"
        BY <3>1, <4>2 DEF AfterAppend
      <4> QED
        BY <4>1, <4>2
    <3>3. ASSUME NEW w \in Writers
          PROVE  Plain(wlist'[w])
      BY <3>2 DEF PlainCopies, LogInv, HistoryTypes, MessageTypes
    <3> QED
      BY <3>1, <3>2, <3>3 DEF PlainCopies, Plain
  <2>5. CASE Replay(t)
    <3>1. /\ UNCHANGED <<short, cache>> /\ Plain(mem'[t])
          /\ wlist' = wlist \/ wlist' = [wlist EXCEPT ![t] = mem'[t]]
      BY <2>5, ReplayMakes DEF Replay, LogInv, HistoryTypes
    <3>2. ASSUME NEW w \in Writers
          PROVE  Plain(wlist'[w])
      BY <3>1 DEF PlainCopies, LogInv, HistoryTypes, MessageTypes
    <3> QED
      BY <3>1, <3>2 DEF PlainCopies, Plain
  <2> QED
    BY <1>1, <2>1, <2>2, <2>3, <2>4, <2>5 DEF TurnStep
<1>2. ASSUME NEW w \in Writers, WriterStep(w)
      PROVE  PlainCopies'
  <2>1. CASE WriteCache(w) \/ WriteCacheFails(w) \/ WriteRow(w)
    <3>1. CopyStep
      BY <2>1 DEF CopyStep
    <3>2. /\ UNCHANGED wlist
          /\ \A copy \in {short', cache'} :
               \/ Held(copy) \in {<<>>, Held(short), Held(cache)}
               \/ \E x \in Writers : Held(copy) = wlist[x]
      BY <3>1, CopyStepMakes DEF LogInv
    <3>3. Plain(<<>>)
      BY NothingSaid DEF Plain
    <3> QED
      BY <3>2, <3>3 DEF PlainCopies
  <2>2. CASE WriteRowFails(w)
    <3>1. UNCHANGED messages
      BY <2>2, CalmSteps
    <3> QED
      BY <3>1 DEF PlainCopies, Plain, messages
  <2> QED
    BY <1>2, <2>1, <2>2 DEF WriterStep
<1>3. ASSUME NEW d \in Deletions, NEW t \in Turns, DeleteUser(d, t) \/ DeleteAnswer(d, t)
      PROVE  PlainCopies'
  <2>1. CASE DeleteUser(d, t) \/ DeleteAnswer(d, t)
    <3>1. UNCHANGED messages
      BY <2>1, CalmSteps
    <3> QED
      BY <3>1 DEF PlainCopies, Plain, messages
  <2> QED
    BY <1>3, <2>1
<1>4. ASSUME NEW d \in Deletions, DeletionStep(d),
             ~(\E t \in Turns : DeleteUser(d, t) \/ DeleteAnswer(d, t))
      PROVE  PlainCopies'
  <2>1. CASE DeleteDone(d) \/ WipeRuns(d)
    <3>1. UNCHANGED messages
      BY <2>1, CalmSteps
    <3> QED
      BY <3>1 DEF PlainCopies, Plain, messages
  <2>2. CASE WipeCache(d) \/ WipeRow(d)
    <3>1. CopyStep
      BY <2>2 DEF CopyStep
    <3>2. /\ UNCHANGED wlist
          /\ \A copy \in {short', cache'} :
               \/ Held(copy) \in {<<>>, Held(short), Held(cache)}
               \/ \E x \in Writers : Held(copy) = wlist[x]
      BY <3>1, CopyStepMakes DEF LogInv
    <3>3. Plain(<<>>)
      BY NothingSaid DEF Plain
    <3> QED
      BY <3>2, <3>3 DEF PlainCopies
  <2>3. CASE Rebuild(d)
    <3>1. /\ UNCHANGED <<short, cache>> /\ Plain(wlist'[d])
          /\ wlist' = [wlist EXCEPT ![d] = wlist'[d]]
      BY <2>3, RebuildMakes DEF Rebuild, LogInv, HistoryTypes
    <3>2. ASSUME NEW w \in Writers
          PROVE  Plain(wlist'[w])
      BY <3>1 DEF PlainCopies, LogInv, HistoryTypes, MessageTypes
    <3> QED
      BY <3>1, <3>2 DEF PlainCopies, Plain
  <2> QED
    BY <1>4, <2>1, <2>2, <2>3 DEF DeletionStep
<1>5. CASE Expire
  <2>1. CopyStep
    BY <1>5 DEF CopyStep
  <2>2. /\ UNCHANGED wlist
        /\ \A copy \in {short', cache'} :
             \/ Held(copy) \in {<<>>, Held(short), Held(cache)}
             \/ \E x \in Writers : Held(copy) = wlist[x]
    BY <2>1, CopyStepMakes DEF LogInv
  <2>3. Plain(<<>>)
    BY NothingSaid DEF Plain
  <2> QED
    BY <2>2, <2>3 DEF PlainCopies
<1>6. ASSUME NEW p \in Processes, Restart(p)
      PROVE  PlainCopies'
  <2>1. UNCHANGED messages
    BY <1>6, CalmSteps
  <2> QED
    BY <2>1 DEF PlainCopies, Plain, messages
<1>7. CASE UNCHANGED vars
  <2>1. UNCHANGED messages
    BY <1>7, CalmSteps
  <2> QED
    BY <2>1 DEF PlainCopies, Plain, messages
<1> QED
  BY <1>1, <1>2, <1>3, <1>4, <1>5, <1>6, <1>7 DEF Next, DeletionStep

(* A turn that speaks holds its own words in its session. *)
LEMMA SaysItsOwnKept ==
  ASSUME LogInv, [Next]_vars, NEW v \in Turns
  PROVE  SpokeFor(v)'
<1> USE DEF rowVars, copies, turnVars, writeVars, deleteVars, historyVars, bounds
<1>0. SpokeFor(v)
  BY DEF LogInv, SaysItsOwn
<1> USE <1>0
<1>1. ASSUME NEW t \in Turns, TurnStep(t)
      PROVE  SpokeFor(v)'
  <2>1. CASE Start(t) \/ LoadCacheFails(t) \/ BackfillDone(t)
    BY <2>1 DEF Start, LoadCacheFails, BackfillDone, Step, SpokeFor, LogInv,
       HistoryTypes, MessageTypes, PlaceTypes
  <2>2. CASE Break(t) \/ SaveDone(t) \/ CutSave(t)
    BY <2>2 DEF Break, SaveDone, CutSave, Step, SpokeFor, LogInv,
       HistoryTypes, MessageTypes, PlaceTypes
  <2>3. CASE LoadCache(t) \/ LoadRow(t) \/ LoadRowFails(t) \/ BreakEarly(t)
    <3>1. \E list \in {Held(short), Held(cache), <<>>, mem[t]} : mem' = [mem EXCEPT ![t] = list]
      BY <2>3, LoadMakes DEF LogInv
    <3>2. /\ \E to \in {"loadRow", "replay", "ready", "over"} : pc' = [pc EXCEPT ![t] = to]
          /\ v # t => (v \in stopped' <=> v \in stopped)
      BY <2>3 DEF LoadCache, LoadRow, LoadRowFails, BreakEarly, Loaded, Step
    <3> QED
      BY <3>1, <3>2 DEF SpokeFor, LogInv, HistoryTypes, MessageTypes, PlaceTypes
  <2>4. CASE Compose(t) \/ ComposeTrimmed(t)
    <3>1. /\ mem' = [mem EXCEPT ![t] = mem'[t]] /\ <<t, "user">> \in Said(mem'[t])
          /\ pc' = [pc EXCEPT ![t] = "talk"] /\ UNCHANGED stopped
      BY <2>4, ComposeMakes, ComposeTrimmedMakes DEF Compose, ComposeTrimmed, Step,
         LogInv, HistoryTypes
    <3> QED
      BY <3>1 DEF SpokeFor, LogInv, HistoryTypes, MessageTypes, PlaceTypes
  <2>5. CASE CallTools(t) \/ ToolsDone(t)
    <3>1. mem' = [mem EXCEPT ![t] = mem'[t]] /\ Said(mem'[t]) = Said(mem[t])
      BY <2>5, ToolRoundMakes DEF LogInv
    <3>2. /\ pc[t] \in {"talk", "tools"} /\ UNCHANGED stopped
          /\ pc' = [pc EXCEPT ![t] = "talk"] \/ pc' = [pc EXCEPT ![t] = "tools"]
      BY <2>5 DEF CallTools, ToolsDone, Speak, Step
    <3> QED
      BY <3>1, <3>2 DEF SpokeFor, LogInv, HistoryTypes, MessageTypes, PlaceTypes
  <2>6. CASE Finish(t) \/ AppendRead(t) \/ AppendCommit(t) \/ AppendFails(t)
    <3>1. UNCHANGED <<mem, pc, stopped>>
      BY <2>6 DEF Finish, AppendRead, AppendCommit, AppendFails, AfterAppend
    <3> QED
      BY <3>1 DEF SpokeFor
  <2>7. CASE Replay(t)
    <3>1. mem' = [mem EXCEPT ![t] = mem'[t]]
      BY <2>7, ReplayMakes DEF LogInv, HistoryTypes
    <3>2. /\ pc' = [pc EXCEPT ![t] = "ready"] \/ pc' = [pc EXCEPT ![t] = "backfill"]
          /\ UNCHANGED stopped
      BY <2>7 DEF Replay, Step
    <3> QED
      BY <3>1, <3>2 DEF SpokeFor, LogInv, HistoryTypes, MessageTypes, PlaceTypes
  <2>8. CASE Answer(t)
    <3>1. /\ mem' = [mem EXCEPT ![t] = mem'[t]]
          /\ Said(mem'[t]) = Said(mem[t]) \union {<<t, "answer">>}
      BY <2>8, AnswerMakes DEF LogInv
    <3>2. pc[t] = "talk" /\ pc' = [pc EXCEPT ![t] = "saving"] /\ UNCHANGED stopped
      BY <2>8 DEF Answer, Speak, Step
    <3>3. CASE v = t
      <4>1. <<t, "user">> \in Said(mem[t])
        BY <3>2, <3>3 DEF SpokeFor
      <4>2. Own(t) \subseteq {<<t, "user">>, <<t, "answer">>}
        BY DEF Own
      <4>3. Said(mem'[t]) = Said(mem[t]) \union {<<t, "answer">>}
        BY <3>1
      <4>4. Own(t) \subseteq Said(mem'[t])
        BY <4>1, <4>2, <4>3, Zenon
      <4>5. pc'[t] = "saving"
        BY <3>2 DEF LogInv, HistoryTypes, PlaceTypes
      <4> QED
        BY <3>3, <4>4, <4>5 DEF SpokeFor
    <3>4. CASE v # t
      BY <3>1, <3>2, <3>4 DEF SpokeFor, LogInv, HistoryTypes, MessageTypes, PlaceTypes
    <3> QED
      BY <3>3, <3>4
  <2> QED
    BY <1>1, <2>1, <2>2, <2>3, <2>4, <2>5, <2>6, <2>7, <2>8 DEF TurnStep
<1>2. ASSUME NEW w \in Writers, WriterStep(w)
      PROVE  SpokeFor(v)'
  <2>1. CASE WriteCache(w) \/ WriteCacheFails(w) \/ WriteRow(w) \/
            WriteRowFails(w)
    <3>1. UNCHANGED <<mem, pc, stopped>>
      BY <2>1 DEF WriteCache, WriteCacheFails, WriteRow, WriteRowFails, WriteStep
    <3> QED
      BY <3>1 DEF SpokeFor
  <2> QED
    BY <1>2, <2>1 DEF WriterStep
<1>3. ASSUME NEW d \in Deletions, NEW t \in Turns, DeleteUser(d, t) \/ DeleteAnswer(d, t)
      PROVE  SpokeFor(v)'
  <2>1. CASE DeleteUser(d, t) \/ DeleteAnswer(d, t)
    <3>1. UNCHANGED <<mem, pc, stopped>>
      BY <2>1 DEF DeleteUser, DeleteAnswer, DeleteStep
    <3> QED
      BY <3>1 DEF SpokeFor
  <2> QED
    BY <1>3, <2>1
<1>4. ASSUME NEW d \in Deletions, DeletionStep(d),
             ~(\E t \in Turns : DeleteUser(d, t) \/ DeleteAnswer(d, t))
      PROVE  SpokeFor(v)'
  <2>1. CASE Rebuild(d) \/ DeleteDone(d) \/ WipeCache(d) \/ WipeRow(d) \/
            WipeRuns(d)
    <3>1. UNCHANGED <<mem, pc, stopped>>
      BY <2>1 DEF Rebuild, DeleteDone, WipeCache, WipeRow, WipeRuns, DeleteStep
    <3> QED
      BY <3>1 DEF SpokeFor
  <2> QED
    BY <1>4, <2>1 DEF DeletionStep
<1>5. CASE Expire
  <2>1. UNCHANGED <<mem, pc, stopped>>
    BY <1>5 DEF Expire
  <2> QED
    BY <2>1 DEF SpokeFor
<1>6. ASSUME NEW p \in Processes, Restart(p)
      PROVE  SpokeFor(v)'
  BY <1>6 DEF Restart, SpokeFor, LogInv, HistoryTypes, MessageTypes,
     PlaceTypes
<1>7. CASE UNCHANGED vars
  <2>1. UNCHANGED <<mem, pc, stopped>>
    BY <1>7 DEF vars
  <2> QED
    BY <2>1 DEF SpokeFor
<1> QED
  BY <1>1, <1>2, <1>3, <1>4, <1>5, <1>6, <1>7 DEF Next, DeletionStep

(* The row of a run that was not interrupted is shown once it is over. *)
LEMMA VisibleIsOverKept ==
  ASSUME LogInv, [Next]_vars, NEW v \in Turns, Covered(v)'
  PROVE  rows'[v] = "visible" => pc'[v] = "over"
<1> USE DEF rowVars, copies, turnVars, writeVars, deleteVars, historyVars, bounds
<1>0. Covered(v) /\ (rows[v] = "visible" => pc[v] = "over")
  BY StaysUncovered DEF LogInv, VisibleIsOver
<1> USE <1>0
<1>1. ASSUME NEW t \in Turns, TurnStep(t)
      PROVE  rows'[v] = "visible" => pc'[v] = "over"
  <2>1. CASE Start(t) \/ LoadCache(t) \/ LoadCacheFails(t) \/ LoadRow(t) \/
            LoadRowFails(t)
    BY <2>1 DEF Start, LoadCache, LoadCacheFails, LoadRow, LoadRowFails, Step,
       Loaded, LogInv, HistoryTypes, RowTypes, PlaceTypes, Covered
  <2>2. CASE Replay(t) \/ BackfillDone(t) \/ Compose(t) \/ ComposeTrimmed(t)
            \/ CallTools(t) \/ ToolsDone(t) \/ Answer(t)
    BY <2>2 DEF Replay, BackfillDone, Compose, ComposeTrimmed, CallTools,
       ToolsDone, Answer, Step, Speak, LogInv, HistoryTypes, RowTypes,
       PlaceTypes, Covered
  <2>3. CASE Break(t) \/ BreakEarly(t) \/ SaveDone(t) \/ CutSave(t)
    BY <2>3 DEF Break, BreakEarly, SaveDone, CutSave, Step, LogInv,
       HistoryTypes, RowTypes, PlaceTypes, Covered
  <2>4. CASE AppendRead(t) \/ AppendCommit(t) \/ AppendFails(t)
    <3>1. UNCHANGED <<rows, pc>>
      BY <2>4 DEF AppendRead, AppendCommit, AppendFails, AfterAppend
    <3> QED
      BY <3>1
  <2>5. CASE Finish(t)
    BY <2>5 DEF Finish, LogInv, HistoryTypes, RowTypes, PlaceTypes, Covered
  <2> QED
    BY <1>1, <2>1, <2>2, <2>3, <2>4, <2>5 DEF TurnStep
<1>2. ASSUME NEW w \in Writers, WriterStep(w)
      PROVE  rows'[v] = "visible" => pc'[v] = "over"
  <2>1. CASE WriteCache(w) \/ WriteCacheFails(w) \/ WriteRow(w) \/
            WriteRowFails(w)
    <3>1. UNCHANGED <<rows, pc>>
      BY <2>1 DEF WriteCache, WriteCacheFails, WriteRow, WriteRowFails, WriteStep
    <3> QED
      BY <3>1
  <2> QED
    BY <1>2, <2>1 DEF WriterStep
<1>3. ASSUME NEW d \in Deletions, NEW t \in Turns, DeleteUser(d, t) \/ DeleteAnswer(d, t)
      PROVE  rows'[v] = "visible" => pc'[v] = "over"
  <2>1. CASE DeleteUser(d, t) \/ DeleteAnswer(d, t)
    BY <2>1 DEF DeleteUser, DeleteAnswer, DeleteStep, LogInv, HistoryTypes,
       RowTypes, PlaceTypes, Covered
  <2> QED
    BY <1>3, <2>1
<1>4. ASSUME NEW d \in Deletions, DeletionStep(d),
             ~(\E t \in Turns : DeleteUser(d, t) \/ DeleteAnswer(d, t))
      PROVE  rows'[v] = "visible" => pc'[v] = "over"
  <2>1. CASE Rebuild(d) \/ DeleteDone(d) \/ WipeCache(d) \/ WipeRow(d)
    <3>1. UNCHANGED <<rows, pc>>
      BY <2>1 DEF Rebuild, DeleteDone, WipeCache, WipeRow, DeleteStep
    <3> QED
      BY <3>1
  <2>2. CASE WipeRuns(d)
    <3>1. rows'[v] # "visible"
      BY <2>2 DEF WipeRuns
    <3> QED
      BY <3>1
  <2> QED
    BY <1>4, <2>1, <2>2 DEF DeletionStep
<1>5. CASE Expire
  <2>1. UNCHANGED <<rows, pc>>
    BY <1>5 DEF Expire
  <2> QED
    BY <2>1
<1>6. ASSUME NEW p \in Processes, Restart(p)
      PROVE  rows'[v] = "visible" => pc'[v] = "over"
  BY <1>6 DEF Restart, LogInv, HistoryTypes, RowTypes, PlaceTypes, Covered
<1>7. CASE UNCHANGED vars
  <2>1. UNCHANGED <<rows, pc>>
    BY <1>7 DEF vars
  <2> QED
    BY <2>1
<1> QED
  BY <1>1, <1>2, <1>3, <1>4, <1>5, <1>6, <1>7 DEF Next, DeletionStep

(* When the append is past, the transcript says what the turn said. *)
LEMMA LoggedOnceSavedKept ==
  ASSUME LogInv, [Next]_vars, NEW v \in Turns, Covered(v)'
  PROVE  InLog(v)' => Own(v) \subseteq Said(log)'
<1> USE DEF rowVars, copies, turnVars, writeVars, deleteVars, historyVars, bounds
<1>0. Covered(v) /\ (InLog(v) => Own(v) \subseteq Said(log))
  BY StaysUncovered DEF LogInv, LoggedOnceSaved
<1> USE <1>0
<1>1. ASSUME NEW t \in Turns, TurnStep(t)
      PROVE  InLog(v)' => Own(v) \subseteq Said(log)'
  <2>1. CASE Start(t) \/ LoadCache(t) \/ LoadCacheFails(t) \/ LoadRow(t) \/
            LoadRowFails(t)
    BY <2>1, TurnsAndDeletions DEF Start, LoadCache, LoadCacheFails, LoadRow,
       LoadRowFails, Step, Loaded, InLog, Covered, LogInv, HistoryTypes,
       PlaceTypes
  <2>2. CASE BackfillDone(t) \/ Compose(t) \/ ComposeTrimmed(t) \/
            CallTools(t) \/ ToolsDone(t)
    BY <2>2, TurnsAndDeletions DEF BackfillDone, Compose, ComposeTrimmed,
       CallTools, ToolsDone, Step, Speak, InLog, Covered, LogInv,
       HistoryTypes, PlaceTypes
  <2>3. CASE Answer(t) \/ Break(t) \/ BreakEarly(t) \/ AppendRead(t)
    BY <2>3, TurnsAndDeletions DEF Answer, Break, BreakEarly, AppendRead,
       Speak, Step, InLog, Covered, LogInv, HistoryTypes, PlaceTypes
  <2>4. CASE AppendCommit(t) \/ AppendFails(t)
    <3>1. /\ AfterAppend(t) /\ UNCHANGED <<pc, stopped, cut, mem>> /\ wpc[t] \in {"append", "commit"}
          /\ \A w \in Writers \ {t} : wpc'[w] = wpc[w]
      BY <2>4 DEF AppendCommit, AppendFails, AfterAppend, LogInv, HistoryTypes, PlaceTypes
    <3>2. Said(log) \subseteq Said(log')
      BY <2>4, AppendCommitMakes DEF AppendFails, LogInv, HistoryTypes
    <3>3. CASE v = t /\ pc[t] = "saving"
      <4>1. v \notin unlogged' /\ v \notin stopped
        BY <3>1 DEF Covered
      <4>2. Own(t) \subseteq Said(mem[t])
        BY <3>3, <4>1 DEF LogInv, SaysItsOwn, SpokeFor
      <4>3. Said(mem[t]) \subseteq Said(log')
        BY <2>4, <3>3, <4>1, AppendSays DEF LogInv, AppendFails
      <4> QED
        BY <3>3, <4>2, <4>3
    <3>4. CASE v # t \/ pc[t] # "saving"
      <4>1. InLog(v)' => InLog(v)
        BY <3>1, <3>4, TurnsAndDeletions DEF InLog
      <4> QED
        BY <3>2, <4>1
    <3> QED
      BY <3>3, <3>4
  <2>5. CASE Replay(t)
    BY <2>5, TurnsAndDeletions DEF Replay, Step, InLog, Covered, LogInv,
       HistoryTypes, PlaceTypes
  <2>6. CASE SaveDone(t)
    <3>1. UNCHANGED <<log, wpc>> /\ pc' = [pc EXCEPT ![t] = "over"] /\ pc[t] = "saving"
      BY <2>6 DEF SaveDone, Step
    <3>2. wpc[t] = "idle"
      BY <2>6 DEF SaveDone, Asleep
    <3> QED
      BY <3>1, <3>2 DEF InLog, LogInv, HistoryTypes, PlaceTypes
  <2>7. CASE CutSave(t)
    <3>1. UNCHANGED <<log, wpc>> /\ pc' = [pc EXCEPT ![t] = "over"]
      BY <2>7 DEF CutSave, Step
    <3>2. v # t
      BY <2>7 DEF CutSave, Covered
    <3> QED
      BY <3>1, <3>2 DEF InLog, LogInv, HistoryTypes, PlaceTypes
  <2>8. CASE Finish(t)
    <3>1. UNCHANGED <<log, pc, wpc>>
      BY <2>8 DEF Finish
    <3> QED
      BY <3>1 DEF InLog
  <2> QED
    BY <1>1, <2>1, <2>2, <2>3, <2>4, <2>5, <2>6, <2>7, <2>8 DEF TurnStep
<1>2. ASSUME NEW w \in Writers, WriterStep(w)
      PROVE  InLog(v)' => Own(v) \subseteq Said(log)'
  <2>1. CASE WriteCache(w) \/ WriteCacheFails(w) \/ WriteRow(w) \/
            WriteRowFails(w)
    BY <2>1, TurnsAndDeletions DEF WriteCache, WriteCacheFails, WriteRow,
       WriteRowFails, WriteStep, InLog, Covered, LogInv, HistoryTypes,
       PlaceTypes
  <2> QED
    BY <1>2, <2>1 DEF WriterStep
<1>3. ASSUME NEW d \in Deletions, NEW t \in Turns, DeleteUser(d, t) \/ DeleteAnswer(d, t)
      PROVE  InLog(v)' => Own(v) \subseteq Said(log)'
  <2>1. CASE DeleteUser(d, t) \/ DeleteAnswer(d, t)
    <3>1. UNCHANGED <<log, pc, wpc>>
      BY <2>1 DEF DeleteUser, DeleteAnswer, DeleteStep
    <3> QED
      BY <3>1 DEF InLog
  <2> QED
    BY <1>3, <2>1
<1>4. ASSUME NEW d \in Deletions, DeletionStep(d),
             ~(\E t \in Turns : DeleteUser(d, t) \/ DeleteAnswer(d, t))
      PROVE  InLog(v)' => Own(v) \subseteq Said(log)'
  <2>1. CASE DeleteDone(d) \/ WipeCache(d) \/ WipeRow(d) \/ WipeRuns(d)
    <3>1. UNCHANGED <<log, pc, wpc>>
      BY <2>1 DEF DeleteDone, WipeCache, WipeRow, WipeRuns, DeleteStep
    <3> QED
      BY <3>1 DEF InLog
  <2>2. CASE Rebuild(d)
    BY <2>2, TurnsAndDeletions DEF Rebuild, DeleteStep, InLog, Covered,
       LogInv, HistoryTypes, PlaceTypes
  <2> QED
    BY <1>4, <2>1, <2>2 DEF DeletionStep
<1>5. CASE Expire
  <2>1. UNCHANGED <<log, pc, wpc>>
    BY <1>5 DEF Expire
  <2> QED
    BY <2>1 DEF InLog
<1>6. ASSUME NEW p \in Processes, Restart(p)
      PROVE  InLog(v)' => Own(v) \subseteq Said(log)'
  <2>1. UNCHANGED log
    BY <1>6 DEF Restart
  <2>2. pc'[v] = pc[v] /\ (wpc'[v] = wpc[v] \/ home[v] = p)
    BY <1>6, TurnsAndDeletions DEF Restart, Covered
  <2>3. CASE pc[v] # "saving"
    BY <2>1, <2>2, <2>3 DEF InLog
  <2>4. CASE pc[v] = "saving"
    <4>1. home[v] # p
      BY <1>6, <2>4, TurnsAndDeletions DEF Restart, Covered, Idle
    <4> QED
      BY <2>1, <2>2, <4>1 DEF InLog
  <2> QED
    BY <2>3, <2>4
<1>7. CASE UNCHANGED vars
  <2>1. UNCHANGED <<log, pc, wpc>>
    BY <1>7 DEF vars
  <2> QED
    BY <2>1 DEF InLog
<1> QED
  BY <1>1, <1>2, <1>3, <1>4, <1>5, <1>6, <1>7 DEF Next, DeletionStep

(* Nothing is said, and no message exists, when the system starts. *)
LEMMA InitLog ==
  ASSUME Init
  PROVE  LogInv
<1>0. /\ <<>> \in Seq(Message) /\ Elements(<<>>) = {} /\ Said(<<>>) = {}
      /\ Held(short) = <<>> /\ Held(cache) = <<>>
  BY NothingSaid DEF Init, Held
<1>1. RowTypes
  BY DEF Init, RowTypes
<1>2. MessageTypes
  BY <1>0 DEF Init, MessageTypes
<1>3. PlaceTypes
  BY DEF Init, PlaceTypes, Places
<1>4. CountTypes
  <2>1. Len(log) = 0 /\ scene.rounds \in Nat
    BY HistoryAssumption DEF Init, SceneType
  <2> QED
    BY <2>1 DEF Init, CountTypes
<1>5. SetTypes
  BY DEF Init, SetTypes
<1>6. MessagesKept
  <2>1. /\ \A t \in Turns : Elements(mem[t]) = {}
        /\ \A x \in Writers : Elements(wlist[x]) = {}
        /\ Elements(log) = {}
    BY <1>0 DEF Init
  <2>2. Everywhere = {}
    BY <1>0, <2>1 DEF Everywhere, AllOf
  <2> QED
    BY <2>2 DEF MessagesKept, WellKept
<1>7. PlainCopies
  BY <1>0 DEF Init, PlainCopies, Plain
<1>8. LoggedFirst
  BY <1>0 DEF Init, LoggedFirst, LoggedCopies, Logged
<1>9. SaysItsOwn /\ LoggedOnceSaved /\ VisibleIsOver
  BY DEF Init, SaysItsOwn, SpokeFor, LoggedOnceSaved, InLog, VisibleIsOver
<1> QED
  BY <1>1, <1>2, <1>3, <1>4, <1>5, <1>6, <1>7, <1>8, <1>9 DEF LogInv, HistoryTypes

(* Every step preserves the invariant. *)
LEMMA NextLog ==
  ASSUME LogInv, [Next]_vars
  PROVE  LogInv'
<1>1. HistoryTypes'
  BY RowTypesKept, MessageTypesKept, PlaceTypesKept, CountTypesKept, SetTypesKept
     DEF LogInv, HistoryTypes
<1>2. MessagesKept' /\ PlainCopies'
  BY MessagesKeptKept, PlainCopiesKept DEF LogInv
<1>3. LoggedFirst'
  <2> SUFFICES ASSUME NEW v \in Turns, Covered(v)'
               PROVE  LoggedCopies(v)'
    BY DEF LoggedFirst
  <2> QED
    BY LoggedFirstKept
<1>4. SaysItsOwn'
  BY SaysItsOwnKept DEF SaysItsOwn
<1>5. LoggedOnceSaved'
  <2> SUFFICES ASSUME NEW v \in Turns, Covered(v)', InLog(v)'
               PROVE  (Own(v) \subseteq Said(log))'
    BY DEF LoggedOnceSaved
  <2> QED
    BY LoggedOnceSavedKept
<1>6. VisibleIsOver'
  <2> SUFFICES ASSUME NEW v \in Turns, Covered(v)', (rows[v] = "visible")'
               PROVE  (pc[v] = "over")'
    BY DEF VisibleIsOver
  <2> QED
    BY VisibleIsOverKept
<1> QED
  BY <1>1, <1>2, <1>3, <1>4, <1>5, <1>6 DEF LogInv

(* The inductive invariant holds in every reachable state. *)
THEOREM LogInvHolds == Spec => []LogInv
<1>1. Init => LogInv
  BY InitLog
<1>2. LogInv /\ [Next]_vars => LogInv'
  BY NextLog
<1> QED
  BY <1>1, <1>2, PTL DEF Spec

(* Messages with ids handed out before are a history. *)
LEMMA HistoryIs ==
  ASSUME NEW s \in Seq(Message), \A m \in Elements(s) : m.id <= nextId, nextId \in Nat
  PROVE  IsHistory(s)
<1> DEFINE M == [id : 0..nextId, kind : Kinds, says : SUBSET Parts]
<1>1. ASSUME NEW i \in 1..Len(s)
      PROVE  s[i] \in M
  <2>1. s[i] \in Message /\ s[i] \in Elements(s)
    BY DEF Elements
  <2>2. s[i].id \in 0..nextId
    BY <2>1 DEF Message
  <2> QED
    BY <2>1, <2>2 DEF Message
<1>2. s \in Seq(M)
  <2> HIDE DEF M
  <2> QED
    BY <1>1
<1> QED
  BY <1>2 DEF IsHistory

(* The invariant implies the type invariant. *)
LEMMA TypesShown ==
  ASSUME LogInv
  PROVE  TypeOK
<1>1. \A m \in Everywhere : m.id <= nextId
  BY DEF LogInv, MessagesKept, WellKept
<1>2. nextId \in Nat
  BY DEF LogInv, HistoryTypes, RowTypes
<1>3. IsHistory(log)
  BY <1>1, <1>2, AllHas, HistoryIs DEF LogInv, HistoryTypes, MessageTypes
<1>4. ASSUME NEW copy \in {short, cache}, copy # NoCopy
      PROVE  /\ IsHistory(copy)
             /\ \A m \in Elements(copy) : m.kind \in {"user", "assistant", "skill", "summary"}
  <2>1. copy \in Seq(Message) /\ Held(copy) = copy
    BY <1>4 DEF LogInv, HistoryTypes, MessageTypes, Held
  <2>2. Elements(copy) \subseteq Everywhere /\ Plain(copy)
    BY <1>4, <2>1, AllHas DEF LogInv, PlainCopies
  <2>3. IsHistory(copy)
    BY <1>1, <1>2, <2>1, <2>2, HistoryIs
  <2> QED
    BY <2>2, <2>3 DEF Plain, PlainKinds
<1>5. \A t \in Turns : IsHistory(mem[t])
  BY <1>1, <1>2, AllHas, HistoryIs DEF LogInv, HistoryTypes, MessageTypes
<1>6. \A w \in Writers : IsHistory(wlist[w])
  BY <1>1, <1>2, AllHas, HistoryIs DEF LogInv, HistoryTypes, MessageTypes
<1>7. \A t \in Turns : rounds[t] \in 0..scene.rounds /\ base[t] \in 0..Len(log)
  <2>1. scene.rounds \in Nat /\ Len(log) \in Nat
    BY HistoryAssumption DEF LogInv, HistoryTypes, RowTypes, MessageTypes, SceneType
  <2> QED
    BY <2>1 DEF LogInv, HistoryTypes, CountTypes
<1>8. /\ rows \in [Turns -> {"none", "running", "visible", "deleted"}] /\ answered \subseteq Turns
      /\ disabled \subseteq Processes
  BY DEF LogInv, HistoryTypes, RowTypes
<1>9. /\ home \in [Writers -> Processes]
      /\ pc \in [Turns -> {"idle", "load", "loadRow", "replay", "backfill", "ready",
                           "talk", "tools", "saving", "over", "dead"}]
      /\ wpc \in [Writers -> {"idle", "append", "commit", "cache", "row"}]
      /\ dpc \in [Deletions -> {"idle", "rebuild", "save", "wipe", "wipeRuns", "over", "dead"}]
  BY DEF LogInv, HistoryTypes, PlaceTypes, Places
<1>10. /\ \A d \in Deletions : dpart[d] \subseteq Parts
       /\ erased \subseteq Parts
       /\ stopped \union spoke \union cut \union unlogged \union replayed \subseteq Turns
       /\ disturbed \in BOOLEAN
  BY DEF LogInv, HistoryTypes, SetTypes
<1> QED
  BY <1>3, <1>4, <1>5, <1>6, <1>7, <1>8, <1>9, <1>10 DEF TypeOK

(* Every variable has its type: in particular no tool call or result ever   *)
(* reaches a short-term copy, whoever writes it (prepare_for_save).          *)
THEOREM TypesAlwaysHold == Spec => []TypeOK
BY LogInvHolds, TypesShown, PTL

(* The transcript comes first: chat_stream's save appends to the transcript *)
(* before it writes the short-term copies, so that what a copy says of a     *)
(* turn nothing interrupted is in the transcript, whatever else goes wrong. *)
THEOREM TranscriptComesFirst == Spec => []TranscriptFirst
<1>1. LogInv => TranscriptFirst
  <2> SUFFICES ASSUME LogInv, NEW t \in Turns \ (stopped \union cut \union unlogged), pc[t] # "dead"
               PROVE  (Said(Held(short)) \union Said(Held(cache))) \intersect ({t} \X {"user", "answer"})
                        \subseteq Said(log)
    BY DEF TranscriptFirst
  <2>1. Covered(t)
    BY DEF Covered
  <2> QED
    BY <2>1 DEF LogInv, LoggedFirst, LoggedCopies, Logged, Own
<1> QED
  BY <1>1, LogInvHolds, PTL

-----------------------------------------------------------------------------
(* One writer at a time, and none interrupted. *)

(* A turn and a deletion that are under way. *)
Working(t) == ~Idle(t) \/ rows[t] = "running" \/ ~Asleep(t)
Deleting(d) == dpc[d] \notin {"idle", "over", "dead"} \/ ~Asleep(d)

(* The steps that leave the history undisturbed; a request starts alone. *)
QuietTurnStep(t) ==
  \/ LoadCache(t) \/ LoadRow(t) \/ Replay(t) \/ BackfillDone(t) \/ Compose(t)
  \/ CallTools(t) \/ ToolsDone(t) \/ Answer(t) \/ Break(t)
  \/ BreakEarly(t) /\ Asleep(t)
  \/ SaveDone(t) \/ Finish(t) \/ AppendRead(t) \/ AppendCommit(t)
(* The writes of the copies that succeed, and what a deletion does once
   begun. *)
QuietWriterStep(w) == WriteCache(w) \/ WriteRow(w)
QuietDeletionStep(d) == Rebuild(d) \/ DeleteDone(d) \/ WipeRow(d) \/ WipeRuns(d)
(* Steps that leave the history undisturbed only when nobody is at work. *)
LoneStep ==
  \/ \E t \in Turns : Start(t)
  \/ \E d \in Deletions : (\E t \in Turns : DeleteUser(d, t) \/ DeleteAnswer(d, t)) \/ WipeCache(d)
  \/ \E p \in Processes : Restart(p)

(* A step that leaves the history undisturbed is one of these. *)
LEMMA QuietSteps ==
  ASSUME HistoryTypes, [Next]_vars, ~disturbed'
  PROVE  /\ ~disturbed
         /\ \/ \E t \in Turns : QuietTurnStep(t)
            \/ \E w \in Writers : QuietWriterStep(w)
            \/ \E d \in Deletions : QuietDeletionStep(d)
            \/ LoneStep /\ ~Busy
            \/ Expire
            \/ UNCHANGED vars
<1> USE DEF historyVars, bounds
<1> DEFINE Goal == \/ \E t \in Turns : QuietTurnStep(t)
                   \/ \E w \in Writers : QuietWriterStep(w)
                   \/ \E d \in Deletions : QuietDeletionStep(d)
                   \/ LoneStep /\ ~Busy
                   \/ Expire
                   \/ UNCHANGED vars
<1>1. ASSUME NEW t \in Turns, TurnStep(t)
      PROVE  ~disturbed /\ Goal
  <2>1. CASE Start(t)
    <3>1. ~disturbed /\ ~Busy
      BY <2>1 DEF Start, HistoryTypes, SetTypes
    <3> QED
      BY <2>1, <3>1 DEF LoneStep
  <2>2. CASE LoadCacheFails(t) \/ LoadRowFails(t) \/ ComposeTrimmed(t) \/ CutSave(t) \/ AppendFails(t)
    BY <2>2 DEF LoadCacheFails, LoadRowFails, ComposeTrimmed, CutSave, AppendFails
  <2>3. CASE BreakEarly(t)
    <3>1. ~disturbed /\ Asleep(t)
      BY <2>3 DEF BreakEarly, HistoryTypes, SetTypes
    <3> QED
      BY <2>3, <3>1 DEF QuietTurnStep
  <2>4. CASE \/ LoadCache(t) \/ LoadRow(t) \/ Replay(t) \/ BackfillDone(t) \/ Compose(t)
             \/ CallTools(t) \/ ToolsDone(t) \/ Answer(t) \/ Break(t)
             \/ SaveDone(t) \/ Finish(t) \/ AppendRead(t) \/ AppendCommit(t)
    <3>1. ~disturbed
      BY <2>4 DEF LoadCache, LoadRow, Replay, BackfillDone, Compose, CallTools, ToolsDone,
                  Answer, Break, SaveDone, Finish, AppendRead, AppendCommit
    <3> QED
      BY <2>4, <3>1 DEF QuietTurnStep
  <2> QED
    BY <1>1, <2>1, <2>2, <2>3, <2>4 DEF TurnStep
<1>2. ASSUME NEW w \in Writers, WriterStep(w)
      PROVE  ~disturbed /\ Goal
  <2>1. ~disturbed /\ QuietWriterStep(w)
    BY <1>2 DEF WriterStep, QuietWriterStep, WriteCache, WriteCacheFails, WriteRow,
       WriteRowFails
  <2> QED
    BY <2>1
<1>3. ASSUME NEW d \in Deletions, DeletionStep(d)
      PROVE  ~disturbed /\ Goal
  <2>1. CASE \E t \in Turns : DeleteUser(d, t) \/ DeleteAnswer(d, t)
    <3>1. ~disturbed /\ ~Busy
      BY <2>1 DEF DeleteUser, DeleteAnswer, HistoryTypes, SetTypes
    <3> QED
      BY <2>1, <3>1 DEF LoneStep
  <2>2. CASE WipeCache(d)
    <3>1. ~disturbed /\ ~Busy
      BY <2>2 DEF WipeCache, HistoryTypes, SetTypes
    <3> QED
      BY <2>2, <3>1 DEF LoneStep
  <2>3. CASE Rebuild(d) \/ DeleteDone(d) \/ WipeRow(d) \/ WipeRuns(d)
    <3>1. ~disturbed
      BY <2>3 DEF Rebuild, DeleteDone, WipeRow, WipeRuns
    <3> QED
      BY <2>3, <3>1 DEF QuietDeletionStep
  <2> QED
    BY <1>3, <2>1, <2>2, <2>3 DEF DeletionStep
<1>4. ASSUME Expire
      PROVE  ~disturbed /\ Goal
  BY <1>4 DEF Expire
<1>5. ASSUME NEW p \in Processes, Restart(p)
      PROVE  ~disturbed /\ Goal
  <2>1. ~disturbed /\ ~Busy
    BY <1>5 DEF Restart, HistoryTypes, SetTypes
  <2> QED
    BY <1>5, <2>1 DEF LoneStep
<1>6. ASSUME UNCHANGED vars
      PROVE  ~disturbed /\ Goal
  BY <1>6 DEF vars
<1> QED
  BY <1>1, <1>2, <1>3, <1>4, <1>5, <1>6 DEF Next

(* At most one turn or deletion is at work. *)
OneAtATime ==
  /\ \A t, u \in Turns : Working(t) /\ Working(u) => t = u
  /\ \A d, e \in Deletions : Deleting(d) /\ Deleting(e) => d = e
  /\ \A t \in Turns, d \in Deletions : ~(Working(t) /\ Deleting(d))

(* What is at work was so before, unless it started alone. *)
NobodyElse(w) ==
  /\ \A u \in Turns \ {w} : ~Working(u)
  /\ \A d \in Deletions \ {w} : ~Deleting(d)

(* Whoever takes such a step was at work. *)
LEMMA StepsWork ==
  ASSUME HistoryTypes
  PROVE  /\ \A t \in Turns : QuietTurnStep(t) => Working(t)
         /\ \A t \in Turns : QuietWriterStep(t) => Working(t)
         /\ \A d \in Deletions : QuietWriterStep(d) \/ QuietDeletionStep(d) => Deleting(d)
<1>1. ASSUME NEW t \in Turns, QuietTurnStep(t)
      PROVE  Working(t)
  <2>1. pc[t] \notin {"idle", "over", "dead"} \/ rows[t] = "running" \/ wpc[t] # "idle"
    BY <1>1 DEF QuietTurnStep, LoadCache, LoadRow, Loaded, Replay, BackfillDone,
       Compose, CallTools,
            ToolsDone, Answer, Break, BreakEarly, SaveDone, Finish, AppendRead, AppendCommit, Speak, Step
  <2> QED
    BY <2>1 DEF Working, Idle, Asleep
<1>2. ASSUME NEW w \in Writers, QuietWriterStep(w)
      PROVE  ~Asleep(w)
  BY <1>2 DEF QuietWriterStep, WriteCache, WriteRow, WriteStep, Asleep
<1>3. ASSUME NEW d \in Deletions, QuietDeletionStep(d)
      PROVE  dpc[d] \notin {"idle", "over", "dead"}
  BY <1>3 DEF QuietDeletionStep, Rebuild, DeleteDone, WipeRow, WipeRuns, DeleteStep
<1> QED
  BY <1>1, <1>2, <1>3, TurnsAndDeletions DEF Working, Deleting

(* The server is busy when a turn or a deletion is at work. *)
LEMMA NobodyAtWork ==
  ASSUME HistoryTypes
  PROVE  ~Busy <=> (\A t \in Turns : ~Working(t)) /\ (\A d \in Deletions : ~Deleting(d))
<1>1. Writers = Turns \union Deletions
  BY DEF Writers
<1> QED
  BY <1>1 DEF Busy, Working, Deleting

(* Whoever is at work is alone. *)
LEMMA Alone ==
  ASSUME HistoryTypes, OneAtATime
  PROVE  /\ \A t \in Turns : Working(t) => NobodyElse(t)
         /\ \A d \in Deletions : Deleting(d) => NobodyElse(d)
BY TurnsAndDeletions DEF OneAtATime, NobodyElse

(* What a step leaves of those who do not take it. *)
Untouched(u) ==
  /\ u \in Turns => /\ pc'[u] = pc[u] /\ mem'[u] = mem[u] /\ base'[u] = base[u]
                    /\ rows'[u] = rows[u] \/ (rows[u] # "none" /\ rows'[u] = "deleted")
  /\ u \in Deletions => dpc'[u] = dpc[u] /\ dpart'[u] = dpart[u]
  /\ wpc'[u] = wpc[u] /\ wlist'[u] = wlist[u]

(* A step of one turn or deletion that leaves the history undisturbed. *)
StepOf(w) ==
  \/ w \in Turns /\ (QuietTurnStep(w) \/ Start(w))
  \/ QuietWriterStep(w)
  \/ w \in Deletions /\ (QuietDeletionStep(w) \/ WipeCache(w))
  \/ w \in Deletions /\ \E t \in Turns : DeleteUser(w, t) \/ DeleteAnswer(w, t)

(* A step touches nobody but the one who takes it, except that a deletion
   may take rows. *)
LEMMA OthersUntouched ==
  ASSUME HistoryTypes, NEW w \in Writers, StepOf(w), NEW u \in Writers \ {w}
  PROVE  Untouched(u)
<1> USE DEF rowVars, copies, turnVars, writeVars, deleteVars, historyVars, bounds, Untouched
<1>1. CASE w \in Turns /\ (QuietTurnStep(w) \/ Start(w))
  <2>1. CASE Start(w) \/ Finish(w) \/ LoadCache(w) \/ LoadRow(w)
    BY <2>1 DEF Start, Finish, LoadCache, LoadRow, Loaded, Step, HistoryTypes,
       PlaceTypes, RowTypes, MessageTypes
  <2>2. CASE Replay(w) \/ BackfillDone(w)
    BY <2>2 DEF Replay, BackfillDone, Step, HistoryTypes, PlaceTypes, RowTypes, MessageTypes
  <2>3. CASE Compose(w) \/ CallTools(w) \/ ToolsDone(w) \/ Answer(w) \/ Break(w)
    BY <2>3 DEF Compose, CallTools, ToolsDone, Answer, Break, Speak, Step,
       HistoryTypes, PlaceTypes, RowTypes, MessageTypes
  <2>4. CASE BreakEarly(w) \/ SaveDone(w) \/ AppendRead(w) \/ AppendCommit(w)
    BY <2>4 DEF BreakEarly, SaveDone, AppendRead, AppendCommit, AfterAppend, Step,
       HistoryTypes, PlaceTypes,
                RowTypes, MessageTypes, CountTypes
  <2> QED
    BY <1>1, <2>1, <2>2, <2>3, <2>4 DEF QuietTurnStep
<1>2. CASE QuietWriterStep(w)
  BY <1>2 DEF QuietWriterStep, WriteCache, WriteRow, WriteStep, HistoryTypes, PlaceTypes
<1>3. CASE w \in Deletions /\ QuietDeletionStep(w)
  BY <1>3, TurnsAndDeletions DEF QuietDeletionStep, Rebuild, DeleteDone, WipeRow,
     WipeRuns, DeleteStep,
     HistoryTypes, PlaceTypes, RowTypes, MessageTypes
<1>4. CASE w \in Deletions /\ WipeCache(w)
  BY <1>4, TurnsAndDeletions DEF WipeCache, DeleteStep, HistoryTypes, PlaceTypes
<1>5. CASE w \in Deletions /\ \E t \in Turns : DeleteUser(w, t) \/ DeleteAnswer(w, t)
  BY <1>5, TurnsAndDeletions DEF DeleteUser, DeleteAnswer, DeleteStep, HistoryTypes,
     PlaceTypes, RowTypes, SetTypes
<1> QED
  BY <1>1, <1>2, <1>3, <1>4, <1>5 DEF StepOf

(* Whoever takes a step works alone, then and afterwards. *)
LEMMA WorksAlone ==
  ASSUME HistoryTypes, OneAtATime, [Next]_vars, ~disturbed', NEW w \in Writers, StepOf(w)
  PROVE  NobodyElse(w) /\ NobodyElse(w)'
<1> USE DEF rowVars, copies, turnVars, writeVars, deleteVars, historyVars, bounds
<1>1. ASSUME \/ w \in Turns /\ Start(w)
             \/ w \in Deletions /\ WipeCache(w)
             \/ w \in Deletions /\ \E t \in Turns : DeleteUser(w, t) \/ DeleteAnswer(w, t)
      PROVE  NobodyElse(w)
  <2>1. ~Busy
    BY <1>1 DEF Start, WipeCache, DeleteUser, DeleteAnswer, HistoryTypes, SetTypes
  <2>2. (\A u \in Turns : ~Working(u)) /\ (\A d \in Deletions : ~Deleting(d))
    BY <2>1, NobodyAtWork
  <2> QED
    BY <2>2 DEF NobodyElse
<1>2. ASSUME \/ w \in Turns /\ QuietTurnStep(w)
             \/ QuietWriterStep(w)
             \/ w \in Deletions /\ QuietDeletionStep(w)
      PROVE  NobodyElse(w)
  <2>1. w \in Turns \/ w \in Deletions
    BY DEF Writers
  <2>2. CASE w \in Turns /\ (QuietTurnStep(w) \/ QuietWriterStep(w))
    <3>1. Working(w)
      BY <2>2, StepsWork
    <3> QED
      BY <2>2, <3>1, Alone
  <2>3. CASE w \in Deletions /\ (QuietWriterStep(w) \/ QuietDeletionStep(w))
    <3>1. Deleting(w)
      BY <2>3, StepsWork
    <3> QED
      BY <2>3, <3>1, Alone
  <2> QED
    BY <1>2, <2>1, <2>2, <2>3
<1>3. NobodyElse(w)
  BY <1>1, <1>2 DEF StepOf
<1>4. \A u \in Turns \ {w} : Untouched(u) /\ ~Working(u)
  BY <1>3, OthersUntouched, TurnsAndDeletions DEF NobodyElse
<1>5. \A d \in Deletions \ {w} : Untouched(d) /\ ~Deleting(d)
  BY <1>3, OthersUntouched, TurnsAndDeletions DEF NobodyElse
<1>6. \A u \in Turns \ {w} : ~Working(u)'
  BY <1>4 DEF Working, Idle, Asleep, Untouched
<1>7. \A d \in Deletions \ {w} : ~Deleting(d)'
  BY <1>5 DEF Deleting, Asleep, Untouched
<1> QED
  BY <1>3, <1>6, <1>7 DEF NobodyElse

(* The steps nobody takes. *)
LEMMA StepsOf ==
  ASSUME HistoryTypes, [Next]_vars, ~disturbed'
  PROVE  /\ ~disturbed
         /\ \/ \E w \in Writers : StepOf(w)
            \/ ~Busy /\ \E p \in Processes : Restart(p)
            \/ Expire
            \/ UNCHANGED vars
<1>1. CASE LoneStep /\ ~Busy
  BY <1>1, QuietSteps, TurnsAndDeletions DEF LoneStep, StepOf
<1> QED
  BY <1>1, QuietSteps, TurnsAndDeletions DEF StepOf

(* Undisturbed, there is never more than one at work. *)
LEMMA OneAtATimeKept ==
  ASSUME HistoryTypes, OneAtATime, [Next]_vars, ~disturbed'
  PROVE  OneAtATime'
<1>1. ASSUME NEW w \in Writers, StepOf(w)
      PROVE  OneAtATime'
  BY <1>1, WorksAlone, TurnsAndDeletions DEF OneAtATime, NobodyElse
<1>2. ASSUME ~Busy, NEW p \in Processes, Restart(p)
      PROVE  OneAtATime'
  <2>1. (\A t \in Turns : ~Working(t)) /\ (\A d \in Deletions : ~Deleting(d))
    BY <1>2, NobodyAtWork
  <2>2. \A t \in Turns : ~Working(t)'
    BY <1>2, <2>1, TurnsAndDeletions DEF Restart, Working, Idle, Asleep, rowVars
  <2>3. \A d \in Deletions : ~Deleting(d)'
    BY <1>2, <2>1, TurnsAndDeletions DEF Restart, Deleting, Asleep
  <2> QED
    BY <2>2, <2>3 DEF OneAtATime
<1>3. CASE Expire \/ UNCHANGED vars
  <2>1. UNCHANGED <<rows, pc, wpc, dpc>>
    BY <1>3 DEF Expire, vars, rowVars, turnVars, writeVars, deleteVars
  <2>2. (\A t \in Turns : Working(t)' = Working(t)) /\ (\A d \in Deletions : Deleting(d)' = Deleting(d))
    BY <2>1 DEF Working, Deleting, Idle, Asleep
  <2> QED
    BY <2>2 DEF OneAtATime
<1> QED
  BY <1>1, <1>2, <1>3, StepsOf

(* Where a turn is, its row and its save fit together. *)
TurnInStep(t) ==
  /\ pc[t] # "dead"
  /\ pc[t] = "idle" <=> rows[t] = "none"
  /\ pc[t] \in {"load", "loadRow", "replay", "backfill", "ready", "talk", "tools"}
       => rows[t] = "running"
  /\ pc[t] = "saving" => rows[t] \in {"running", "visible"}
  /\ pc[t] = "saving" /\ rows[t] = "visible" => t \in stopped
  /\ wpc[t] # "idle" => pc[t] \in {"backfill", "saving"}
  /\ wpc[t] \in {"append", "commit"} => pc[t] = "saving"
  /\ wpc[t] = "commit" => base[t] = Len(log)

(* A deletion is saved while it waits for its save. *)
DeletionInStep(d) ==
  /\ dpc[d] # "dead"
  /\ wpc[d] # "idle" => dpc[d] = "save" /\ wpc[d] \in {"cache", "row"}

(* Nothing was refused, and everyone is in step. *)
InStep ==
  /\ disabled = {} /\ cut = {} /\ unlogged = {}
  /\ \A t \in Turns : TurnInStep(t)
  /\ \A d \in Deletions : DeletionInStep(d)

(* Those who do not take the step stay where they were. *)
LEMMA OthersInStep ==
  ASSUME HistoryTypes, OneAtATime, InStep, [Next]_vars, ~disturbed', NEW w \in Writers, StepOf(w)
  PROVE  /\ \A u \in Turns \ {w} : TurnInStep(u)'
         /\ \A d \in Deletions \ {w} : DeletionInStep(d)'
<1>1. NobodyElse(w) /\ NobodyElse(w)'
  BY WorksAlone
<1>2. ASSUME NEW u \in Turns \ {w}
      PROVE  TurnInStep(u)'
  <2>1. Untouched(u) /\ ~Working(u)' /\ TurnInStep(u)
    BY <1>1, OthersUntouched, TurnsAndDeletions DEF NobodyElse, InStep
  <2> QED
    BY <2>1 DEF Untouched, Working, Idle, Asleep, TurnInStep
<1>3. ASSUME NEW d \in Deletions \ {w}
      PROVE  DeletionInStep(d)'
  <2>1. Untouched(d) /\ DeletionInStep(d)
    BY <1>1, OthersUntouched, TurnsAndDeletions DEF NobodyElse, InStep
  <2> QED
    BY <2>1 DEF Untouched, DeletionInStep
<1> QED
  BY <1>2, <1>3

(* Undisturbed, no process gives Redis up, no save is cut and no append
   refused. *)
LEMMA NoneRefused ==
  ASSUME HistoryTypes, OneAtATime, InStep, [Next]_vars, ~disturbed'
  PROVE  disabled' = {} /\ cut' = {} /\ unlogged' = {}
<1> USE DEF rowVars, copies, turnVars, writeVars, deleteVars, historyVars, bounds
<1>1. ASSUME NEW w \in Turns, QuietTurnStep(w) \/ Start(w)
      PROVE  disabled' = {} /\ cut' = {} /\ unlogged' = {}
  <2>1. CASE Start(w) \/ LoadCache(w) \/ LoadRow(w) \/ Replay(w) \/
            BackfillDone(w)
    BY <2>1, <1>1 DEF Start, LoadCache, LoadRow, Replay, BackfillDone, Step,
       Loaded, InStep, TurnInStep
  <2>2. CASE Compose(w) \/ CallTools(w) \/ ToolsDone(w) \/ Answer(w) \/
            Break(w)
    BY <2>2, <1>1 DEF Compose, CallTools, ToolsDone, Answer, Break, Step,
       Speak, InStep, TurnInStep
  <2>3. CASE BreakEarly(w) \/ SaveDone(w) \/ Finish(w) \/ AppendRead(w)
    BY <2>3, <1>1 DEF BreakEarly, SaveDone, Finish, AppendRead, Step, InStep,
       TurnInStep
  <2>4. CASE AppendCommit(w)
    BY <2>4, <1>1 DEF AppendCommit, AfterAppend, InStep, TurnInStep
  <2> QED
    BY <1>1, <2>1, <2>2, <2>3, <2>4 DEF QuietTurnStep
<1>2. ASSUME NEW w \in Writers, QuietWriterStep(w)
      PROVE  disabled' = {} /\ cut' = {} /\ unlogged' = {}
  <2>1. CASE WriteCache(w)
    BY <2>1, <1>2 DEF WriteCache, WriteStep, InStep, TurnInStep
  <2>2. CASE WriteRow(w)
    BY <2>2, <1>2 DEF WriteRow, WriteStep, InStep, TurnInStep
  <2> QED
    BY <1>2, <2>1, <2>2 DEF QuietWriterStep
<1>3. ASSUME NEW w \in Deletions, QuietDeletionStep(w) \/ WipeCache(w)
      PROVE  disabled' = {} /\ cut' = {} /\ unlogged' = {}
  <2>1. CASE Rebuild(w)
    BY <2>1, <1>3 DEF Rebuild, DeleteStep, InStep, TurnInStep
  <2>2. CASE DeleteDone(w)
    BY <2>2, <1>3 DEF DeleteDone, DeleteStep, InStep, TurnInStep
  <2>3. CASE WipeRow(w)
    BY <2>3, <1>3 DEF WipeRow, DeleteStep, InStep, TurnInStep
  <2>4. CASE WipeRuns(w)
    BY <2>4, <1>3 DEF WipeRuns, DeleteStep, InStep, TurnInStep
  <2>5. CASE WipeCache(w)
    BY <2>5, <1>3 DEF WipeCache, DeleteStep, InStep, TurnInStep
  <2> QED
    BY <1>3, <2>1, <2>2, <2>3, <2>4, <2>5 DEF QuietDeletionStep
<1>4. ASSUME NEW w \in Deletions, NEW t \in Turns, DeleteUser(w, t) \/ DeleteAnswer(w, t)
      PROVE  disabled' = {} /\ cut' = {} /\ unlogged' = {}
  BY <1>4 DEF DeleteUser, DeleteAnswer, DeleteStep, InStep, TurnInStep
<1>5. ASSUME NEW p \in Processes, Restart(p), ~Busy
      PROVE  disabled' = {} /\ cut' = {} /\ unlogged' = {}
  BY <1>5 DEF Restart, InStep, TurnInStep
<1>6. ASSUME Expire
      PROVE  disabled' = {} /\ cut' = {} /\ unlogged' = {}
  BY <1>6 DEF Expire, InStep, TurnInStep
<1>7. ASSUME UNCHANGED vars
      PROVE  disabled' = {} /\ cut' = {} /\ unlogged' = {}
  BY <1>7 DEF vars, InStep, TurnInStep
<1> QED
  BY <1>1, <1>2, <1>3, <1>4, <1>5, <1>6, <1>7, StepsOf DEF StepOf

(* Whoever takes a step goes on in step. *)
LEMMA OwnInStep ==
  ASSUME HistoryTypes, OneAtATime, InStep, [Next]_vars, ~disturbed', NEW w \in Writers, StepOf(w)
  PROVE  (w \in Turns => TurnInStep(w)') /\ (w \in Deletions => DeletionInStep(w)')
<1> USE DEF rowVars, copies, turnVars, writeVars, deleteVars, historyVars, bounds
<1>0. (w \in Turns => TurnInStep(w)) /\ (w \in Deletions => DeletionInStep(w))
  BY DEF InStep
<1> USE <1>0
<1>1. ASSUME w \in Turns, QuietTurnStep(w) \/ Start(w)
      PROVE  (w \in Turns => TurnInStep(w)') /\ (w \in Deletions => DeletionInStep(w)')
  <2>1. CASE Start(w)
    BY <2>1, <1>1, TurnsAndDeletions DEF Start, Step, TurnInStep,
       DeletionInStep, HistoryTypes, PlaceTypes, RowTypes, CountTypes
  <2>2. CASE LoadCache(w)
    BY <2>2, <1>1, TurnsAndDeletions DEF LoadCache, Step, Loaded, TurnInStep,
       DeletionInStep, HistoryTypes, PlaceTypes, RowTypes, CountTypes
  <2>3. CASE LoadRow(w)
    BY <2>3, <1>1, TurnsAndDeletions DEF LoadRow, Loaded, Step, TurnInStep,
       DeletionInStep, HistoryTypes, PlaceTypes, RowTypes, CountTypes
  <2>4. CASE Replay(w)
    BY <2>4, <1>1, TurnsAndDeletions DEF Replay, Step, TurnInStep,
       DeletionInStep, HistoryTypes, PlaceTypes, RowTypes, CountTypes
  <2>5. CASE BackfillDone(w)
    BY <2>5, <1>1, TurnsAndDeletions DEF BackfillDone, Step, Asleep,
       TurnInStep, DeletionInStep, HistoryTypes, PlaceTypes, RowTypes,
       CountTypes
  <2>6. CASE Compose(w)
    BY <2>6, <1>1, TurnsAndDeletions DEF Compose, Step, TurnInStep,
       DeletionInStep, HistoryTypes, PlaceTypes, RowTypes, CountTypes
  <2>7. CASE CallTools(w)
    BY <2>7, <1>1, TurnsAndDeletions DEF CallTools, Speak, Step, TurnInStep,
       DeletionInStep, HistoryTypes, PlaceTypes, RowTypes, CountTypes
  <2>8. CASE ToolsDone(w)
    BY <2>8, <1>1, TurnsAndDeletions DEF ToolsDone, Speak, Step, TurnInStep,
       DeletionInStep, HistoryTypes, PlaceTypes, RowTypes, CountTypes
  <2>9. CASE Answer(w)
    BY <2>9, <1>1, TurnsAndDeletions DEF Answer, Speak, Step, TurnInStep,
       DeletionInStep, HistoryTypes, PlaceTypes, RowTypes, CountTypes
  <2>10. CASE Break(w)
    BY <2>10, <1>1, TurnsAndDeletions DEF Break, Step, TurnInStep,
       DeletionInStep, HistoryTypes, PlaceTypes, RowTypes, CountTypes
  <2>11. CASE BreakEarly(w) /\ Asleep(w)
    BY <2>11, <1>1, TurnsAndDeletions DEF BreakEarly, Step, TurnInStep,
       DeletionInStep, HistoryTypes, PlaceTypes, RowTypes, CountTypes
  <2>12. CASE SaveDone(w)
    BY <2>12, <1>1, TurnsAndDeletions DEF SaveDone, Step, Asleep, TurnInStep,
       DeletionInStep, HistoryTypes, PlaceTypes, RowTypes, CountTypes
  <2>13. CASE Finish(w)
    BY <2>13, <1>1, TurnsAndDeletions DEF Finish, TurnInStep, DeletionInStep,
       HistoryTypes, PlaceTypes, RowTypes, CountTypes
  <2>14. CASE AppendRead(w)
    BY <2>14, <1>1, TurnsAndDeletions DEF AppendRead, TurnInStep,
       DeletionInStep, HistoryTypes, PlaceTypes, RowTypes, CountTypes
  <2>15. CASE AppendCommit(w)
    BY <2>15, <1>1, TurnsAndDeletions DEF AppendCommit, AfterAppend,
       TurnInStep, DeletionInStep, HistoryTypes, PlaceTypes, RowTypes,
       CountTypes
  <2> QED
    BY <1>1, <2>1, <2>2, <2>3, <2>4, <2>5, <2>6, <2>7, <2>8, <2>9, <2>10,
       <2>11, <2>12, <2>13, <2>14, <2>15 DEF QuietTurnStep
<1>2. ASSUME QuietWriterStep(w)
      PROVE  (w \in Turns => TurnInStep(w)') /\ (w \in Deletions => DeletionInStep(w)')
  <2>1. CASE WriteCache(w)
    BY <2>1, <1>2, TurnsAndDeletions DEF WriteCache, WriteStep, TurnInStep,
       DeletionInStep, HistoryTypes, PlaceTypes, RowTypes, CountTypes
  <2>2. CASE WriteRow(w)
    BY <2>2, <1>2, TurnsAndDeletions DEF WriteRow, WriteStep, TurnInStep,
       DeletionInStep, HistoryTypes, PlaceTypes, RowTypes, CountTypes
  <2> QED
    BY <1>2, <2>1, <2>2 DEF QuietWriterStep
<1>3. ASSUME w \in Deletions, QuietDeletionStep(w) \/ WipeCache(w)
      PROVE  (w \in Turns => TurnInStep(w)') /\ (w \in Deletions => DeletionInStep(w)')
  <2>1. CASE Rebuild(w)
    BY <2>1, <1>3, TurnsAndDeletions DEF Rebuild, DeleteStep, TurnInStep,
       DeletionInStep, HistoryTypes, PlaceTypes, RowTypes, CountTypes
  <2>2. CASE DeleteDone(w)
    BY <2>2, <1>3, TurnsAndDeletions DEF DeleteDone, DeleteStep, Asleep,
       TurnInStep, DeletionInStep, HistoryTypes, PlaceTypes, RowTypes,
       CountTypes
  <2>3. CASE WipeRow(w)
    BY <2>3, <1>3, TurnsAndDeletions DEF WipeRow, DeleteStep, TurnInStep,
       DeletionInStep, HistoryTypes, PlaceTypes, RowTypes, CountTypes
  <2>4. CASE WipeRuns(w)
    BY <2>4, <1>3, TurnsAndDeletions DEF WipeRuns, DeleteStep, TurnInStep,
       DeletionInStep, HistoryTypes, PlaceTypes, RowTypes, CountTypes
  <2>5. CASE WipeCache(w)
    BY <2>5, <1>3, TurnsAndDeletions DEF WipeCache, DeleteStep, TurnInStep,
       DeletionInStep, HistoryTypes, PlaceTypes, RowTypes, CountTypes
  <2> QED
    BY <1>3, <2>1, <2>2, <2>3, <2>4, <2>5 DEF QuietDeletionStep
<1>4. ASSUME w \in Deletions, NEW t \in Turns, DeleteUser(w, t) \/ DeleteAnswer(w, t)
      PROVE  (w \in Turns => TurnInStep(w)') /\ (w \in Deletions => DeletionInStep(w)')
  BY <1>4, TurnsAndDeletions DEF DeleteUser, DeleteAnswer, DeleteStep,
     TurnInStep, DeletionInStep, HistoryTypes, PlaceTypes, RowTypes,
     CountTypes
<1> QED
  BY <1>1, <1>2, <1>3, <1>4 DEF StepOf

(* Every undisturbed step keeps everyone in step. *)
LEMMA InStepKept ==
  ASSUME HistoryTypes, OneAtATime, InStep, [Next]_vars, ~disturbed'
  PROVE  InStep'
<1> USE DEF rowVars, copies, turnVars, writeVars, deleteVars, historyVars, bounds
<1>1. disabled' = {} /\ cut' = {} /\ unlogged' = {}
  BY NoneRefused
<1>2. ASSUME NEW w \in Writers, StepOf(w)
      PROVE  InStep'
  BY <1>1, <1>2, OthersInStep, OwnInStep, TurnsAndDeletions DEF InStep
<1>3. ASSUME NEW p \in Processes, Restart(p), ~Busy
      PROVE  InStep'
  <2>1. \A t \in Turns : Idle(t) /\ Asleep(t)
    BY <1>3, TurnsAndDeletions DEF Busy
  <2>2. UNCHANGED <<pc, rows, stopped, log, base>>
    BY <1>3, <2>1 DEF Restart, HistoryTypes, PlaceTypes
  <2>3. ASSUME NEW w \in Writers
        PROVE  wpc'[w] = wpc[w]
    BY <1>3 DEF Restart, Busy, Asleep, HistoryTypes, PlaceTypes
  <2>4. ASSUME NEW d \in Deletions
        PROVE  dpc'[d] = dpc[d]
    BY <1>3 DEF Restart, Busy, InStep, DeletionInStep, HistoryTypes, PlaceTypes
  <2>5. \A t \in Turns : TurnInStep(t)'
    BY <2>2, <2>3, TurnsAndDeletions DEF InStep, TurnInStep
  <2>6. \A d \in Deletions : DeletionInStep(d)'
    BY <2>3, <2>4, TurnsAndDeletions DEF InStep, DeletionInStep
  <2> QED
    BY <1>1, <2>5, <2>6 DEF InStep
<1>4. CASE Expire \/ UNCHANGED vars
  <2>1. UNCHANGED <<pc, rows, stopped, log, base, wpc, dpc>>
    BY <1>4 DEF Expire, vars
  <2>2. \A t \in Turns : TurnInStep(t)'
    BY <2>1 DEF InStep, TurnInStep
  <2>3. \A d \in Deletions : DeletionInStep(d)'
    BY <2>1 DEF InStep, DeletionInStep
  <2> QED
    BY <1>1, <2>2, <2>3 DEF InStep
<1> QED
  BY <1>2, <1>3, <1>4, StepsOf

(* The Redis value is the short-term row, or the list about to become it. *)
CopiesInStep ==
  /\ (\A w \in Writers : wpc[w] # "row") => cache \in {NoCopy, short}
  /\ \A w \in Writers : wpc[w] = "row" => cache \in {NoCopy, wlist[w]}
  /\ \A d \in Deletions : /\ dpc[d] \in {"wipe", "wipeRuns"} => cache = NoCopy
                          /\ dpc[d] = "wipeRuns" => short = NoCopy
                          /\ dpc[d] = "save" /\ Asleep(d) => short = wlist[d]

(* All others sleep. *)
LEMMA OthersSleep ==
  ASSUME HistoryTypes, InStep, NEW w \in Writers, NobodyElse(w)
  PROVE  /\ \A u \in Writers \ {w} : wpc[u] = "idle"
         /\ \A u \in Turns \ {w} : pc[u] \in {"idle", "over"} /\ rows[u] # "running"
         /\ \A d \in Deletions \ {w} : dpc[d] \in {"idle", "over"}
<1>1. \A u \in Turns \ {w} : wpc[u] = "idle" /\ pc[u] \in {"idle", "over"} /\ rows[u] # "running"
  BY DEF NobodyElse, Working, Idle, Asleep, InStep, TurnInStep
<1>2. \A d \in Deletions \ {w} : wpc[d] = "idle" /\ dpc[d] \in {"idle", "over"}
  BY DEF NobodyElse, Deleting, Asleep, InStep, DeletionInStep
<1> QED
  BY <1>1, <1>2 DEF Writers

(* Whoever takes a step keeps the copies in step. *)
LEMMA CopiesInStepOf ==
  ASSUME HistoryTypes, OneAtATime, InStep, CopiesInStep, [Next]_vars, ~disturbed', NEW w \in Writers, StepOf(w)
  PROVE  CopiesInStep'
<1> USE DEF rowVars, copies, turnVars, writeVars, deleteVars, historyVars, bounds
<1>9. /\ w \in Turns => TurnInStep(w)
      /\ w \in Deletions => DeletionInStep(w)
  BY DEF InStep
<1>10. /\ \A u \in Writers \ {w} : wpc[u] = "idle" /\ wpc'[u] = "idle"
      /\ \A d \in Deletions \ {w} : dpc[d] \in {"idle", "over"} /\ dpc'[d] \in {"idle", "over"}
  <2>1. NobodyElse(w) /\ \A u \in Writers \ {w} : Untouched(u)
    BY WorksAlone, OthersUntouched
  <2> QED
    BY <2>1, OthersSleep, TurnsAndDeletions DEF Untouched
<1>1. ASSUME w \in Turns, QuietTurnStep(w) \/ Start(w)
      PROVE  CopiesInStep'
  <2>1. CASE Start(w) \/ LoadCache(w) \/ LoadRow(w) \/ BackfillDone(w) \/
            Compose(w) \/ CallTools(w) \/ ToolsDone(w) \/ SaveDone(w) \/
            Finish(w)
    <3>1. UNCHANGED <<short, cache, wpc, wlist, dpc>>
      BY <2>1 DEF Start, LoadCache, LoadRow, BackfillDone, Compose, CallTools,
         ToolsDone, SaveDone, Finish, Step, Loaded, Speak
    <3> QED
      BY <3>1 DEF CopiesInStep, Asleep
  <2>2. CASE Replay(w)
    <3>1. UNCHANGED <<short, cache, dpc>> /\ wpc[w] # "row" /\ wpc'[w] # "row"
      BY <2>2, <1>9, <1>1 DEF Replay, Step, TurnInStep, Asleep, HistoryTypes, PlaceTypes
    <3>2. cache \in {NoCopy, short}
      BY <3>1, <1>10 DEF CopiesInStep
    <3>3. \A d \in Deletions : dpc[d] \in {"idle", "over"}
      BY <1>10, <1>1, TurnsAndDeletions
    <3> QED
      BY <3>1, <3>2, <3>3, <1>10 DEF CopiesInStep
  <2>3. CASE Answer(w)
    <3>1. UNCHANGED <<short, cache, dpc>> /\ wpc[w] # "row" /\ wpc'[w] # "row"
      BY <2>3, <1>9, <1>1 DEF Answer, Speak, Step, TurnInStep, Asleep, HistoryTypes, PlaceTypes
    <3>2. cache \in {NoCopy, short}
      BY <3>1, <1>10 DEF CopiesInStep
    <3>3. \A d \in Deletions : dpc[d] \in {"idle", "over"}
      BY <1>10, <1>1, TurnsAndDeletions
    <3> QED
      BY <3>1, <3>2, <3>3, <1>10 DEF CopiesInStep
  <2>4. CASE Break(w)
    <3>1. UNCHANGED <<short, cache, dpc>> /\ wpc[w] # "row" /\ wpc'[w] # "row"
      BY <2>4, <1>9, <1>1 DEF Break, Step, TurnInStep, Asleep, HistoryTypes, PlaceTypes
    <3>2. cache \in {NoCopy, short}
      BY <3>1, <1>10 DEF CopiesInStep
    <3>3. \A d \in Deletions : dpc[d] \in {"idle", "over"}
      BY <1>10, <1>1, TurnsAndDeletions
    <3> QED
      BY <3>1, <3>2, <3>3, <1>10 DEF CopiesInStep
  <2>5. CASE BreakEarly(w) /\ Asleep(w)
    <3>1. UNCHANGED <<short, cache, dpc>> /\ wpc[w] # "row" /\ wpc'[w] # "row"
      BY <2>5, <1>9, <1>1 DEF BreakEarly, Step, TurnInStep, Asleep, HistoryTypes, PlaceTypes
    <3>2. cache \in {NoCopy, short}
      BY <3>1, <1>10 DEF CopiesInStep
    <3>3. \A d \in Deletions : dpc[d] \in {"idle", "over"}
      BY <1>10, <1>1, TurnsAndDeletions
    <3> QED
      BY <3>1, <3>2, <3>3, <1>10 DEF CopiesInStep
  <2>6. CASE AppendRead(w)
    <3>1. UNCHANGED <<short, cache, dpc>> /\ wpc[w] # "row" /\ wpc'[w] # "row"
      BY <2>6, <1>9, <1>1 DEF AppendRead, TurnInStep, Asleep, HistoryTypes, PlaceTypes
    <3>2. cache \in {NoCopy, short}
      BY <3>1, <1>10 DEF CopiesInStep
    <3>3. \A d \in Deletions : dpc[d] \in {"idle", "over"}
      BY <1>10, <1>1, TurnsAndDeletions
    <3> QED
      BY <3>1, <3>2, <3>3, <1>10 DEF CopiesInStep
  <2>7. CASE AppendCommit(w)
    <3>1. UNCHANGED <<short, cache, dpc>> /\ wpc[w] # "row" /\ wpc'[w] # "row"
      BY <2>7, <1>9, <1>1 DEF AppendCommit, AfterAppend, TurnInStep, Asleep,
         HistoryTypes, PlaceTypes
    <3>2. cache \in {NoCopy, short}
      BY <3>1, <1>10 DEF CopiesInStep
    <3>3. \A d \in Deletions : dpc[d] \in {"idle", "over"}
      BY <1>10, <1>1, TurnsAndDeletions
    <3> QED
      BY <3>1, <3>2, <3>3, <1>10 DEF CopiesInStep
  <2> QED
    BY <1>1, <2>1, <2>2, <2>3, <2>4, <2>5, <2>6, <2>7 DEF QuietTurnStep
<1>2. ASSUME QuietWriterStep(w)
      PROVE  CopiesInStep'
  <2>1. CASE WriteCache(w)
    BY <2>1, <1>2, <1>9, <1>10, TurnsAndDeletions DEF WriteCache, WriteStep,
       CopiesInStep, Asleep, DeletionInStep, HistoryTypes, PlaceTypes,
       MessageTypes, InStep
  <2>2. CASE WriteRow(w)
    BY <2>2, <1>2, <1>9, <1>10, TurnsAndDeletions DEF WriteRow, WriteStep,
       CopiesInStep, Asleep, DeletionInStep, HistoryTypes, PlaceTypes,
       MessageTypes, InStep
  <2> QED
    BY <1>2, <2>1, <2>2 DEF QuietWriterStep
<1>3. ASSUME w \in Deletions, QuietDeletionStep(w) \/ WipeCache(w)
      PROVE  CopiesInStep'
  <2>1. CASE Rebuild(w)
    BY <2>1, <1>3, <1>9, <1>10, TurnsAndDeletions DEF Rebuild, DeleteStep,
       CopiesInStep, Asleep, DeletionInStep, HistoryTypes, PlaceTypes,
       MessageTypes, InStep
  <2>2. CASE DeleteDone(w)
    BY <2>2, <1>3, <1>9, <1>10, TurnsAndDeletions DEF DeleteDone, DeleteStep,
       Asleep, CopiesInStep, Asleep, DeletionInStep, HistoryTypes, PlaceTypes,
       MessageTypes, InStep
  <2>3. CASE WipeRow(w)
    BY <2>3, <1>3, <1>9, <1>10, TurnsAndDeletions DEF WipeRow, DeleteStep,
       CopiesInStep, Asleep, DeletionInStep, HistoryTypes, PlaceTypes,
       MessageTypes, InStep
  <2>4. CASE WipeRuns(w)
    BY <2>4, <1>3, <1>9, <1>10, TurnsAndDeletions DEF WipeRuns, DeleteStep,
       CopiesInStep, Asleep, DeletionInStep, HistoryTypes, PlaceTypes,
       MessageTypes, InStep
  <2>5. CASE WipeCache(w)
    BY <2>5, <1>3, <1>9, <1>10, TurnsAndDeletions DEF WipeCache, DeleteStep,
       CopiesInStep, Asleep, DeletionInStep, HistoryTypes, PlaceTypes,
       MessageTypes, InStep
  <2> QED
    BY <1>3, <2>1, <2>2, <2>3, <2>4, <2>5 DEF QuietDeletionStep
<1>4. ASSUME w \in Deletions, NEW t \in Turns, DeleteUser(w, t) \/ DeleteAnswer(w, t)
      PROVE  CopiesInStep'
  BY <1>4, <1>9, <1>10, TurnsAndDeletions DEF DeleteUser, DeleteAnswer,
     DeleteStep, CopiesInStep, Asleep, DeletionInStep, HistoryTypes,
     PlaceTypes, MessageTypes, InStep
<1> QED
  BY <1>1, <1>2, <1>3, <1>4 DEF StepOf

(* Every undisturbed step does. *)
LEMMA CopiesInStepKept ==
  ASSUME HistoryTypes, OneAtATime, InStep, CopiesInStep, [Next]_vars, ~disturbed'
  PROVE  CopiesInStep'
<1> USE DEF rowVars, copies, turnVars, writeVars, deleteVars, historyVars, bounds
<1>1. ASSUME NEW p \in Processes, Restart(p), ~Busy
      PROVE  CopiesInStep'
  <2>1. \A w \in Writers : wpc[w] = "idle" /\ wpc'[w] = "idle"
    BY <1>1 DEF Restart, Busy, Asleep, HistoryTypes, PlaceTypes
  <2>2. \A d \in Deletions : dpc'[d] \in {"idle", "over"}
    BY <1>1 DEF Restart, Busy, InStep, DeletionInStep, HistoryTypes, PlaceTypes
  <2>3. UNCHANGED <<short, cache>>
    BY <1>1 DEF Restart
  <2> QED
    BY <2>1, <2>2, <2>3 DEF CopiesInStep
<1>2. ASSUME Expire
      PROVE  CopiesInStep'
  BY <1>2 DEF Expire, CopiesInStep, Asleep
<1>3. ASSUME UNCHANGED vars
      PROVE  CopiesInStep'
  BY <1>3 DEF vars, CopiesInStep, Asleep
<1> QED
  BY <1>1, <1>2, <1>3, CopiesInStepOf, StepsOf

-----------------------------------------------------------------------------
(* What is said, wherever it is. *)

(* Everything the lists say. *)
SaidOf(l, s, c, m, w) ==
  Said(l) \union Said(Held(s)) \union Said(Held(c))
    \union (UNION {Said(m[t]) : t \in Turns})
    \union (UNION {Said(w[x]) : x \in Writers})

SaidAnywhere == SaidOf(log, short, cache, mem, wlist)

(* Every list says only parts of E. *)
Within(l, s, c, m, w, E) ==
  /\ Said(l) \subseteq E /\ Said(Held(s)) \subseteq E /\ Said(Held(c)) \subseteq E
  /\ \A t \in Turns : Said(m[t]) \subseteq E
  /\ \A x \in Writers : Said(w[x]) \subseteq E

(* Every list says only parts of E when what is said anywhere is part of E. *)
LEMMA WithinIsAll ==
  ASSUME NEW l, NEW s, NEW c, NEW m, NEW w, NEW E
  PROVE  Within(l, s, c, m, w, E) <=> SaidOf(l, s, c, m, w) \subseteq E
<1>1. ASSUME Within(l, s, c, m, w, E)
      PROVE  SaidOf(l, s, c, m, w) \subseteq E
  BY <1>1 DEF Within, SaidOf
<1>2. ASSUME SaidOf(l, s, c, m, w) \subseteq E
      PROVE  Within(l, s, c, m, w, E)
  BY <1>2 DEF Within, SaidOf
<1> QED
  BY <1>1, <1>2

(* A step says something new only when a turn speaks, or when a deletion    *)
(* takes it from the rows.                                                  *)
NewlySaid(n) ==
  \/ n = {}
  \/ \E t \in Turns : Compose(t) /\ n = {<<t, "user">>}
  \/ \E t \in Turns : Answer(t) /\ n = {<<t, "answer">>}

(* What each step adds to what is said. *)
LEMMA SaidGrows ==
  ASSUME LogInv, OneAtATime, InStep, [Next]_vars, ~disturbed'
  PROVE  \E n : NewlySaid(n) /\ Within(log', short', cache', mem', wlist', SaidAnywhere \union Shown \union n)
<1> USE DEF rowVars, copies, turnVars, writeVars, deleteVars, historyVars, bounds
<1>8. Within(log, short, cache, mem, wlist, SaidAnywhere)
  BY WithinIsAll DEF SaidAnywhere
<1>1. ASSUME NEW w \in Turns, QuietTurnStep(w) \/ Start(w)
      PROVE  \E n : NewlySaid(n) /\ Within(log', short', cache', mem', wlist', SaidAnywhere \union Shown \union n)
  <2>1. CASE Start(w) \/ BackfillDone(w) \/ Break(w) \/ SaveDone(w) \/
            Finish(w) \/ AppendRead(w)
    <3>1. UNCHANGED messages
      BY <2>1 DEF messages, Start, BackfillDone, Break, SaveDone, Finish, AppendRead, Step
    <3>9. Within(log', short', cache', mem', wlist', SaidAnywhere \union Shown \union {})
      BY <1>8, <3>1 DEF Within, messages
    <3> QED
      BY <3>9 DEF NewlySaid
  <2>2. CASE LoadCache(w) \/ LoadRow(w) \/ BreakEarly(w)
    <3>1. /\ UNCHANGED <<log, short, cache, wlist>>
          /\ \E list \in {Held(short), Held(cache), <<>>, mem[w]} : mem' = [mem EXCEPT ![w] = list]
      BY <2>2, LoadMakes DEF LogInv
    <3>2. \A t \in Turns : Said(mem'[t]) \subseteq SaidAnywhere
      BY <3>1, <1>8, NothingSaid DEF Within, LogInv, HistoryTypes, MessageTypes
    <3>9. Within(log', short', cache', mem', wlist', SaidAnywhere \union Shown \union {})
      BY <1>8, <3>1, <3>2 DEF Within
    <3> QED
      BY <3>9 DEF NewlySaid
  <2>3. CASE CallTools(w) \/ ToolsDone(w)
    <3>1. /\ UNCHANGED <<log, short, cache, wlist>>
          /\ mem' = [mem EXCEPT ![w] = mem'[w]]
          /\ Said(mem'[w]) = Said(mem[w])
      BY <2>3, ToolRoundMakes DEF LogInv
    <3>2. \A t \in Turns : Said(mem'[t]) \subseteq SaidAnywhere
      BY <3>1, <1>8 DEF Within, LogInv, HistoryTypes, MessageTypes
    <3>9. Within(log', short', cache', mem', wlist', SaidAnywhere \union Shown \union {})
      BY <1>8, <3>1, <3>2 DEF Within
    <3> QED
      BY <3>9 DEF NewlySaid
  <2>4. CASE Replay(w)
    <3>1. /\ UNCHANGED <<log, short, cache>>
          /\ mem' = [mem EXCEPT ![w] = mem'[w]] /\ Said(mem'[w]) \subseteq Said(log)
          /\ UNCHANGED wlist \/ wlist' = [wlist EXCEPT ![w] = mem'[w]]
      BY <2>4, ReplayMakes DEF Replay, LogInv, HistoryTypes
    <3>2. \A t \in Turns : Said(mem'[t]) \subseteq SaidAnywhere
      BY <3>1, <1>8 DEF Within, LogInv, HistoryTypes, MessageTypes
    <3>3. \A x \in Writers : Said(wlist'[x]) \subseteq SaidAnywhere
      BY <3>1, <1>8 DEF Within, LogInv, HistoryTypes, MessageTypes
    <3>9. Within(log', short', cache', mem', wlist', SaidAnywhere \union Shown \union {})
      BY <1>8, <3>1, <3>2, <3>3 DEF Within
    <3> QED
      BY <3>9 DEF NewlySaid
  <2>5. CASE Compose(w)
    <3>1. /\ UNCHANGED <<log, short, cache, wlist>>
          /\ mem' = [mem EXCEPT ![w] = mem'[w]]
          /\ Said(mem'[w]) = Said(mem[w]) \union {<<w, "user">>}
      BY <2>5, ComposeMakes DEF Compose, LogInv, HistoryTypes
    <3>2. \A t \in Turns : Said(mem'[t]) \subseteq SaidAnywhere \union {<<w, "user">>}
      BY <3>1, <1>8 DEF Within, LogInv, HistoryTypes, MessageTypes
    <3>9. Within(log', short', cache', mem', wlist', SaidAnywhere \union Shown \union {<<w, "user">>})
      BY <1>8, <3>1, <3>2 DEF Within
    <3>10. NewlySaid({<<w, "user">>})
      BY <2>5 DEF NewlySaid
    <3> QED
      BY <3>9, <3>10
  <2>6. CASE Answer(w)
    <3>1. /\ UNCHANGED <<log, short, cache, wlist>>
          /\ mem' = [mem EXCEPT ![w] = mem'[w]]
          /\ Said(mem'[w]) = Said(mem[w]) \union {<<w, "answer">>}
      BY <2>6, AnswerMakes DEF LogInv
    <3>2. \A t \in Turns : Said(mem'[t]) \subseteq SaidAnywhere \union {<<w, "answer">>}
      BY <3>1, <1>8 DEF Within, LogInv, HistoryTypes, MessageTypes
    <3>9. Within(log', short', cache', mem', wlist', SaidAnywhere \union Shown \union {<<w, "answer">>})
      BY <1>8, <3>1, <3>2 DEF Within
    <3>10. NewlySaid({<<w, "answer">>})
      BY <2>6 DEF NewlySaid
    <3> QED
      BY <3>9, <3>10
  <2>7. CASE AppendCommit(w)
    <3>1. /\ UNCHANGED <<short, cache, mem>> /\ AfterAppend(w) /\ pc[w] = "saving"
      BY <2>7, <1>1 DEF AppendCommit, InStep, TurnInStep
    <3>2. /\ wlist' = [wlist EXCEPT ![w] = wlist'[w]]
          /\ Said(wlist'[w]) \subseteq Said(mem[w])
      BY <3>1, <1>1, AfterAppendMakes DEF LogInv, HistoryTypes
    <3>3. Said(log') \subseteq Said(log) \union Said(mem[w])
      <4>1. Elements(log') \subseteq Elements(log) \union Elements(mem[w])
        BY <2>7, <1>1, AppendCommitMakes DEF LogInv, HistoryTypes
      <4> QED
        BY <4>1 DEF Said
    <3>4. \A x \in Writers : Said(wlist'[x]) \subseteq SaidAnywhere
      BY <3>2, <1>1, <1>8 DEF Within, LogInv, HistoryTypes, MessageTypes
    <3>9. Within(log', short', cache', mem', wlist', SaidAnywhere \union Shown \union {})
      BY <1>1, <1>8, <3>1, <3>3, <3>4 DEF Within
    <3> QED
      BY <3>9 DEF NewlySaid
  <2> QED
    BY <1>1, <2>1, <2>2, <2>3, <2>4, <2>5, <2>6, <2>7 DEF QuietTurnStep
<1>2. ASSUME NEW w \in Writers, QuietWriterStep(w)
      PROVE  \E n : NewlySaid(n) /\ Within(log', short', cache', mem', wlist', SaidAnywhere \union Shown \union n)
  <2>1. CASE WriteCache(w) \/ WriteRow(w)
    <3>1. CopyStep
      BY <2>1, TurnsAndDeletions DEF CopyStep
    <3>2. /\ UNCHANGED <<log, mem, wlist>>
          /\ \A copy \in {short', cache'} :
               \/ Held(copy) \in {<<>>, Held(short), Held(cache)}
               \/ \E x \in Writers : Held(copy) = wlist[x]
      BY <3>1, CopyStepMakes DEF LogInv
    <3>3. \A copy \in {short', cache'} : Said(Held(copy)) \subseteq SaidAnywhere
      BY <3>2, <1>8, NothingSaid DEF Within
    <3>9. Within(log', short', cache', mem', wlist', SaidAnywhere \union Shown \union {})
      BY <1>8, <3>2, <3>3 DEF Within
    <3> QED
      BY <3>9 DEF NewlySaid
  <2> QED
    BY <1>2, <2>1 DEF QuietWriterStep
<1>3. ASSUME NEW w \in Deletions, QuietDeletionStep(w) \/ WipeCache(w)
      PROVE  \E n : NewlySaid(n) /\ Within(log', short', cache', mem', wlist', SaidAnywhere \union Shown \union n)
  <2>1. CASE DeleteDone(w) \/ WipeRuns(w)
    <3>1. UNCHANGED messages
      BY <2>1 DEF messages, DeleteDone, WipeRuns, DeleteStep
    <3>9. Within(log', short', cache', mem', wlist', SaidAnywhere \union Shown \union {})
      BY <1>8, <3>1 DEF Within, messages
    <3> QED
      BY <3>9 DEF NewlySaid
  <2>2. CASE WipeRow(w) \/ WipeCache(w)
    <3>1. CopyStep
      BY <2>2, TurnsAndDeletions DEF CopyStep
    <3>2. /\ UNCHANGED <<log, mem, wlist>>
          /\ \A copy \in {short', cache'} :
               \/ Held(copy) \in {<<>>, Held(short), Held(cache)}
               \/ \E x \in Writers : Held(copy) = wlist[x]
      BY <3>1, CopyStepMakes DEF LogInv
    <3>3. \A copy \in {short', cache'} : Said(Held(copy)) \subseteq SaidAnywhere
      BY <3>2, <1>8, NothingSaid DEF Within
    <3>9. Within(log', short', cache', mem', wlist', SaidAnywhere \union Shown \union {})
      BY <1>8, <3>2, <3>3 DEF Within
    <3> QED
      BY <3>9 DEF NewlySaid
  <2>3. CASE Rebuild(w)
    <3>1. /\ UNCHANGED <<log, short, cache, mem>>
          /\ wlist' = [wlist EXCEPT ![w] = wlist'[w]] /\ Said(wlist'[w]) = Shown
      BY <2>3, <1>3, RebuildMakes DEF Rebuild, LogInv, HistoryTypes
    <3>2. \A x \in Writers : Said(wlist'[x]) \subseteq SaidAnywhere \union Shown
      BY <3>1, <1>8 DEF Within, LogInv, HistoryTypes, MessageTypes
    <3>9. Within(log', short', cache', mem', wlist', SaidAnywhere \union Shown \union {})
      BY <1>8, <3>1, <3>2 DEF Within
    <3> QED
      BY <3>9 DEF NewlySaid
  <2> QED
    BY <1>3, <2>1, <2>2, <2>3 DEF QuietDeletionStep
<1>4. ASSUME NEW w \in Deletions, NEW t \in Turns, DeleteUser(w, t) \/ DeleteAnswer(w, t)
      PROVE  \E n : NewlySaid(n) /\ Within(log', short', cache', mem', wlist', SaidAnywhere \union Shown \union n)
  <2>1. UNCHANGED messages
    BY <1>4 DEF messages, DeleteUser, DeleteAnswer, DeleteStep
  <2>9. Within(log', short', cache', mem', wlist', SaidAnywhere \union Shown \union {})
    BY <1>8, <2>1 DEF Within, messages
  <2> QED
    BY <2>9 DEF NewlySaid
<1>5. ASSUME NEW p \in Processes, Restart(p), ~Busy
      PROVE  \E n : NewlySaid(n) /\ Within(log', short', cache', mem', wlist', SaidAnywhere \union Shown \union n)
  <2>1. UNCHANGED messages
    BY <1>5 DEF messages, Restart
  <2>9. Within(log', short', cache', mem', wlist', SaidAnywhere \union Shown \union {})
    BY <1>8, <2>1 DEF Within, messages
  <2> QED
    BY <2>9 DEF NewlySaid
<1>6. ASSUME Expire
      PROVE  \E n : NewlySaid(n) /\ Within(log', short', cache', mem', wlist', SaidAnywhere \union Shown \union n)
  <2>1. CopyStep
    BY <1>6, TurnsAndDeletions DEF CopyStep
  <2>2. /\ UNCHANGED <<log, mem, wlist>>
        /\ \A copy \in {short', cache'} :
             \/ Held(copy) \in {<<>>, Held(short), Held(cache)}
             \/ \E x \in Writers : Held(copy) = wlist[x]
    BY <2>1, CopyStepMakes DEF LogInv
  <2>3. \A copy \in {short', cache'} : Said(Held(copy)) \subseteq SaidAnywhere
    BY <2>2, <1>8, NothingSaid DEF Within
  <2>9. Within(log', short', cache', mem', wlist', SaidAnywhere \union Shown \union {})
    BY <1>8, <2>2, <2>3 DEF Within
  <2> QED
    BY <2>9 DEF NewlySaid
<1>7. ASSUME UNCHANGED vars
      PROVE  \E n : NewlySaid(n) /\ Within(log', short', cache', mem', wlist', SaidAnywhere \union Shown \union n)
  <2>1. UNCHANGED messages
    BY <1>7 DEF messages, vars
  <2>9. Within(log', short', cache', mem', wlist', SaidAnywhere \union Shown \union {})
    BY <1>8, <2>1 DEF Within, messages
  <2> QED
    BY <2>9 DEF NewlySaid
<1> QED
  BY <1>1, <1>2, <1>3, <1>4, <1>5, <1>6, <1>7, StepsOf DEF StepOf, LogInv

(* What is said now was said before, was shown, or is being said. *)
LEMMA NewsSaid ==
  ASSUME LogInv, OneAtATime, InStep, [Next]_vars, ~disturbed', NEW p \in SaidAnywhere'
  PROVE  \/ p \in SaidAnywhere \/ p \in Shown
         \/ \E t \in Turns : Compose(t) /\ p = <<t, "user">>
         \/ \E t \in Turns : Answer(t) /\ p = <<t, "answer">>
<1>1. PICK n : NewlySaid(n) /\ Within(log', short', cache', mem', wlist', SaidAnywhere \union Shown \union n)
  BY SaidGrows
<1> DEFINE E == SaidAnywhere \union Shown \union n
<1>2. Within(log', short', cache', mem', wlist', E)
  BY <1>1
<1> HIDE DEF E
<1>3. SaidOf(log', short', cache', mem', wlist') \subseteq E
  BY <1>2, WithinIsAll
<1>4. p \in E
  BY <1>3 DEF SaidAnywhere
<1>5. p \in SaidAnywhere \/ p \in Shown \/ p \in n
  BY <1>4 DEF E
<1>6. p \in n => \/ \E t \in Turns : Compose(t) /\ p = <<t, "user">>
                 \/ \E t \in Turns : Answer(t) /\ p = <<t, "answer">>
  BY <1>1 DEF NewlySaid
<1> QED
  BY <1>5, <1>6

-----------------------------------------------------------------------------
(* What is said is shown, deleted, or still being said. *)

(* The parts deletions removed or are about to remove. *)
Gone ==
  {p \in Parts : p \in erased \/ \E d \in Deletions : dpc[d] \in {"rebuild", "save"} /\ p \in dpart[d]}

(* A turn that has not begun has no messages; none is stopped before it ends. *)
Unbroken(t) ==
  /\ pc[t] = "idle" => mem[t] = <<>>
  /\ pc[t] \notin {"saving", "over", "dead"} => t \notin stopped

(* A turn whose answer is not said yet, or never will be. *)
Silenced(t) == t \in stopped \/ pc[t] \notin {"saving", "over"}

(* What is gone is not shown; what is said is shown, gone or of a running
   turn; a running turn has not answered before its last round. *)
GoneIsHidden == \A p \in Gone : rows[p[1]] \in {"visible", "deleted"} /\ p \notin Shown
SaidIsShown == \A p \in SaidAnywhere : p \in Parts /\ (rows[p[1]] = "running" \/ p \in Shown \/ p \in Gone)
AnswersLast == \A t \in Turns : rows[t] = "running" /\ Silenced(t) => <<t, "answer">> \notin SaidAnywhere

(* The account of what is said. *)
PartsInv ==
  /\ \A t \in Turns : Unbroken(t)
  /\ GoneIsHidden /\ SaidIsShown /\ AnswersLast

(* Whoever takes a step was not stopped before it ends. *)
LEMMA OwnUnbroken ==
  ASSUME LogInv, OneAtATime, InStep, PartsInv, [Next]_vars, ~disturbed', NEW w \in Writers, StepOf(w)
  PROVE  w \in Turns => Unbroken(w)'
<1> USE DEF rowVars, copies, turnVars, writeVars, deleteVars, historyVars, bounds
<1>8. w \in Turns => Unbroken(w)
  BY DEF PartsInv
<1>1. ASSUME w \in Turns, QuietTurnStep(w) \/ Start(w)
      PROVE  w \in Turns => Unbroken(w)'
  <2>1. CASE Start(w) \/ LoadCache(w) \/ LoadRow(w) \/ Replay(w) \/
            BackfillDone(w)
    <3>1. /\ pc'[w] # "idle"
          /\ stopped' = stopped
          /\ pc'[w] = pc[w] \/ pc'[w] \in {"saving", "over"} \/ pc[w] \notin {"saving", "over", "dead"}
      BY <2>1, <1>1 DEF Start, LoadCache, LoadRow, Replay, BackfillDone, Step,
         Loaded, Asleep, LogInv, HistoryTypes, PlaceTypes
    <3> QED
      BY <3>1, <1>8, <1>1 DEF Unbroken
  <2>2. CASE Compose(w) \/ CallTools(w) \/ ToolsDone(w) \/ Answer(w)
    <3>1. /\ pc'[w] # "idle"
          /\ stopped' = stopped
          /\ pc'[w] = pc[w] \/ pc'[w] \in {"saving", "over"} \/ pc[w] \notin {"saving", "over", "dead"}
      BY <2>2, <1>1 DEF Compose, CallTools, ToolsDone, Answer, Step, Speak, LogInv,
         HistoryTypes, PlaceTypes
    <3> QED
      BY <3>1, <1>8, <1>1 DEF Unbroken
  <2>3. CASE SaveDone(w)
    <3>1. /\ pc'[w] # "idle"
          /\ stopped' = stopped
          /\ pc'[w] = pc[w] \/ pc'[w] \in {"saving", "over"} \/ pc[w] \notin {"saving", "over", "dead"}
      BY <2>3, <1>1 DEF SaveDone, Step, Asleep, LogInv, HistoryTypes, PlaceTypes
    <3> QED
      BY <3>1, <1>8, <1>1 DEF Unbroken
  <2>4. CASE Break(w) \/ BreakEarly(w)
    <3>1. pc'[w] \in {"saving", "over"}
      BY <2>4, <1>1 DEF Break, BreakEarly, Step, LogInv, HistoryTypes, PlaceTypes
    <3> QED
      BY <3>1 DEF Unbroken
  <2>5. CASE Finish(w) \/ AppendRead(w) \/ AppendCommit(w)
    <3>1. UNCHANGED <<pc, mem, stopped>>
      BY <2>5 DEF Finish, AppendRead, AppendCommit, AfterAppend
    <3> QED
      BY <3>1, <1>8 DEF Unbroken
  <2> QED
    BY <1>1, <2>1, <2>2, <2>3, <2>4, <2>5 DEF QuietTurnStep
<1>2. ASSUME QuietWriterStep(w)
      PROVE  w \in Turns => Unbroken(w)'
  <2>1. CASE WriteCache(w) \/ WriteRow(w)
    <3>1. UNCHANGED <<pc, mem, stopped>>
      BY <2>1 DEF WriteCache, WriteRow, WriteStep
    <3> QED
      BY <3>1, <1>8 DEF Unbroken
  <2> QED
    BY <1>2, <2>1 DEF QuietWriterStep
<1>3. ASSUME w \in Deletions, QuietDeletionStep(w) \/ WipeCache(w)
      PROVE  w \in Turns => Unbroken(w)'
  <2>1. CASE Rebuild(w) \/ DeleteDone(w) \/ WipeRow(w) \/ WipeRuns(w) \/
            WipeCache(w)
    <3>1. UNCHANGED <<pc, mem, stopped>>
      BY <2>1 DEF Rebuild, DeleteDone, WipeRow, WipeRuns, WipeCache, DeleteStep, Asleep
    <3> QED
      BY <3>1, <1>8 DEF Unbroken
  <2> QED
    BY <1>3, <2>1 DEF QuietDeletionStep
<1>4. ASSUME w \in Deletions, NEW t \in Turns, DeleteUser(w, t) \/ DeleteAnswer(w, t)
      PROVE  w \in Turns => Unbroken(w)'
  <2>1. UNCHANGED <<pc, mem, stopped>>
    BY <1>4 DEF DeleteUser, DeleteAnswer
  <2> QED
    BY <2>1, <1>8 DEF Unbroken
<1> QED
  BY <1>1, <1>2, <1>3, <1>4 DEF StepOf

(* Nobody was. *)
LEMMA UnbrokenKept ==
  ASSUME LogInv, OneAtATime, InStep, PartsInv, [Next]_vars, ~disturbed'
  PROVE  \A t \in Turns : Unbroken(t)'
<1> USE DEF rowVars, copies, turnVars, writeVars, deleteVars, historyVars, bounds
<1>1. ASSUME NEW w \in Writers, StepOf(w)
      PROVE  \A t \in Turns : Unbroken(t)'
  <2>1. ASSUME NEW t \in Turns \ {w}
        PROVE  Unbroken(t)'
    <3>1. Untouched(t) /\ Unbroken(t)
      BY <1>1, OthersUntouched, TurnsAndDeletions DEF LogInv, PartsInv
    <3>2. t \in stopped' => t \in stopped
      <4>1. \/ w \in Turns /\ (Break(w) \/ BreakEarly(w))
            \/ UNCHANGED stopped
        BY <1>1 DEF StepOf, QuietTurnStep, QuietWriterStep, QuietDeletionStep, Start, LoadCache,
           LoadRow, Replay, BackfillDone, Compose, CallTools, ToolsDone, Answer, SaveDone, Finish,
           AppendRead, AppendCommit, WriteCache, WriteRow, Rebuild, DeleteDone, WipeRow, WipeRuns,
           WipeCache, DeleteUser, DeleteAnswer
      <4> QED
        BY <4>1 DEF Break, BreakEarly
    <3> QED
      BY <3>1, <3>2, TurnsAndDeletions DEF Untouched, Unbroken
  <2>2. w \in Turns => Unbroken(w)'
    BY <1>1, OwnUnbroken
  <2> QED
    BY <2>1, <2>2
<1>2. ASSUME NEW p \in Processes, Restart(p), ~Busy
      PROVE  \A t \in Turns : Unbroken(t)'
  <2>1. UNCHANGED <<pc, mem, stopped>>
    BY <1>2, TurnsAndDeletions DEF Restart, Busy, Idle, LogInv, HistoryTypes, PlaceTypes
  <2> QED
    BY <2>1 DEF PartsInv, Unbroken
<1>3. CASE Expire \/ UNCHANGED vars
  <2>1. UNCHANGED <<pc, mem, stopped>>
    BY <1>3 DEF Expire, vars
  <2> QED
    BY <2>1 DEF PartsInv, Unbroken
<1> QED
  BY <1>1, <1>2, <1>3, StepsOf DEF LogInv

(* A turn that goes on without an answer has had none. *)
LEMMA SilencedBefore ==
  ASSUME LogInv, OneAtATime, InStep, PartsInv, [Next]_vars, ~disturbed'
  PROVE  \A v \in Turns : Silenced(v)' => Silenced(v)
<1> USE DEF rowVars, copies, turnVars, writeVars, deleteVars, historyVars, bounds
<1>1. ASSUME NEW w \in Turns, QuietTurnStep(w) \/ Start(w)
      PROVE  \A v \in Turns : Silenced(v)' => Silenced(v)
  <2>1. CASE Start(w) \/ LoadCache(w) \/ LoadRow(w) \/ Replay(w) \/
            BackfillDone(w)
    <3>1. /\ \A t \in Turns \ {w} : pc'[t] = pc[t]
          /\ pc[w] \notin {"saving", "over"} \/ pc'[w] = "over"
          /\ UNCHANGED stopped
      BY <2>1, <1>1 DEF Start, LoadCache, LoadRow, Replay, BackfillDone, Step,
         Loaded, Asleep, LogInv, HistoryTypes, PlaceTypes
    <3> QED
      BY <3>1, <1>1 DEF Silenced
  <2>2. CASE Compose(w) \/ CallTools(w) \/ ToolsDone(w) \/ Answer(w) \/
            SaveDone(w)
    <3>1. /\ \A t \in Turns \ {w} : pc'[t] = pc[t]
          /\ pc[w] \notin {"saving", "over"} \/ pc'[w] = "over"
          /\ UNCHANGED stopped
      BY <2>2, <1>1 DEF Compose, CallTools, ToolsDone, Answer, SaveDone, Step,
         Speak, Asleep, LogInv, HistoryTypes, PlaceTypes
    <3> QED
      BY <3>1, <1>1 DEF Silenced
  <2>3. CASE Break(w) \/ BreakEarly(w)
    <3>1. pc[w] \notin {"saving", "over"}
      BY <2>3 DEF Break, BreakEarly, Step
    <3>2. /\ \A t \in Turns \ {w} : pc'[t] = pc[t]
          /\ stopped' = stopped \union {w}
      BY <2>3, <1>1 DEF Break, BreakEarly, Step, LogInv, HistoryTypes, PlaceTypes
    <3> QED
      BY <3>1, <3>2 DEF Silenced
  <2>4. CASE Finish(w) \/ AppendRead(w) \/ AppendCommit(w)
    <3>1. UNCHANGED <<pc, stopped>>
      BY <2>4 DEF Finish, AppendRead, AppendCommit, AfterAppend
    <3> QED
      BY <3>1 DEF Silenced
  <2> QED
    BY <1>1, <2>1, <2>2, <2>3, <2>4 DEF QuietTurnStep
<1>2. ASSUME NEW w \in Writers, QuietWriterStep(w)
      PROVE  \A v \in Turns : Silenced(v)' => Silenced(v)
  <2>1. CASE WriteCache(w) \/ WriteRow(w)
    <3>1. UNCHANGED <<pc, stopped>>
      BY <2>1 DEF WriteCache, WriteRow, WriteStep
    <3> QED
      BY <3>1 DEF Silenced
  <2> QED
    BY <1>2, <2>1 DEF QuietWriterStep
<1>3. ASSUME NEW w \in Deletions, QuietDeletionStep(w) \/ WipeCache(w)
      PROVE  \A v \in Turns : Silenced(v)' => Silenced(v)
  <2>1. CASE Rebuild(w) \/ DeleteDone(w) \/ WipeRow(w) \/ WipeRuns(w) \/
            WipeCache(w)
    <3>1. UNCHANGED <<pc, stopped>>
      BY <2>1 DEF Rebuild, DeleteDone, WipeRow, WipeRuns, WipeCache, DeleteStep, Asleep
    <3> QED
      BY <3>1 DEF Silenced
  <2> QED
    BY <1>3, <2>1 DEF QuietDeletionStep
<1>4. ASSUME NEW w \in Deletions, NEW t \in Turns, DeleteUser(w, t) \/ DeleteAnswer(w, t)
      PROVE  \A v \in Turns : Silenced(v)' => Silenced(v)
  <2>1. UNCHANGED <<pc, stopped>>
    BY <1>4 DEF DeleteUser, DeleteAnswer
  <2> QED
    BY <2>1 DEF Silenced
<1>5. ASSUME NEW p \in Processes, Restart(p), ~Busy
      PROVE  \A v \in Turns : Silenced(v)' => Silenced(v)
  <2>1. UNCHANGED <<pc, stopped>>
    BY <1>5, TurnsAndDeletions DEF Restart, Busy, Idle, LogInv, HistoryTypes, PlaceTypes
  <2> QED
    BY <2>1 DEF Silenced
<1>6. ASSUME Expire
      PROVE  \A v \in Turns : Silenced(v)' => Silenced(v)
  <2>1. UNCHANGED <<pc, stopped>>
    BY <1>6 DEF Expire
  <2> QED
    BY <2>1 DEF Silenced
<1>7. ASSUME UNCHANGED vars
      PROVE  \A v \in Turns : Silenced(v)' => Silenced(v)
  <2>1. UNCHANGED <<pc, stopped>>
    BY <1>7 DEF vars
  <2> QED
    BY <2>1 DEF Silenced
<1> QED
  BY <1>1, <1>2, <1>3, <1>4, <1>5, <1>6, <1>7, StepsOf DEF StepOf, LogInv

(* Most steps leave rows, and what is deleted, as they are. *)
RowsStay == UNCHANGED <<rows, answered>> /\ Gone' = Gone /\ Shown' = Shown
(* The steps that change rows or what is gone. *)
RowsMove ==
  \/ \E t \in Turns : Start(t) \/ Finish(t)
  \/ \E d \in Deletions, t \in Turns : DeleteUser(d, t) \/ DeleteAnswer(d, t)
  \/ \E d \in Deletions : WipeRuns(d)

(* What is shown depends on the rows alone. *)
LEMMA ShownStays ==
  ASSUME UNCHANGED <<rows, answered>>
  PROVE  Shown' = Shown
BY DEF Shown

(* What is gone depends on the deletions alone. *)
LEMMA GoneStays ==
  ASSUME UNCHANGED <<dpc, dpart, erased>>
  PROVE  Gone' = Gone
BY DEF Gone

(* The rows and what is gone change only when a run starts or ends, or in a
   deletion. *)
LEMMA RowsStayOrMove ==
  ASSUME LogInv, OneAtATime, InStep, [Next]_vars, ~disturbed'
  PROVE  RowsStay \/ RowsMove
<1> USE DEF rowVars, copies, turnVars, writeVars, deleteVars, historyVars, bounds
<1>1. ASSUME NEW w \in Turns, QuietTurnStep(w) \/ Start(w)
      PROVE  RowsStay \/ RowsMove
  <2>1. CASE Start(w) \/ Finish(w)
    BY <2>1, <1>1 DEF RowsMove
  <2>2. CASE LoadCache(w) \/ LoadRow(w) \/ Replay(w) \/ BackfillDone(w) \/
            Compose(w) \/ CallTools(w)
    <3>1. UNCHANGED <<rows, answered, dpc, dpart, erased>>
      BY <2>2 DEF LoadCache, LoadRow, Replay, BackfillDone, Compose, CallTools,
         Step, Loaded, Asleep, Speak
    <3> QED
      BY <3>1, ShownStays, GoneStays DEF RowsStay
  <2>3. CASE ToolsDone(w) \/ Answer(w) \/ Break(w) \/ BreakEarly(w) \/
            SaveDone(w) \/ AppendRead(w) \/ AppendCommit(w)
    <3>1. UNCHANGED <<rows, answered, dpc, dpart, erased>>
      BY <2>3 DEF ToolsDone, Answer, Break, BreakEarly, SaveDone, AppendRead,
         AppendCommit, Speak, Step, Asleep, AfterAppend
    <3> QED
      BY <3>1, ShownStays, GoneStays DEF RowsStay
  <2> QED
    BY <1>1, <2>1, <2>2, <2>3 DEF QuietTurnStep
<1>2. ASSUME NEW w \in Writers, QuietWriterStep(w)
      PROVE  RowsStay \/ RowsMove
  <2>1. CASE WriteCache(w) \/ WriteRow(w)
    <3>1. UNCHANGED <<rows, answered, dpc, dpart, erased>>
      BY <2>1 DEF WriteCache, WriteRow, WriteStep
    <3> QED
      BY <3>1, ShownStays, GoneStays DEF RowsStay
  <2> QED
    BY <1>2, <2>1 DEF QuietWriterStep
<1>3. ASSUME NEW w \in Deletions, QuietDeletionStep(w) \/ WipeCache(w)
      PROVE  RowsStay \/ RowsMove
  <2>1. CASE WipeRow(w) \/ WipeCache(w)
    <3>1. UNCHANGED <<rows, answered, dpart, erased>>
      BY <2>1 DEF WipeRow, WipeCache, DeleteStep
    <3>2. \A d \in Deletions : dpc'[d] = dpc[d] \/ (dpc[d] \in {"idle", "wipe"} /\ dpc'[d] \in {"wipe", "wipeRuns"})
      BY <2>1, <1>3 DEF WipeRow, WipeCache, DeleteStep, LogInv, HistoryTypes, PlaceTypes
    <3>3. Gone' = Gone
      BY <3>1, <3>2 DEF Gone
    <3> QED
      BY <3>1, <3>3, ShownStays DEF RowsStay
  <2>2. CASE Rebuild(w)
    <3>1. /\ UNCHANGED <<rows, answered, dpart, erased>>
          /\ dpc[w] = "rebuild" /\ dpc' = [dpc EXCEPT ![w] = "save"]
      BY <2>2 DEF Rebuild, DeleteStep
    <3>2. \A p : (\E d \in Deletions : dpc'[d] \in {"rebuild", "save"} /\ p \in dpart'[d])
                 <=> (\E d \in Deletions : dpc[d] \in {"rebuild", "save"} /\ p \in dpart[d])
      BY <3>1, <1>3 DEF LogInv, HistoryTypes, PlaceTypes
    <3>3. Gone' = Gone
      BY <3>1, <3>2 DEF Gone
    <3> QED
      BY <3>1, <3>3, ShownStays DEF RowsStay
  <2>3. CASE DeleteDone(w)
    <3>1. /\ UNCHANGED <<rows, answered, dpart>> /\ erased' = erased \union dpart[w]
          /\ dpc[w] = "save" /\ dpc' = [dpc EXCEPT ![w] = "over"]
      BY <2>3 DEF DeleteDone, DeleteStep
    <3>2. \A d \in Deletions : dpc'[d] = IF d = w THEN "over" ELSE dpc[d]
      BY <3>1, <1>3 DEF LogInv, HistoryTypes, PlaceTypes
    <3>3. \A p : p \in erased' \/ (\E d \in Deletions : dpc'[d] \in {"rebuild", "save"} /\ p \in dpart'[d])
                 <=> p \in erased \/ (\E d \in Deletions : dpc[d] \in {"rebuild", "save"} /\ p \in dpart[d])
      <4>1. ASSUME NEW p, p \in dpart[w]
            PROVE  \E d \in Deletions : dpc[d] \in {"rebuild", "save"} /\ p \in dpart[d]
        BY <3>1, <1>3, <4>1
      <4> QED
        BY <3>1, <3>2, <4>1
    <3>4. Gone' = Gone
      BY <3>3 DEF Gone
    <3> QED
      BY <3>1, <3>4, ShownStays DEF RowsStay
  <2>4. CASE WipeRuns(w)
    BY <2>4, <1>3 DEF RowsMove
  <2> QED
    BY <1>3, <2>1, <2>2, <2>3, <2>4 DEF QuietDeletionStep
<1>4. ASSUME NEW w \in Deletions, NEW t \in Turns, DeleteUser(w, t) \/ DeleteAnswer(w, t)
      PROVE  RowsStay \/ RowsMove
  BY <1>4 DEF RowsMove
<1>5. ASSUME NEW p \in Processes, Restart(p), ~Busy
      PROVE  RowsStay \/ RowsMove
  <2>1. UNCHANGED <<rows, answered, dpart, erased>>
    BY <1>5 DEF Restart
  <2>2. \A d \in Deletions : dpc'[d] = dpc[d]
    BY <1>5 DEF Restart, Busy, InStep, DeletionInStep, LogInv, HistoryTypes, PlaceTypes
  <2>3. Gone' = Gone
    BY <2>1, <2>2 DEF Gone
  <2> QED
    BY <2>1, <2>3, ShownStays DEF RowsStay
<1>6. ASSUME Expire
      PROVE  RowsStay \/ RowsMove
  <2>1. UNCHANGED <<rows, answered, dpc, dpart, erased>>
    BY <1>6 DEF Expire
  <2> QED
    BY <2>1, ShownStays, GoneStays DEF RowsStay
<1>7. ASSUME UNCHANGED vars
      PROVE  RowsStay \/ RowsMove
  <2>1. UNCHANGED <<rows, answered, dpc, dpart, erased>>
    BY <1>7 DEF vars
  <2> QED
    BY <2>1, ShownStays, GoneStays DEF RowsStay
<1> QED
  BY <1>1, <1>2, <1>3, <1>4, <1>5, <1>6, <1>7, StepsOf DEF StepOf, LogInv

(* How rows and deletions move when they do. *)
LEMMA RowMoves ==
  ASSUME LogInv, OneAtATime, InStep
  PROVE  /\ \A t \in Turns : Start(t) => /\ rows[t] = "none" /\ pc[t] = "idle"
                                         /\ rows' = [rows EXCEPT ![t] = "running"]
                                         /\ answered' = answered /\ Gone' = Gone
         /\ \A t \in Turns : Finish(t) => /\ rows[t] = "running" /\ pc[t] \in {"saving", "over"}
                                          /\ rows' = [rows EXCEPT ![t] = "visible"]
                                          /\ answered' \in {answered, answered \union {t}}
                                          /\ t \in answered' \/ t \in stopped
                                          /\ Gone' = Gone
<1> USE DEF rowVars, copies, turnVars, writeVars, deleteVars, historyVars, bounds
<1>1. ASSUME NEW t \in Turns, Start(t)
      PROVE  /\ rows[t] = "none" /\ pc[t] = "idle"
             /\ rows' = [rows EXCEPT ![t] = "running"]
             /\ answered' = answered /\ Gone' = Gone
  BY <1>1, GoneStays DEF Start, Step
<1>2. ASSUME NEW t \in Turns, Finish(t)
      PROVE  /\ rows[t] = "running" /\ pc[t] \in {"saving", "over"}
             /\ rows' = [rows EXCEPT ![t] = "visible"]
             /\ answered' \in {answered, answered \union {t}}
             /\ t \in answered' \/ t \in stopped
             /\ Gone' = Gone
  <2>1. pc[t] # "dead"
    BY DEF InStep, TurnInStep
  <2>2. Gone' = Gone
    BY <1>2, GoneStays DEF Finish
  <2> QED
    BY <1>2, <2>1, <2>2 DEF Finish
<1> QED
  BY <1>1, <1>2

(* What deletions of a message do to the rows. *)
LEMMA DeletionMoves ==
  ASSUME LogInv, InStep, NEW d \in Deletions, NEW t \in Turns
  PROVE  /\ DeleteUser(d, t) => /\ rows[t] \in {"running", "visible"} /\ answered' = answered
                                /\ rows' = [rows EXCEPT ![t] = "deleted"]
                                /\ \A p \in Parts : p \in Gone' <=> p \in Gone \/ p[1] = t
         /\ DeleteAnswer(d, t) => /\ rows[t] \in {"running", "visible"} /\ rows' = rows
                                  /\ answered' = answered \ {t}
                                  /\ \A p \in Parts : p \in Gone' <=> p \in Gone \/ p = <<t, "answer">>
<1> USE DEF rowVars, copies, turnVars, writeVars, deleteVars, historyVars, bounds
<1>1. ASSUME NEW s, dpc[d] = "idle", erased' = erased,
             dpc' = [dpc EXCEPT ![d] = "rebuild"], dpart' = [dpart EXCEPT ![d] = s]
      PROVE  \A p \in Parts : p \in Gone' <=> p \in Gone \/ p \in s
  <2>1. \A e \in Deletions : /\ dpc'[e] = (IF e = d THEN "rebuild" ELSE dpc[e])
                             /\ dpart'[e] = (IF e = d THEN s ELSE dpart[e])
    BY <1>1 DEF LogInv, HistoryTypes, PlaceTypes, SetTypes
  <2> SUFFICES ASSUME NEW p \in Parts
               PROVE  (\E e \in Deletions : dpc'[e] \in {"rebuild", "save"} /\ p \in dpart'[e])
                        <=> (\E e \in Deletions : dpc[e] \in {"rebuild", "save"} /\ p \in dpart[e]) \/ p \in s
    BY <1>1 DEF Gone
  <2>2. ASSUME NEW e \in Deletions, dpc'[e] \in {"rebuild", "save"}, p \in dpart'[e]
        PROVE  (dpc[e] \in {"rebuild", "save"} /\ p \in dpart[e]) \/ p \in s
    BY <2>1, <2>2
  <2>3. ASSUME NEW e \in Deletions, dpc[e] \in {"rebuild", "save"}, p \in dpart[e]
        PROVE  dpc'[e] \in {"rebuild", "save"} /\ p \in dpart'[e]
    BY <1>1, <2>1, <2>3
  <2>4. p \in s => dpc'[d] \in {"rebuild", "save"} /\ p \in dpart'[d]
    BY <2>1
  <2> QED
    BY <2>2, <2>3, <2>4
<1>2. ASSUME DeleteUser(d, t)
      PROVE  /\ rows[t] \in {"running", "visible"} /\ answered' = answered
             /\ rows' = [rows EXCEPT ![t] = "deleted"]
             /\ \A p \in Parts : p \in Gone' <=> p \in Gone \/ p[1] = t
  <2>1. \A p \in Parts : p \in {<<t, "user">>, <<t, "answer">>} <=> p[1] = t
    BY DEF Parts
  <2>2. /\ dpc[d] = "idle" /\ dpc' = [dpc EXCEPT ![d] = "rebuild"] /\ erased' = erased
        /\ dpart' = [dpart EXCEPT ![d] = {<<t, "user">>, <<t, "answer">>}]
        /\ rows[t] \in {"running", "visible"} /\ answered' = answered
        /\ rows' = [rows EXCEPT ![t] = "deleted"]
    BY <1>2 DEF DeleteUser, DeleteStep
  <2> DEFINE s == {<<t, "user">>, <<t, "answer">>}
  <2>3. dpart' = [dpart EXCEPT ![d] = s] /\ \A p \in Parts : p \in s <=> p[1] = t
    BY <2>1, <2>2
  <2> HIDE DEF s
  <2> QED
    BY <1>1, <2>2, <2>3
<1>3. ASSUME DeleteAnswer(d, t)
      PROVE  /\ rows[t] \in {"running", "visible"} /\ rows' = rows
             /\ answered' = answered \ {t}
             /\ \A p \in Parts : p \in Gone' <=> p \in Gone \/ p = <<t, "answer">>
  <2>1. /\ dpc[d] = "idle" /\ dpc' = [dpc EXCEPT ![d] = "rebuild"] /\ erased' = erased
        /\ dpart' = [dpart EXCEPT ![d] = {<<t, "answer">>}]
        /\ rows[t] \in {"running", "visible"} /\ rows' = rows /\ answered' = answered \ {t}
    BY <1>3 DEF DeleteAnswer, DeleteStep
  <2> DEFINE s == {<<t, "answer">>}
  <2>2. dpart' = [dpart EXCEPT ![d] = s] /\ \A p \in Parts : p \in s <=> p = <<t, "answer">>
    BY <2>1
  <2> HIDE DEF s
  <2> QED
    BY <1>1, <2>1, <2>2
<1> QED
  BY <1>2, <1>3

(* What the deletion of the session does to them. *)
LEMMA WipeMoves ==
  ASSUME LogInv, InStep, NEW d \in Deletions, WipeRuns(d)
  PROVE  /\ rows' = [t \in Turns |-> IF rows[t] = "none" THEN "none" ELSE "deleted"]
         /\ answered' = answered
         /\ \A p \in Parts : p \in Gone' <=> p \in Gone \/ rows[p[1]] # "none"
<1>1. /\ rows' = [t \in Turns |-> IF rows[t] = "none" THEN "none" ELSE "deleted"]
      /\ answered' = answered /\ dpart' = dpart
      /\ dpc[d] = "wipeRuns" /\ dpc' = [dpc EXCEPT ![d] = "over"]
      /\ erased' = erased \union {p \in Parts : rows[p[1]] # "none"}
  BY DEF WipeRuns, DeleteStep
<1>2. \A e \in Deletions : dpc'[e] \in {"rebuild", "save"} <=> dpc[e] \in {"rebuild", "save"}
  BY <1>1 DEF LogInv, HistoryTypes, PlaceTypes
<1>3. \A p \in Parts : p \in Gone' <=> p \in Gone \/ rows[p[1]] # "none"
  BY <1>1, <1>2 DEF Gone
<1> QED
  BY <1>1, <1>3

(* A deletion that disturbs nothing finds nothing running. *)
LEMMA NobodyRuns ==
  ASSUME HistoryTypes, ~disturbed', NEW d \in Deletions, NEW t \in Turns, DeleteAnswer(d, t)
  PROVE  rows[t] # "running"
<1>1. ~Busy
  BY DEF DeleteAnswer, HistoryTypes, SetTypes
<1> QED
  BY <1>1 DEF Busy

(* A part is a turn and a side of the conversation. *)
LEMMA PartIs ==
  ASSUME NEW p \in Parts
  PROVE  p[1] \in Turns /\ p[2] \in {"user", "answer"} /\ p = <<p[1], p[2]>>
BY DEF Parts

(* When a part is shown, now and after the step. *)
LEMMA ShownNext ==
  ASSUME NEW p \in Parts
  PROVE  /\ p \in Shown <=> rows[p[1]] = "visible" /\ (p[2] = "answer" => p[1] \in answered)
         /\ p \in Shown' <=> rows'[p[1]] = "visible" /\ (p[2] = "answer" => p[1] \in answered')
BY DEF Shown

(* What is shown or gone are parts of turns. *)
LEMMA GoneArePartsOnly ==
  Gone \subseteq Parts /\ Gone' \subseteq Parts /\ Shown \subseteq Parts /\ Shown' \subseteq Parts
BY DEF Gone, Shown

(* A turn that speaks has a running row. *)
LEMMA SpeakingRuns ==
  ASSUME InStep, NEW t \in Turns
  PROVE  /\ Compose(t) => rows[t] = "running" /\ pc[t] = "ready"
         /\ Answer(t) => rows[t] = "running" /\ pc[t] = "talk"
BY DEF InStep, TurnInStep, Compose, Answer, Speak, Step

(* What is deleted is not shown again. *)
LEMMA GoneIsHiddenKept ==
  ASSUME LogInv, OneAtATime, InStep, PartsInv, [Next]_vars, ~disturbed'
  PROVE  GoneIsHidden'
<1> SUFFICES ASSUME NEW p \in Parts, p \in Gone'
             PROVE  rows'[p[1]] \in {"visible", "deleted"} /\ p \notin Shown'
  BY GoneArePartsOnly DEF GoneIsHidden
<1>1. p[1] \in Turns /\ p[2] \in {"user", "answer"} /\ p = <<p[1], p[2]>>
  BY PartIs
<1>2. p \in Gone => rows[p[1]] \in {"visible", "deleted"} /\ p \notin Shown
  BY DEF PartsInv, GoneIsHidden
<1>3. rows \in [Turns -> {"none", "running", "visible", "deleted"}]
  BY DEF LogInv, HistoryTypes, RowTypes
<1>4. CASE RowsStay
  BY <1>2, <1>4 DEF RowsStay
<1>5. ASSUME NEW t \in Turns, Start(t)
      PROVE  rows'[p[1]] \in {"visible", "deleted"} /\ p \notin Shown'
  BY <1>1, <1>2, <1>3, <1>5, RowMoves, ShownNext
<1>6. ASSUME NEW t \in Turns, Finish(t)
      PROVE  rows'[p[1]] \in {"visible", "deleted"} /\ p \notin Shown'
  BY <1>1, <1>2, <1>3, <1>6, RowMoves, ShownNext
<1>7. ASSUME NEW d \in Deletions, NEW t \in Turns, DeleteUser(d, t)
      PROVE  rows'[p[1]] \in {"visible", "deleted"} /\ p \notin Shown'
  BY <1>1, <1>2, <1>3, <1>7, DeletionMoves, ShownNext
<1>8. ASSUME NEW d \in Deletions, NEW t \in Turns, DeleteAnswer(d, t)
      PROVE  rows'[p[1]] \in {"visible", "deleted"} /\ p \notin Shown'
  <2>1. rows[t] # "running"
    BY <1>8, NobodyRuns DEF LogInv
  <2> QED
    BY <1>1, <1>2, <1>3, <1>8, <2>1, DeletionMoves, ShownNext
<1>9. ASSUME NEW d \in Deletions, WipeRuns(d)
      PROVE  rows'[p[1]] \in {"visible", "deleted"} /\ p \notin Shown'
  BY <1>1, <1>2, <1>3, <1>9, WipeMoves, ShownNext
<1> QED
  BY <1>4, <1>5, <1>6, <1>7, <1>8, <1>9, RowsStayOrMove DEF RowsMove

(* What is said is accounted for. *)
LEMMA SaidIsShownKept ==
  ASSUME LogInv, OneAtATime, InStep, PartsInv, [Next]_vars, ~disturbed'
  PROVE  SaidIsShown'
<1> SUFFICES ASSUME NEW p \in SaidAnywhere'
             PROVE  p \in Parts /\ (rows'[p[1]] = "running" \/ p \in Shown' \/ p \in Gone')
  BY DEF SaidIsShown
<1>1. \/ p \in SaidAnywhere \/ p \in Shown
      \/ \E t \in Turns : Compose(t) /\ p = <<t, "user">>
      \/ \E t \in Turns : Answer(t) /\ p = <<t, "answer">>
  BY NewsSaid
<1>2. p \in Parts
  BY <1>1, GoneArePartsOnly DEF PartsInv, SaidIsShown, Parts
<1>3. p[1] \in Turns /\ p[2] \in {"user", "answer"} /\ p = <<p[1], p[2]>>
  BY <1>2, PartIs
<1>4. rows[p[1]] = "running" \/ p \in Shown \/ p \in Gone
  BY <1>1, <1>3, SpeakingRuns DEF PartsInv, SaidIsShown
<1>5. rows \in [Turns -> {"none", "running", "visible", "deleted"}]
  BY DEF LogInv, HistoryTypes, RowTypes
<1> DEFINE Goal == rows'[p[1]] = "running" \/ p \in Shown' \/ p \in Gone'
<1>6. ASSUME RowsStay
      PROVE  Goal
  BY <1>4, <1>6 DEF RowsStay
<1>7. ASSUME NEW t \in Turns, Start(t)
      PROVE  Goal
  BY <1>2, <1>3, <1>4, <1>5, <1>7, RowMoves, ShownNext
<1>8. ASSUME NEW t \in Turns, Finish(t)
      PROVE  Goal
  <2>1. /\ rows[t] = "running" /\ pc[t] \in {"saving", "over"}
        /\ rows' = [rows EXCEPT ![t] = "visible"]
        /\ answered' \in {answered, answered \union {t}}
        /\ t \in answered' \/ t \in stopped
        /\ Gone' = Gone
    BY <1>8, RowMoves
  <2>2. CASE p = <<t, "answer">> /\ t \notin answered'
    <3>1. t \in stopped
      BY <2>1, <2>2
    <3>2. p \notin SaidAnywhere
      BY <2>1, <2>2, <3>1 DEF PartsInv, AnswersLast, Silenced
    <3>3. p \notin Shown
      BY <1>2, <2>1, <2>2, ShownNext
    <3>4. ~(\E u \in Turns : Compose(u) /\ p = <<u, "user">>)
      BY <2>2
    <3>5. ~(\E u \in Turns : Answer(u) /\ p = <<u, "answer">>)
      BY <2>1, <2>2, SpeakingRuns
    <3> QED
      BY <1>1, <3>2, <3>3, <3>4, <3>5
  <2>3. CASE ~(p = <<t, "answer">> /\ t \notin answered')
    BY <1>2, <1>3, <1>4, <1>5, <2>1, <2>3, ShownNext
  <2> QED
    BY <2>2, <2>3
<1>9. ASSUME NEW d \in Deletions, NEW t \in Turns, DeleteUser(d, t)
      PROVE  Goal
  BY <1>2, <1>3, <1>4, <1>5, <1>9, DeletionMoves, ShownNext
<1>10. ASSUME NEW d \in Deletions, NEW t \in Turns, DeleteAnswer(d, t)
       PROVE  Goal
  BY <1>2, <1>3, <1>4, <1>5, <1>10, DeletionMoves, ShownNext
<1>11. ASSUME NEW d \in Deletions, WipeRuns(d)
       PROVE  Goal
  BY <1>2, <1>3, <1>4, <1>5, <1>11, WipeMoves, ShownNext
<1> QED
  BY <1>2, <1>6, <1>7, <1>8, <1>9, <1>10, <1>11, RowsStayOrMove DEF RowsMove

(* The answer of a run that goes on is said last. *)
LEMMA AnswersLastKept ==
  ASSUME LogInv, OneAtATime, InStep, PartsInv, [Next]_vars, ~disturbed'
  PROVE  AnswersLast'
<1> SUFFICES ASSUME NEW t \in Turns, rows'[t] = "running", Silenced(t)', <<t, "answer">> \in SaidAnywhere'
             PROVE  FALSE
  BY DEF AnswersLast
<1> DEFINE p == <<t, "answer">>
<1>1. \/ p \in SaidAnywhere \/ p \in Shown \/ Answer(t)
  BY NewsSaid
<1>2. Silenced(t)
  BY SilencedBefore
<1>3. p \in Parts /\ p[1] = t
  BY DEF Parts
<1>4. rows \in [Turns -> {"none", "running", "visible", "deleted"}]
  BY DEF LogInv, HistoryTypes, RowTypes
<1>5. CASE rows[t] = "running"
  <2>1. p \notin SaidAnywhere
    BY <1>2, <1>5 DEF PartsInv, AnswersLast
  <2>2. p \notin Shown
    BY <1>3, <1>5, ShownNext
  <2>3. ~Answer(t)
    <3>1. ASSUME Answer(t)
          PROVE  FALSE
      <4>1. pc[t] = "talk" /\ pc' = [pc EXCEPT ![t] = "saving"] /\ stopped' = stopped
        BY <3>1 DEF Answer, Speak, Step, historyVars
      <4>2. t \notin stopped
        BY <4>1 DEF PartsInv, Unbroken
      <4> QED
        BY <4>1, <4>2 DEF Silenced, LogInv, HistoryTypes, PlaceTypes
    <3> QED
      BY <3>1
  <2> QED
    BY <1>1, <2>1, <2>2, <2>3
<1>6. CASE rows[t] # "running"
  <2>1. rows[t] = "none"
    <3>1. CASE RowsStay
      BY <1>6, <3>1 DEF RowsStay
    <3>2. ASSUME NEW u \in Turns, Start(u) \/ Finish(u)
          PROVE  rows[t] = "none"
      BY <1>4, <1>6, <3>2, RowMoves
    <3>3. ASSUME NEW d \in Deletions, NEW u \in Turns, DeleteUser(d, u) \/ DeleteAnswer(d, u)
          PROVE  FALSE
      BY <1>4, <1>6, <3>3, DeletionMoves
    <3>4. ASSUME NEW d \in Deletions, WipeRuns(d)
          PROVE  FALSE
      BY <1>4, <1>6, <3>4, WipeMoves
    <3> QED
      BY <3>1, <3>2, <3>3, <3>4, RowsStayOrMove DEF RowsMove
  <2>2. p \notin Shown /\ p \notin Gone
    BY <1>3, <2>1, ShownNext DEF PartsInv, GoneIsHidden
  <2>3. p \notin SaidAnywhere
    BY <1>3, <2>1, <2>2 DEF PartsInv, SaidIsShown
  <2>4. ~Answer(t)
    BY <2>1, SpeakingRuns
  <2> QED
    BY <1>1, <2>2, <2>3, <2>4
<1> QED
  BY <1>5, <1>6

(* Every undisturbed step keeps account of what is said. *)
LEMMA PartsInvKept ==
  ASSUME LogInv, OneAtATime, InStep, PartsInv, [Next]_vars, ~disturbed'
  PROVE  PartsInv'
BY UnbrokenKept, GoneIsHiddenKept, SaidIsShownKept, AnswersLastKept DEF PartsInv

-----------------------------------------------------------------------------
(* Nothing deleted is in a list that is or may become a history. *)
Clean(s) == Said(s) \intersect erased = {}

(* Unless some turn replayed the transcript, nothing erased is in a copy,
   in a session at work or in a list being saved. *)
NothingBack ==
  replayed = {} =>
    /\ Clean(Held(short)) /\ Clean(Held(cache))
    /\ \A t \in Turns : ~Idle(t) => Clean(mem[t])
    /\ \A w \in Writers : wpc[w] \in {"cache", "row"} => Clean(wlist[w])

(* A deletion saves what is shown and nothing that is gone. *)
Rebuilding ==
  \A d \in Deletions :
    dpc[d] = "save" => Shown \subseteq Said(wlist[d]) /\ Said(wlist[d]) \intersect Gone = {}

(* What a completed deletion removed is gone. *)
LEMMA ErasedIsGone ==
  ASSUME LogInv
  PROVE  erased \subseteq Gone
BY DEF LogInv, HistoryTypes, SetTypes, Gone

(* Nothing of a running turn is erased. *)
LEMMA ErasedNotRunning ==
  ASSUME LogInv, PartsInv, NEW t \in Turns, rows[t] = "running"
  PROVE  <<t, "user">> \notin erased /\ <<t, "answer">> \notin erased
<1>1. <<t, "user">> \in Parts /\ <<t, "answer">> \in Parts
  BY DEF Parts
<1>2. <<t, "user">> \notin Gone /\ <<t, "answer">> \notin Gone
  BY <1>1 DEF PartsInv, GoneIsHidden
<1> QED
  BY <1>2, ErasedIsGone

(* What a user deleted comes back only through a replay. *)
LEMMA NothingBackKept ==
  ASSUME LogInv, OneAtATime, InStep, CopiesInStep, PartsInv, Rebuilding, NothingBack, [Next]_vars, ~disturbed'
  PROVE  NothingBack'
<1> USE DEF rowVars, copies, turnVars, writeVars, deleteVars, historyVars, bounds
<1>1. ASSUME NEW w \in Turns, QuietTurnStep(w) \/ Start(w)
      PROVE  NothingBack'
  <2>1. CASE BackfillDone(w) \/ Break(w) \/ SaveDone(w) \/ Finish(w) \/
            AppendRead(w)
    <3>1. /\ UNCHANGED messages /\ erased' = erased /\ replayed' = replayed
          /\ \A t \in Turns : ~Idle(t)' => ~Idle(t)
          /\ \A x \in Writers : wpc'[x] \in {"cache", "row"} => wpc[x] = wpc'[x]
      BY <2>1, <1>1 DEF BackfillDone, Break, SaveDone, Finish, AppendRead, Step,
         messages, Idle, Asleep, LogInv, HistoryTypes, PlaceTypes
    <3> QED
      BY <3>1 DEF NothingBack, Clean, messages
  <2>2. CASE LoadCache(w) \/ LoadRow(w) \/ BreakEarly(w)
    <3>1. /\ UNCHANGED <<log, short, cache, wlist>>
          /\ \E list \in {Held(short), Held(cache), <<>>, mem[w]} : mem' = [mem EXCEPT ![w] = list]
      BY <2>2, LoadMakes DEF LogInv
    <3>2. /\ erased' = erased /\ replayed' = replayed
          /\ ~Idle(w) /\ \A t \in Turns : ~Idle(t)' => ~Idle(t)
          /\ \A x \in Writers : wpc'[x] \in {"cache", "row"} => wpc[x] = wpc'[x]
      BY <2>2, <1>1 DEF LoadCache, LoadRow, BreakEarly, Loaded, Step, Asleep, Idle,
         messages, LogInv, HistoryTypes, PlaceTypes
    <3>3. ASSUME replayed = {}
          PROVE  \A t \in Turns : ~Idle(t)' => Said(mem'[t]) \intersect erased = {}
      <4>1. PICK list \in {Held(short), Held(cache), <<>>, mem[w]} : mem' = [mem EXCEPT ![w] = list]
        BY <3>1
      <4>2. Said(list) \intersect erased = {}
        BY <3>2, <3>3, NothingSaid, <1>1 DEF NothingBack, Clean
      <4> QED
        BY <4>1, <4>2, <3>2, <3>3, <1>1 DEF NothingBack, Clean, LogInv,
           HistoryTypes, MessageTypes
    <3> QED
      BY <3>1, <3>2, <3>3 DEF NothingBack, Clean
  <2>3. CASE CallTools(w) \/ ToolsDone(w)
    <3>1. /\ UNCHANGED <<log, short, cache, wlist>>
          /\ mem' = [mem EXCEPT ![w] = mem'[w]]
          /\ Said(mem'[w]) = Said(mem[w])
      BY <2>3, ToolRoundMakes DEF LogInv
    <3>2. /\ erased' = erased /\ replayed' = replayed
          /\ ~Idle(w) /\ \A t \in Turns : ~Idle(t)' => ~Idle(t)
          /\ \A x \in Writers : wpc'[x] \in {"cache", "row"} => wpc[x] = wpc'[x]
      BY <2>3, <1>1 DEF CallTools, ToolsDone, Speak, Step, Idle, messages, LogInv,
         HistoryTypes, PlaceTypes
    <3>3. \A t \in Turns : Said(mem'[t]) = Said(mem[t])
      BY <3>1 DEF LogInv, HistoryTypes, MessageTypes
    <3> QED
      BY <3>1, <3>2, <3>3 DEF NothingBack, Clean
  <2>4. CASE Start(w)
    <3>1. /\ UNCHANGED messages /\ erased' = erased /\ replayed' = replayed
          /\ \A t \in Turns : ~Idle(t)' => ~Idle(t) \/ mem[t] = <<>>
          /\ \A x \in Writers : wpc'[x] \in {"cache", "row"} => wpc[x] = wpc'[x]
      BY <2>4, <1>1 DEF Start, Step, messages, Idle, Asleep, PartsInv, Unbroken,
         LogInv, HistoryTypes, PlaceTypes
    <3> QED
      BY <3>1, NothingSaid DEF NothingBack, Clean, messages
  <2>5. CASE Replay(w)
    <3>1. CASE log = <<>>
      <4>1. /\ UNCHANGED <<log, short, cache, wlist>> /\ mem' = [mem EXCEPT ![w] = <<>>]
        BY <2>5, <1>1, <3>1, ReplayMakes DEF Replay, LogInv, HistoryTypes
      <4>2. /\ erased' = erased /\ replayed' = replayed
            /\ \A t \in Turns : ~Idle(t)' => ~Idle(t)
            /\ wpc' = wpc
        BY <2>5, <1>1, <3>1 DEF Replay, Step, Idle, LogInv, HistoryTypes, PlaceTypes
      <4>3. \A t \in Turns : mem'[t] \in {mem[t], <<>>}
        BY <4>1 DEF LogInv, HistoryTypes, MessageTypes
      <4> QED
        BY <4>1, <4>2, <4>3, NothingSaid DEF NothingBack, Clean
    <3>2. CASE log # <<>>
      <4>1. w \in replayed'
        BY <2>5, <3>2 DEF Replay
      <4> QED
        BY <4>1 DEF NothingBack
    <3> QED
      BY <3>1, <3>2
  <2>6. CASE Compose(w)
    <3>1. /\ UNCHANGED <<log, short, cache, wlist>>
          /\ mem' = [mem EXCEPT ![w] = mem'[w]]
          /\ Said(mem'[w]) = Said(mem[w]) \union {<<w, "user">>}
      BY <2>6, <1>1, ComposeMakes DEF Compose, LogInv, HistoryTypes
    <3>2. /\ erased' = erased /\ replayed' = replayed
          /\ ~Idle(w) /\ \A t \in Turns : ~Idle(t)' => ~Idle(t)
          /\ \A x \in Writers : wpc'[x] \in {"cache", "row"} => wpc[x] = wpc'[x]
      BY <2>6, <1>1 DEF Compose, Step, Idle, messages, LogInv, HistoryTypes, PlaceTypes
    <3>3. <<w, "user">> \notin erased
      BY <2>6, <1>1, SpeakingRuns, ErasedNotRunning
    <3>4. \A t \in Turns \ {w} : mem'[t] = mem[t]
      BY <3>1 DEF LogInv, HistoryTypes, MessageTypes
    <3> QED
      BY <3>1, <3>2, <3>3, <3>4 DEF NothingBack, Clean
  <2>7. CASE Answer(w)
    <3>1. /\ UNCHANGED <<log, short, cache, wlist>>
          /\ mem' = [mem EXCEPT ![w] = mem'[w]]
          /\ Said(mem'[w]) = Said(mem[w]) \union {<<w, "answer">>}
      BY <2>7, <1>1, AnswerMakes DEF LogInv
    <3>2. /\ erased' = erased /\ replayed' = replayed
          /\ ~Idle(w) /\ \A t \in Turns : ~Idle(t)' => ~Idle(t)
          /\ \A x \in Writers : wpc'[x] \in {"cache", "row"} => wpc[x] = wpc'[x]
      BY <2>7, <1>1 DEF Answer, Speak, Step, Idle, messages, LogInv, HistoryTypes, PlaceTypes
    <3>3. <<w, "answer">> \notin erased
      BY <2>7, <1>1, SpeakingRuns, ErasedNotRunning
    <3>4. \A t \in Turns \ {w} : mem'[t] = mem[t]
      BY <3>1 DEF LogInv, HistoryTypes, MessageTypes
    <3> QED
      BY <3>1, <3>2, <3>3, <3>4 DEF NothingBack, Clean
  <2>8. CASE AppendCommit(w)
    <3>1. /\ UNCHANGED <<short, cache, mem>> /\ AfterAppend(w) /\ pc[w] = "saving"
          /\ pc' = pc /\ erased' = erased /\ replayed' = replayed
      BY <2>8, <1>1 DEF AppendCommit, InStep, TurnInStep
    <3>2. /\ wlist' = [wlist EXCEPT ![w] = wlist'[w]]
          /\ Said(wlist'[w]) \subseteq Said(mem[w])
      BY <3>1, <1>1, AfterAppendMakes DEF LogInv, HistoryTypes
    <3>3. \A x \in Writers \ {w} : wlist'[x] = wlist[x] /\ wpc'[x] = wpc[x]
      BY <3>1, <3>2, <1>1 DEF AfterAppend, LogInv, HistoryTypes, MessageTypes, PlaceTypes
    <3>4. ~Idle(w)
      BY <3>1 DEF Idle
    <3>5. replayed = {} => Said(wlist'[w]) \intersect erased = {}
      BY <3>2, <3>4, <1>1 DEF NothingBack, Clean
    <3>6. replayed = {} => \A x \in Writers : wpc'[x] \in {"cache", "row"} => Said(wlist'[x]) \intersect erased = {}
      BY <3>3, <3>5 DEF NothingBack, Clean
    <3> QED
      BY <3>1, <3>6 DEF NothingBack, Clean, Idle
  <2> QED
    BY <1>1, <2>1, <2>2, <2>3, <2>4, <2>5, <2>6, <2>7, <2>8 DEF QuietTurnStep
<1>2. ASSUME NEW w \in Writers, QuietWriterStep(w)
      PROVE  NothingBack'
  <2>1. CASE WriteCache(w)
    <3>1. /\ UNCHANGED <<log, short, mem, wlist, pc, erased, replayed>>
          /\ wpc[w] = "cache" /\ wpc' = [wpc EXCEPT ![w] = "row"]
          /\ cache' \in {cache, wlist[w]}
      BY <2>1 DEF WriteCache, WriteStep
    <3>2. wlist[w] \in Seq(Message) /\ Held(wlist[w]) = wlist[w]
      BY <1>2, HeldIn DEF LogInv, HistoryTypes, MessageTypes
    <3>3. Held(cache') \in {Held(cache), wlist[w]}
      BY <3>1, <3>2
    <3>4. \A x \in Writers : wpc'[x] \in {"cache", "row"} => wpc[x] \in {"cache", "row"}
      BY <3>1 DEF LogInv, HistoryTypes, PlaceTypes
    <3> QED
      BY <3>1, <3>3, <3>4 DEF NothingBack, Clean, Idle
  <2>2. CASE WriteRow(w)
    <3>1. /\ UNCHANGED <<log, cache, mem, wlist, pc, erased, replayed>>
          /\ wpc[w] = "row" /\ wpc' = [wpc EXCEPT ![w] = "idle"]
          /\ short' = wlist[w]
      BY <2>2 DEF WriteRow, WriteStep
    <3>2. wlist[w] \in Seq(Message) /\ Held(wlist[w]) = wlist[w]
      BY <1>2, HeldIn DEF LogInv, HistoryTypes, MessageTypes
    <3>3. Held(short') = wlist[w]
      BY <3>1, <3>2
    <3>4. \A x \in Writers : wpc'[x] \in {"cache", "row"} => wpc[x] \in {"cache", "row"}
      BY <3>1 DEF LogInv, HistoryTypes, PlaceTypes
    <3> QED
      BY <3>1, <3>3, <3>4 DEF NothingBack, Clean, Idle
  <2> QED
    BY <1>2, <2>1, <2>2 DEF QuietWriterStep
<1>3. ASSUME NEW w \in Deletions, QuietDeletionStep(w) \/ WipeCache(w)
      PROVE  NothingBack'
  <2>1. CASE WipeRow(w) \/ WipeCache(w)
    <3>1. /\ UNCHANGED <<log, mem, wlist, pc, wpc, erased, replayed>>
          /\ short' \in {short, NoCopy} /\ cache' \in {cache, NoCopy}
      BY <2>1 DEF WipeRow, WipeCache, DeleteStep
    <3>2. Held(short') \in {Held(short), <<>>} /\ Held(cache') \in {Held(cache), <<>>}
      BY <3>1 DEF Held
    <3> QED
      BY <3>1, <3>2, NothingSaid DEF NothingBack, Clean, Idle
  <2>2. CASE Rebuild(w)
    <3>1. /\ UNCHANGED <<log, short, cache, mem, pc, erased, replayed>>
          /\ wlist' = [wlist EXCEPT ![w] = wlist'[w]] /\ Said(wlist'[w]) = Shown
      BY <2>2, <1>3, RebuildMakes DEF Rebuild, LogInv, HistoryTypes
    <3>2. Shown \intersect erased = {}
      BY ErasedIsGone DEF PartsInv, GoneIsHidden
    <3>3. wpc' = [wpc EXCEPT ![w] = "cache"]
      BY <2>2 DEF Rebuild
    <3>4. \A x \in Writers \ {w} : wlist'[x] = wlist[x] /\ wpc'[x] = wpc[x]
      BY <3>1, <3>3 DEF LogInv, HistoryTypes, MessageTypes, PlaceTypes
    <3>5. replayed = {} => \A x \in Writers : wpc'[x] \in {"cache", "row"} => Said(wlist'[x]) \intersect erased = {}
      BY <3>1, <3>2, <3>4 DEF NothingBack, Clean
    <3> QED
      BY <3>1, <3>5 DEF NothingBack, Clean, Idle
  <2>3. CASE DeleteDone(w)
    <3>1. /\ UNCHANGED <<log, short, cache, mem, wlist, pc, wpc, replayed>>
          /\ erased' = erased \union dpart[w]
          /\ dpc[w] = "save" /\ wpc[w] = "idle"
      BY <2>3 DEF DeleteDone, DeleteStep, Asleep
    <3>2. /\ \A x \in Writers : wpc[x] = "idle"
          /\ \A t \in Turns : Idle(t)
      BY <1>3, <3>1, WorksAlone, OthersSleep, TurnsAndDeletions DEF StepOf, LogInv,
         QuietDeletionStep, Idle
    <3>3. short = wlist[w] /\ cache \in {NoCopy, short}
      BY <1>3, <3>1, <3>2 DEF CopiesInStep, Asleep
    <3>4. Held(short) = wlist[w] /\ Held(cache) \in {<<>>, wlist[w]}
      BY <1>3, <3>3, HeldIn, TurnsAndDeletions DEF LogInv, HistoryTypes, MessageTypes
    <3>5. erased' \subseteq Gone
      BY <1>3, <3>1, ErasedIsGone DEF Gone, LogInv, HistoryTypes, SetTypes
    <3>6. Said(wlist[w]) \intersect erased' = {}
      BY <1>3, <3>1, <3>5 DEF Rebuilding
    <3> QED
      BY <3>1, <3>2, <3>4, <3>6, NothingSaid DEF NothingBack, Clean, Idle
  <2>4. CASE WipeRuns(w)
    <3>1. /\ UNCHANGED <<log, short, cache, mem, wlist, pc, wpc, replayed>>
          /\ dpc[w] = "wipeRuns"
      BY <2>4 DEF WipeRuns, DeleteStep
    <3>2. /\ \A t \in Turns : Idle(t)
          /\ \A x \in Writers \ {w} : wpc[x] = "idle"
      BY <2>4, <1>3, WorksAlone, OthersSleep, TurnsAndDeletions DEF StepOf, LogInv,
         QuietDeletionStep, Idle
    <3>3. wpc[w] = "idle" /\ short = NoCopy /\ cache = NoCopy
      BY <1>3, <3>1 DEF InStep, DeletionInStep, CopiesInStep
    <3>4. Held(short) = <<>> /\ Held(cache) = <<>>
      BY <3>3 DEF Held
    <3> QED
      BY <3>1, <3>2, <3>3, <3>4, NothingSaid DEF NothingBack, Clean, Idle
  <2> QED
    BY <1>3, <2>1, <2>2, <2>3, <2>4 DEF QuietDeletionStep
<1>4. ASSUME NEW w \in Deletions, NEW t \in Turns, DeleteUser(w, t) \/ DeleteAnswer(w, t)
      PROVE  NothingBack'
  <2>1. /\ UNCHANGED messages /\ erased' = erased /\ replayed' = replayed
        /\ \A u \in Turns : ~Idle(u)' => ~Idle(u)
        /\ \A x \in Writers : wpc'[x] \in {"cache", "row"} => wpc[x] = wpc'[x]
    BY <1>4 DEF DeleteUser, DeleteAnswer, messages, Idle
  <2> QED
    BY <2>1 DEF NothingBack, Clean, messages
<1>5. ASSUME NEW p \in Processes, Restart(p), ~Busy
      PROVE  NothingBack'
  <2>1. /\ UNCHANGED messages /\ erased' = erased /\ replayed' = replayed
        /\ \A t \in Turns : ~Idle(t)' => ~Idle(t)
        /\ \A x \in Writers : wpc'[x] \in {"cache", "row"} => wpc[x] = wpc'[x]
    BY <1>5, TurnsAndDeletions DEF Restart, Busy, messages, Idle, LogInv,
       HistoryTypes, PlaceTypes
  <2> QED
    BY <2>1 DEF NothingBack, Clean, messages
<1>6. ASSUME Expire
      PROVE  NothingBack'
  <2>1. UNCHANGED <<log, short, mem, wlist, pc, wpc, erased, replayed>> /\ cache' = NoCopy
    BY <1>6 DEF Expire
  <2>2. Held(cache') = <<>>
    BY <2>1 DEF Held
  <2> QED
    BY <2>1, <2>2, NothingSaid DEF NothingBack, Clean, Idle
<1>7. ASSUME UNCHANGED vars
      PROVE  NothingBack'
  <2>1. /\ UNCHANGED messages /\ erased' = erased /\ replayed' = replayed
        /\ \A t \in Turns : ~Idle(t)' => ~Idle(t)
        /\ \A x \in Writers : wpc'[x] \in {"cache", "row"} => wpc[x] = wpc'[x]
    BY <1>7 DEF vars, messages, Idle
  <2> QED
    BY <2>1 DEF NothingBack, Clean, messages
<1> QED
  BY <1>1, <1>2, <1>3, <1>4, <1>5, <1>6, <1>7, StepsOf DEF StepOf, LogInv

(* What a deletion saves stays what is shown. *)
LEMMA RebuildingKept ==
  ASSUME LogInv, OneAtATime, InStep, PartsInv, Rebuilding, [Next]_vars, ~disturbed'
  PROVE  Rebuilding'
<1> USE DEF rowVars, copies, turnVars, writeVars, deleteVars, historyVars, bounds
<1> SUFFICES ASSUME NEW d \in Deletions, dpc'[d] = "save"
             PROVE  Shown' \subseteq Said(wlist'[d]) /\ Said(wlist'[d]) \intersect Gone' = {}
  BY DEF Rebuilding
<1>1. ASSUME Rebuild(d)
      PROVE  Shown' \subseteq Said(wlist'[d]) /\ Said(wlist'[d]) \intersect Gone' = {}
  <2>1. Said(wlist'[d]) = Shown
    BY <1>1, RebuildMakes DEF LogInv, HistoryTypes
  <2>2. Shown' = Shown
    BY <1>1, ShownStays DEF Rebuild
  <2>3. Gone' \subseteq Gone
    BY <1>1 DEF Rebuild, DeleteStep, Gone, LogInv, HistoryTypes, PlaceTypes
  <2> QED
    BY <2>1, <2>2, <2>3 DEF PartsInv, GoneIsHidden
<1>2. ASSUME ~Rebuild(d)
      PROVE  dpc[d] = "save" /\ UNCHANGED <<rows, answered, dpc, dpart, erased, wlist>>
  <2>1. ASSUME NEW w \in Writers, StepOf(w)
        PROVE  dpc[d] = "save" /\ UNCHANGED <<rows, answered, dpc, dpart, erased, wlist>>
    <3>1. w = d
      <4>1. CASE w # d
        <5>1. ~Deleting(d)'
          BY <2>1, <4>1, WorksAlone DEF NobodyElse, LogInv
        <5> QED
          BY <5>1 DEF Deleting
      <4> QED
        BY <4>1
    <3>2. d \notin Turns
      BY TurnsAndDeletions
    <3>3. CASE QuietWriterStep(d)
      BY <3>3 DEF QuietWriterStep, WriteCache, WriteRow
    <3>4. CASE DeleteDone(d) \/ WipeRow(d) \/ WipeRuns(d) \/ WipeCache(d)
      BY <3>4 DEF DeleteDone, WipeRow, WipeRuns, WipeCache, DeleteStep, LogInv,
         HistoryTypes, PlaceTypes
    <3>5. ASSUME NEW t \in Turns, DeleteUser(d, t) \/ DeleteAnswer(d, t)
          PROVE  FALSE
      BY <3>5 DEF DeleteUser, DeleteAnswer, DeleteStep, LogInv, HistoryTypes, PlaceTypes
    <3> QED
      BY <1>2, <2>1, <3>1, <3>2, <3>3, <3>4, <3>5 DEF StepOf, QuietDeletionStep
  <2>2. ASSUME NEW p \in Processes, Restart(p), ~Busy
        PROVE  FALSE
    BY <2>2 DEF Restart, Busy, LogInv, HistoryTypes, PlaceTypes
  <2>3. CASE Expire \/ UNCHANGED vars
    BY <2>3 DEF Expire, vars
  <2> QED
    BY <2>1, <2>2, <2>3, StepsOf DEF LogInv
<1>3. ASSUME ~Rebuild(d)
      PROVE  Shown' \subseteq Said(wlist'[d]) /\ Said(wlist'[d]) \intersect Gone' = {}
  <2>1. dpc[d] = "save" /\ UNCHANGED <<rows, answered, dpc, dpart, erased, wlist>>
    BY <1>2, <1>3
  <2>2. Shown' = Shown /\ Gone' = Gone
    BY <2>1, ShownStays, GoneStays
  <2> QED
    BY <2>1, <2>2 DEF Rebuilding
<1> QED
  BY <1>1, <1>3

-----------------------------------------------------------------------------
(* A turn saves what its session says. *)
Whole(t) ==
  /\ InLog(t) => Said(mem[t]) \subseteq Said(log)
  /\ pc[t] \in {"backfill", "saving"} =>
       /\ wpc[t] \in {"cache", "row"} => Said(wlist[t]) = Said(mem[t])
       /\ wpc[t] = "idle" => Said(Held(short)) = Said(mem[t])

(* It holds for all turns. *)
SavesWhole == \A t \in Turns : Whole(t)

(* A list says what a turn said and nobody deleted; a turn that has its
   history. *)
Keeps(u, s) == Said(mem[u]) \ Gone \subseteq Said(s)
HasHistory(t) == pc[t] \in {"backfill", "ready", "talk", "tools", "saving"}

(* Nothing said by a turn that is over is missing. *)
Kept(u) ==
  /\ Held(short) = <<>> \/ Keeps(u, Held(short))
  /\ \A t \in Turns \ {u} : HasHistory(t) => Keeps(u, mem[t])

(* So the short-term row, and whoever has its history, keep every turn that
   is over. *)
NothingLost == \A u \in Turns : pc[u] = "over" => Kept(u)

(* What is gone stays gone. *)
LEMMA GoneGrows ==
  ASSUME LogInv, OneAtATime, InStep, [Next]_vars, ~disturbed'
  PROVE  Gone \subseteq Gone'
<1>1. CASE RowsStay
  BY <1>1 DEF RowsStay
<1>2. ASSUME NEW t \in Turns, Start(t) \/ Finish(t)
      PROVE  Gone \subseteq Gone'
  BY <1>2, RowMoves
<1>3. ASSUME NEW d \in Deletions, NEW t \in Turns, DeleteUser(d, t) \/ DeleteAnswer(d, t)
      PROVE  Gone \subseteq Gone'
  BY <1>3, DeletionMoves, GoneArePartsOnly
<1>4. ASSUME NEW d \in Deletions, WipeRuns(d)
      PROVE  Gone \subseteq Gone'
  BY <1>4, WipeMoves, GoneArePartsOnly
<1> QED
  BY <1>1, <1>2, <1>3, <1>4, RowsStayOrMove DEF RowsMove

(* Tool calls and results say nothing, wherever they are. *)
LEMMA AllSilent ==
  ASSUME LogInv
  PROVE  Silent(log) /\ \A t \in Turns : Silent(mem[t])
BY AllHas DEF LogInv, MessagesKept, WellKept, Silent

(* Whoever takes a step saves what its session says. *)
LEMMA OwnWhole ==
  ASSUME LogInv, OneAtATime, InStep, SavesWhole, [Next]_vars, ~disturbed', NEW w \in Writers, StepOf(w)
  PROVE  w \in Turns => Whole(w)'
<1> USE DEF rowVars, copies, turnVars, writeVars, deleteVars, historyVars, bounds
<1>1. ASSUME w \in Turns, QuietTurnStep(w) \/ Start(w)
      PROVE  w \in Turns => Whole(w)'
  <2>1. CASE Start(w) \/ LoadCache(w) \/ LoadRow(w) \/ BackfillDone(w)
    <3>1. pc'[w] \notin {"backfill", "saving", "over"}
      BY <2>1, <1>1 DEF Start, LoadCache, LoadRow, Loaded, BackfillDone, Step,
         LogInv, HistoryTypes, PlaceTypes
    <3> QED
      BY <3>1 DEF Whole, InLog
  <2>2. CASE Compose(w) \/ CallTools(w) \/ ToolsDone(w)
    <3>1. pc'[w] \notin {"backfill", "saving", "over"}
      BY <2>2, <1>1 DEF Compose, CallTools, ToolsDone, Speak, Step, LogInv,
         HistoryTypes, PlaceTypes
    <3> QED
      BY <3>1 DEF Whole, InLog
  <2>3. CASE Answer(w) \/ Break(w)
    <3>1. pc'[w] = "saving" /\ wpc'[w] = "append"
      BY <2>3, <1>1 DEF Answer, Break, Speak, Step, LogInv, HistoryTypes, PlaceTypes
    <3> QED
      BY <3>1 DEF Whole, InLog
  <2>4. CASE Replay(w)
    <3>1. CASE log = <<>>
      <4>1. pc'[w] = "ready"
        BY <2>4, <1>1, <3>1 DEF Replay, Step, LogInv, HistoryTypes, PlaceTypes
      <4> QED
        BY <4>1 DEF Whole, InLog
    <3>2. CASE log # <<>>
      <4>1. pc'[w] = "backfill" /\ wpc'[w] = "cache" /\ wlist'[w] = mem'[w]
        BY <2>4, <1>1, <3>2, TurnsAndDeletions DEF Replay, Step, LogInv,
           HistoryTypes, PlaceTypes, MessageTypes
      <4> QED
        BY <4>1 DEF Whole, InLog
    <3> QED
      BY <3>1, <3>2
  <2>5. CASE BreakEarly(w) /\ Asleep(w)
    <3>1. pc'[w] = "over" /\ mem'[w] = <<>>
      BY <2>5, <1>1 DEF BreakEarly, Step, LogInv, HistoryTypes, PlaceTypes, MessageTypes
    <3> QED
      BY <3>1, NothingSaid DEF Whole
  <2>6. CASE SaveDone(w)
    <3>1. /\ pc[w] = "saving" /\ wpc[w] = "idle" /\ pc'[w] = "over"
          /\ UNCHANGED <<log, mem>>
      BY <2>6, <1>1 DEF SaveDone, Step, Asleep, LogInv, HistoryTypes, PlaceTypes
    <3> QED
      BY <3>1, <1>1 DEF SavesWhole, Whole, InLog
  <2>7. CASE Finish(w)
    <3>1. UNCHANGED <<log, short, mem, wlist, pc, wpc>>
      BY <2>7 DEF Finish
    <3> QED
      BY <3>1, <1>1 DEF SavesWhole, Whole, InLog
  <2>8. CASE AppendRead(w)
    <3>1. wpc'[w] = "commit" /\ pc'[w] = "saving"
      BY <2>8, <1>1, TurnsAndDeletions DEF AppendRead, InStep, TurnInStep, LogInv,
         HistoryTypes, PlaceTypes
    <3> QED
      BY <3>1 DEF Whole, InLog
  <2>9. CASE AppendCommit(w)
    <3>1. /\ UNCHANGED <<short, cache, mem>> /\ AfterAppend(w) /\ pc[w] = "saving" /\ pc' = pc
      BY <2>9, <1>1 DEF AppendCommit, InStep, TurnInStep
    <3>2. Said(wlist'[w]) = Said(mem[w])
      BY <3>1, <1>1, AfterAppendMakes, AllSilent DEF LogInv, HistoryTypes
    <3>3. wpc'[w] = "cache"
      BY <3>1, <1>1, TurnsAndDeletions DEF AfterAppend, LogInv, HistoryTypes, PlaceTypes
    <3>4. w \notin unlogged'
      BY NoneRefused DEF LogInv
    <3>5. Said(mem[w]) \subseteq Said(log')
      BY <2>9, <1>1, <3>4, AppendSays DEF LogInv
    <3> QED
      BY <3>1, <3>2, <3>3, <3>5 DEF Whole
  <2> QED
    BY <1>1, <2>1, <2>2, <2>3, <2>4, <2>5, <2>6, <2>7, <2>8, <2>9 DEF
       QuietTurnStep
<1>2. ASSUME QuietWriterStep(w)
      PROVE  w \in Turns => Whole(w)'
  <2>1. CASE WriteCache(w)
    <3>1. /\ UNCHANGED <<log, short, mem, wlist, pc>>
          /\ wpc[w] = "cache" /\ wpc'[w] = "row"
      BY <2>1 DEF WriteCache, WriteStep, LogInv, HistoryTypes, PlaceTypes
    <3> QED
      BY <3>1 DEF SavesWhole, Whole, InLog
  <2>2. CASE WriteRow(w)
    <3>1. /\ UNCHANGED <<log, mem, wlist, pc>> /\ short' = wlist[w]
          /\ wpc[w] = "row" /\ wpc'[w] = "idle"
      BY <2>2 DEF WriteRow, WriteStep, LogInv, HistoryTypes, PlaceTypes
    <3>2. Held(short') = wlist[w]
      BY <3>1, HeldIn DEF LogInv, HistoryTypes, MessageTypes
    <3> QED
      BY <3>1, <3>2 DEF SavesWhole, Whole, InLog
  <2> QED
    BY <1>2, <2>1, <2>2 DEF QuietWriterStep
<1>3. ASSUME w \in Deletions, QuietDeletionStep(w) \/ WipeCache(w)
      PROVE  w \in Turns => Whole(w)'
  <2>1. CASE Rebuild(w) \/ DeleteDone(w) \/ WipeRow(w) \/ WipeRuns(w) \/
            WipeCache(w)
    BY <2>1, <1>3, TurnsAndDeletions
  <2> QED
    BY <1>3, <2>1 DEF QuietDeletionStep
<1>4. ASSUME w \in Deletions, NEW t \in Turns, DeleteUser(w, t) \/ DeleteAnswer(w, t)
      PROVE  w \in Turns => Whole(w)'
  BY <1>4, <1>4, TurnsAndDeletions
<1> QED
  BY <1>1, <1>2, <1>3, <1>4 DEF StepOf

(* The transcript loses nothing. *)
LEMMA LogGrows ==
  ASSUME LogInv, [Next]_vars, ~disturbed'
  PROVE  Said(log) \subseteq Said(log')
<1>1. (\E t \in Turns : AppendCommit(t)) \/ log' = log
  BY QuietSteps DEF LogInv, QuietTurnStep, QuietWriterStep, QuietDeletionStep, LoneStep,
     Start, LoadCache, LoadRow,
     Replay, BackfillDone, Compose, CallTools, ToolsDone, Answer, Break, BreakEarly, SaveDone, Finish, AppendRead,
     WriteCache, WriteRow, Rebuild, DeleteDone, WipeRow, WipeRuns, WipeCache, DeleteUser, DeleteAnswer, Restart,
     Expire, vars, copies
<1> QED
  BY <1>1, AppendCommitMakes DEF LogInv, HistoryTypes

(* Every undisturbed step saves what the session says. *)
LEMMA SavesWholeKept ==
  ASSUME LogInv, OneAtATime, InStep, SavesWhole, [Next]_vars, ~disturbed'
  PROVE  SavesWhole'
<1> SUFFICES ASSUME NEW u \in Turns
             PROVE  Whole(u)'
  BY DEF SavesWhole
<1>1. ASSUME NEW w \in Writers, StepOf(w)
      PROVE  Whole(u)'
  <2>1. CASE u = w
    BY <1>1, <2>1, OwnWhole
  <2>2. CASE u # w
    <3>1. ~Working(u)' /\ Untouched(u)
      BY <1>1, <2>2, WorksAlone, OthersUntouched, TurnsAndDeletions DEF NobodyElse, LogInv
    <3>2. pc'[u] \notin {"backfill", "saving"}
      BY <3>1 DEF Working, Idle
    <3>3. InLog(u)' => pc[u] = "over" /\ mem'[u] = mem[u]
      BY <3>1, <3>2 DEF Untouched, InLog
    <3>4. Said(log) \subseteq Said(log')
      BY LogGrows
    <3> QED
      BY <3>2, <3>3, <3>4 DEF SavesWhole, Whole, InLog
  <2> QED
    BY <2>1, <2>2
<1>2. ASSUME NEW p \in Processes, Restart(p), ~Busy
      PROVE  Whole(u)'
  <2>1. UNCHANGED <<log, short, mem, wlist, pc, wpc>>
    BY <1>2, TurnsAndDeletions DEF Restart, Busy, Idle, Asleep, LogInv, HistoryTypes,
       PlaceTypes, copies
  <2> QED
    BY <2>1 DEF SavesWhole, Whole, InLog
<1>3. CASE Expire \/ UNCHANGED vars
  <2>1. UNCHANGED <<log, short, mem, wlist, pc, wpc>>
    BY <1>3 DEF Expire, vars, copies, turnVars, writeVars
  <2> QED
    BY <2>1 DEF SavesWhole, Whole, InLog
<1> QED
  BY <1>1, <1>2, <1>3, StepsOf DEF LogInv

(* The short-term row goes on saying what turns that are over said. *)
LEMMA ShortKeeps ==
  ASSUME LogInv, OneAtATime, InStep, CopiesInStep, PartsInv, Rebuilding, SavesWhole, NothingLost, [Next]_vars, ~disturbed',
         NEW u \in Turns, pc[u] = "over", NEW w \in Writers \ {u}, StepOf(w)
  PROVE  Held(short') = <<>> \/ Said(mem[u]) \ Gone \subseteq Said(Held(short'))
<1> USE DEF rowVars, copies, turnVars, writeVars, deleteVars, historyVars, bounds
<1>1. ASSUME w \in Turns, QuietTurnStep(w) \/ Start(w)
      PROVE  Held(short') = <<>> \/ Said(mem[u]) \ Gone \subseteq Said(Held(short'))
  <2>1. CASE Start(w) \/ LoadCache(w) \/ LoadRow(w) \/ Replay(w) \/
            BackfillDone(w)
    <3>1. short' = short
      BY <2>1 DEF Start, LoadCache, LoadRow, Replay, BackfillDone, Loaded
    <3> QED
      BY <3>1 DEF NothingLost, Kept, Keeps
  <2>2. CASE Compose(w) \/ CallTools(w) \/ ToolsDone(w) \/ Answer(w) \/
            Break(w) \/ BreakEarly(w)
    <3>1. short' = short
      BY <2>2 DEF Compose, CallTools, ToolsDone, Answer, Break, BreakEarly
    <3> QED
      BY <3>1 DEF NothingLost, Kept, Keeps
  <2>3. CASE SaveDone(w) \/ Finish(w) \/ AppendRead(w) \/ AppendCommit(w)
    <3>1. short' = short
      BY <2>3 DEF SaveDone, Finish, AppendRead, AppendCommit
    <3> QED
      BY <3>1 DEF NothingLost, Kept, Keeps
  <2> QED
    BY <1>1, <2>1, <2>2, <2>3 DEF QuietTurnStep
<1>2. ASSUME QuietWriterStep(w)
      PROVE  Held(short') = <<>> \/ Said(mem[u]) \ Gone \subseteq Said(Held(short'))
  <2>1. CASE WriteCache(w)
    <3>1. short' = short
      BY <2>1 DEF WriteCache
    <3> QED
      BY <3>1 DEF NothingLost, Kept, Keeps
  <2>2. CASE WriteRow(w)
    <3>1. /\ short' = wlist[w] /\ wpc[w] = "row"
      BY <2>2 DEF WriteRow, WriteStep
    <3>2. Held(short') = wlist[w]
      BY <3>1, HeldIn DEF LogInv, HistoryTypes, MessageTypes
    <3>3. CASE w \in Turns
      <4>1. pc[w] \in {"backfill", "saving"}
        BY <3>1, <3>3 DEF InStep, TurnInStep
      <4>2. Said(wlist[w]) = Said(mem[w])
        BY <3>1, <3>3, <4>1 DEF SavesWhole, Whole
      <4>3. Said(mem[u]) \ Gone \subseteq Said(mem[w])
        BY <3>3, <4>1 DEF NothingLost, Kept, Keeps, HasHistory
      <4> QED
        BY <3>2, <4>2, <4>3
    <3>4. CASE w \in Deletions
      <4>1. dpc[w] = "save"
        BY <3>1, <3>4 DEF InStep, DeletionInStep
      <4>2. Shown \subseteq Said(wlist[w])
        BY <3>4, <4>1 DEF Rebuilding
      <4>3. \A t \in Turns : rows[t] # "running"
        BY <1>2, <3>4, WorksAlone, OthersSleep, TurnsAndDeletions DEF StepOf, LogInv
      <4>4. Said(mem[u]) \subseteq SaidAnywhere
        BY DEF SaidAnywhere, SaidOf
      <4>5. Said(mem[u]) \ Gone \subseteq Shown
        BY <4>3, <4>4, PartIs DEF PartsInv, SaidIsShown
      <4> QED
        BY <3>2, <4>2, <4>5
    <3> QED
      BY <3>3, <3>4 DEF Writers
  <2> QED
    BY <1>2, <2>1, <2>2 DEF QuietWriterStep
<1>3. ASSUME w \in Deletions, QuietDeletionStep(w) \/ WipeCache(w)
      PROVE  Held(short') = <<>> \/ Said(mem[u]) \ Gone \subseteq Said(Held(short'))
  <2>1. CASE Rebuild(w) \/ DeleteDone(w) \/ WipeRuns(w) \/ WipeCache(w)
    <3>1. short' = short
      BY <2>1 DEF Rebuild, DeleteDone, WipeRuns, WipeCache
    <3> QED
      BY <3>1 DEF NothingLost, Kept, Keeps
  <2>2. CASE WipeRow(w)
    <3>1. Held(short') = <<>>
      BY <2>2 DEF WipeRow, Held
    <3> QED
      BY <3>1
  <2> QED
    BY <1>3, <2>1, <2>2 DEF QuietDeletionStep
<1>4. ASSUME w \in Deletions, NEW t \in Turns, DeleteUser(w, t) \/ DeleteAnswer(w, t)
      PROVE  Held(short') = <<>> \/ Said(mem[u]) \ Gone \subseteq Said(Held(short'))
  <2>1. short' = short
    BY <1>4 DEF DeleteUser, DeleteAnswer
  <2> QED
    BY <2>1 DEF NothingLost, Kept, Keeps
<1> QED
  BY <1>1, <1>2, <1>3, <1>4 DEF StepOf

(* And so does the session of whoever is at work. *)
LEMMA SessionKeeps ==
  ASSUME LogInv, OneAtATime, InStep, CopiesInStep, PartsInv, Rebuilding, SavesWhole, NothingLost, [Next]_vars, ~disturbed',
         NEW u \in Turns, pc[u] = "over", NEW w \in Writers \ {u}, StepOf(w)
  PROVE  w \in Turns /\ HasHistory(w)' => Said(mem[u]) \ Gone \subseteq Said(mem'[w])
<1> USE DEF rowVars, copies, turnVars, writeVars, deleteVars, historyVars, bounds
<1>1. ASSUME w \in Turns, QuietTurnStep(w) \/ Start(w)
      PROVE  w \in Turns /\ HasHistory(w)' => Said(mem[u]) \ Gone \subseteq Said(mem'[w])
  <2>1. CASE Start(w) \/ SaveDone(w) \/ BreakEarly(w)
    <3>1. ~HasHistory(w)'
      BY <2>1, <1>1 DEF HasHistory, Start, SaveDone, BreakEarly, Step, LogInv,
         HistoryTypes, PlaceTypes
    <3> QED
      BY <3>1
  <2>2. CASE BackfillDone(w) \/ Break(w) \/ Finish(w) \/ AppendRead(w)
    <3>1. mem' = mem /\ (HasHistory(w)' => HasHistory(w))
      BY <2>2, <1>1 DEF HasHistory, BackfillDone, Break, Finish, AppendRead, Step,
         LogInv, HistoryTypes, PlaceTypes
    <3> QED
      BY <3>1, <1>1 DEF NothingLost, Kept, Keeps
  <2>3. CASE CallTools(w) \/ ToolsDone(w)
    <3>1. Said(mem[w]) \subseteq Said(mem'[w])
      BY <2>3, <1>1, ToolRoundMakes DEF LogInv
    <3>2. HasHistory(w)
      BY <2>3 DEF HasHistory, CallTools, ToolsDone, Speak, Step
    <3> QED
      BY <3>1, <3>2, <1>1 DEF NothingLost, Kept, Keeps
  <2>4. CASE LoadCache(w)
    <3>1. cache \in {NoCopy, short}
      <4>1. pc[w] = "load" => wpc[w] = "idle"
        BY <1>1 DEF InStep, TurnInStep
      <4>2. \A x \in Writers \ {w} : wpc[x] = "idle"
        BY <2>4, <1>1, WorksAlone, OthersSleep, TurnsAndDeletions DEF StepOf, LogInv
      <4>3. pc[w] = "load"
        BY <2>4 DEF LoadCache, Loaded, Step
      <4> QED
        BY <4>1, <4>2, <4>3 DEF CopiesInStep
    <3>2. ASSUME HasHistory(w)'
          PROVE  cache # NoCopy /\ mem'[w] = cache /\ cache # <<>>
      BY <2>4, <1>1, <3>2 DEF HasHistory, LoadCache, Loaded, Step, LogInv,
         HistoryTypes, PlaceTypes, MessageTypes
    <3>3. ASSUME HasHistory(w)'
          PROVE  mem'[w] = Held(short) /\ Held(short) # <<>>
      BY <3>1, <3>2, <3>3, HeldIn DEF LogInv, HistoryTypes, MessageTypes
    <3> QED
      BY <3>3 DEF NothingLost, Kept, Keeps
  <2>5. CASE LoadRow(w)
    <3>1. ASSUME HasHistory(w)'
          PROVE  mem'[w] = Held(short) /\ Held(short) # <<>>
      BY <2>5, <1>1, <3>1 DEF HasHistory, LoadRow, Loaded, Step, LogInv,
         HistoryTypes, PlaceTypes, MessageTypes
    <3> QED
      BY <3>1 DEF NothingLost, Kept, Keeps
  <2>6. CASE Replay(w)
    <3>1. Said(mem'[w]) = Said(log)
      BY <2>6, <1>1, ReplayMakes, AllSilent DEF LogInv, HistoryTypes
    <3>2. Said(mem[u]) \subseteq Said(log)
      BY DEF SavesWhole, Whole, InLog
    <3> QED
      BY <3>1, <3>2
  <2>7. CASE Compose(w)
    <3>1. Said(mem[w]) \subseteq Said(mem'[w])
      BY <2>7, <1>1, ComposeMakes DEF LogInv, HistoryTypes
    <3>2. HasHistory(w)
      BY <2>7 DEF HasHistory, Compose, Step
    <3> QED
      BY <3>1, <3>2, <1>1 DEF NothingLost, Kept, Keeps
  <2>8. CASE Answer(w)
    <3>1. Said(mem[w]) \subseteq Said(mem'[w])
      BY <2>8, <1>1, AnswerMakes DEF LogInv
    <3>2. HasHistory(w)
      BY <2>8 DEF HasHistory, Answer, Speak, Step
    <3> QED
      BY <3>1, <3>2, <1>1 DEF NothingLost, Kept, Keeps
  <2>9. CASE AppendCommit(w)
    <3>1. mem' = mem /\ (HasHistory(w)' => HasHistory(w))
      BY <2>9, <1>1 DEF HasHistory, AppendCommit, AfterAppend, LogInv, HistoryTypes, PlaceTypes
    <3> QED
      BY <3>1, <1>1 DEF NothingLost, Kept, Keeps
  <2> QED
    BY <1>1, <2>1, <2>2, <2>3, <2>4, <2>5, <2>6, <2>7, <2>8, <2>9 DEF
       QuietTurnStep
<1>2. ASSUME QuietWriterStep(w)
      PROVE  w \in Turns /\ HasHistory(w)' => Said(mem[u]) \ Gone \subseteq Said(mem'[w])
  <2>1. CASE WriteCache(w) \/ WriteRow(w)
    <3>1. UNCHANGED <<mem, pc>>
      BY <2>1 DEF WriteCache, WriteRow
    <3> QED
      BY <3>1 DEF HasHistory, NothingLost, Kept, Keeps
  <2> QED
    BY <1>2, <2>1 DEF QuietWriterStep
<1>3. ASSUME w \in Deletions, QuietDeletionStep(w) \/ WipeCache(w)
      PROVE  w \in Turns /\ HasHistory(w)' => Said(mem[u]) \ Gone \subseteq Said(mem'[w])
  <2>1. CASE Rebuild(w) \/ DeleteDone(w) \/ WipeRow(w) \/ WipeRuns(w) \/
            WipeCache(w)
    BY <2>1, <1>3, TurnsAndDeletions
  <2> QED
    BY <1>3, <2>1 DEF QuietDeletionStep
<1>4. ASSUME w \in Deletions, NEW t \in Turns, DeleteUser(w, t) \/ DeleteAnswer(w, t)
      PROVE  w \in Turns /\ HasHistory(w)' => Said(mem[u]) \ Gone \subseteq Said(mem'[w])
  BY <1>4, <1>4, TurnsAndDeletions
<1> QED
  BY <1>1, <1>2, <1>3, <1>4 DEF StepOf

(* A turn that ends has saved what it said. *)
LEMMA EndsKept ==
  ASSUME LogInv, OneAtATime, InStep, CopiesInStep, PartsInv, Rebuilding, SavesWhole, NothingLost, [Next]_vars, ~disturbed',
         NEW w \in Turns, StepOf(w), pc'[w] = "over"
  PROVE  Held(short') = <<>> \/ Said(mem'[w]) \ Gone \subseteq Said(Held(short'))
<1> USE DEF rowVars, copies, turnVars, writeVars, deleteVars, historyVars, bounds
<1>1. CASE BreakEarly(w)
  <2>1. mem'[w] = <<>>
    BY <1>1 DEF BreakEarly, LogInv, HistoryTypes, MessageTypes
  <2> QED
    BY <2>1, NothingSaid
<1>2. CASE SaveDone(w)
  <2>1. pc[w] = "saving" /\ wpc[w] = "idle" /\ UNCHANGED <<short, mem>>
    BY <1>2 DEF SaveDone, Step, Asleep
  <2>2. Said(Held(short)) = Said(mem[w])
    BY <2>1 DEF SavesWhole, Whole
  <2> QED
    BY <2>1, <2>2
<1>3. CASE Finish(w)
  <2>1. pc[w] = "over" /\ UNCHANGED <<short, mem>>
    BY <1>3 DEF Finish
  <2> QED
    BY <2>1 DEF NothingLost, Kept, Keeps
<1>4. ASSUME ~BreakEarly(w), ~SaveDone(w), ~Finish(w)
      PROVE  FALSE
  <2>1. CASE Start(w) \/ LoadCache(w) \/ LoadRow(w) \/ Replay(w) \/ BackfillDone(w) \/ Break(w)
    BY <2>1 DEF Start, LoadCache, LoadRow, Loaded, Replay, BackfillDone, Break, Step,
                LogInv, HistoryTypes, PlaceTypes
  <2>2. CASE Compose(w) \/ CallTools(w) \/ ToolsDone(w) \/ Answer(w)
    BY <2>2 DEF Compose, CallTools, ToolsDone, Answer, Speak, Step, LogInv,
       HistoryTypes, PlaceTypes
  <2>3. CASE AppendRead(w) \/ AppendCommit(w) \/ QuietWriterStep(w)
    <3>1. wpc[w] # "idle" /\ pc' = pc
      BY <2>3 DEF AppendRead, AppendCommit, QuietWriterStep, WriteCache, WriteRow, WriteStep
    <3> QED
      BY <3>1 DEF InStep, TurnInStep
  <2> QED
    BY <1>4, <2>1, <2>2, <2>3, TurnsAndDeletions DEF StepOf, QuietTurnStep
<1> QED
  BY <1>1, <1>2, <1>3, <1>4

(* No undisturbed step loses what an earlier turn said. *)
LEMMA NothingLostKept ==
  ASSUME LogInv, OneAtATime, InStep, CopiesInStep, PartsInv, Rebuilding, SavesWhole, NothingLost, [Next]_vars, ~disturbed'
  PROVE  NothingLost'
<1> SUFFICES ASSUME NEW u \in Turns, pc'[u] = "over"
             PROVE  Kept(u)'
  BY DEF NothingLost
<1>1. ASSUME NEW w \in Writers, StepOf(w)
      PROVE  Kept(u)'
  <2>1. \A t \in Turns \ {w} : ~HasHistory(t)'
    BY <1>1, WorksAlone DEF LogInv, NobodyElse, Working, Idle, HasHistory
  <2>2. Gone \subseteq Gone'
    BY GoneGrows
  <2>3. CASE u = w
    <3>1. Held(short') = <<>> \/ Said(mem'[u]) \ Gone \subseteq Said(Held(short'))
      BY <1>1, <2>3, EndsKept
    <3> QED
      BY <2>1, <2>2, <2>3, <3>1 DEF Kept, Keeps
  <2>4. CASE u # w
    <3>1. pc[u] = "over" /\ mem'[u] = mem[u]
      BY <1>1, <2>4, OthersUntouched, TurnsAndDeletions DEF LogInv, Untouched
    <3>2. Held(short') = <<>> \/ Said(mem[u]) \ Gone \subseteq Said(Held(short'))
      BY <1>1, <2>4, <3>1, ShortKeeps
    <3>3. w \in Turns /\ HasHistory(w)' => Said(mem[u]) \ Gone \subseteq Said(mem'[w])
      BY <1>1, <2>4, <3>1, SessionKeeps
    <3>4. Held(short') = <<>> \/ Said(mem'[u]) \ Gone' \subseteq Said(Held(short'))
      BY <2>2, <3>1, <3>2
    <3>5. \A t \in Turns \ {u} : HasHistory(t)' => Said(mem'[u]) \ Gone' \subseteq Said(mem'[t])
      BY <2>1, <2>2, <3>1, <3>3
    <3> QED
      BY <3>4, <3>5 DEF Kept, Keeps
  <2> QED
    BY <2>3, <2>4
<1>2. ASSUME UNCHANGED <<short, mem, pc>>
      PROVE  Kept(u)'
  BY <1>2, GoneGrows DEF NothingLost, Kept, Keeps, HasHistory
<1>3. ASSUME NEW p \in Processes, Restart(p), ~Busy
      PROVE  UNCHANGED <<short, mem, pc>>
  BY <1>3 DEF Restart, Busy, Idle, LogInv, HistoryTypes, PlaceTypes, copies
<1>4. CASE Expire \/ UNCHANGED vars
  BY <1>2, <1>4 DEF Expire, vars, copies, turnVars
<1> QED
  BY <1>1, <1>2, <1>3, <1>4, StepsOf DEF LogInv

-----------------------------------------------------------------------------
(* Together: the invariant of a history nothing has disturbed. *)
QuietInv ==
  /\ OneAtATime /\ InStep /\ CopiesInStep /\ PartsInv
  /\ Rebuilding /\ NothingBack /\ SavesWhole /\ NothingLost

(* The inductive invariant: the transcript's, and the quiet one while it
   lasts. *)
HistoryInv == LogInv /\ (~disturbed => QuietInv)

(* Nobody is at work and nothing is said when the system starts. *)
LEMMA InitQuiet ==
  ASSUME Init
  PROVE  QuietInv
<1>1. /\ rows = [t \in Turns |-> "none"] /\ pc = [t \in Turns |-> "idle"]
      /\ mem = [t \in Turns |-> <<>>] /\ wpc = [w \in Writers |-> "idle"]
      /\ wlist = [w \in Writers |-> <<>>] /\ dpc = [d \in Deletions |-> "idle"]
      /\ dpart = [d \in Deletions |-> {}]
      /\ log = <<>> /\ short = NoCopy /\ cache = NoCopy /\ erased = {}
      /\ disabled = {} /\ cut = {} /\ unlogged = {} /\ stopped = {}
  BY DEF Init
<1>2. Turns \subseteq Writers /\ Deletions \subseteq Writers
  BY TurnsAndDeletions
<1>3. (\A t \in Turns : ~Working(t)) /\ \A d \in Deletions : ~Deleting(d)
  BY <1>1, <1>2 DEF Working, Deleting, Idle, Asleep
<1>4. OneAtATime
  BY <1>3 DEF OneAtATime
<1>5. InStep
  BY <1>1, <1>2 DEF InStep, TurnInStep, DeletionInStep
<1>6. CopiesInStep
  BY <1>1, <1>2 DEF CopiesInStep
<1>7. Held(short) = <<>> /\ Held(cache) = <<>>
  BY <1>1 DEF Held
<1>8. SaidAnywhere = {}
  <2> DEFINE none == {}
  <2>1. Within(log, short, cache, mem, wlist, none)
    BY <1>1, <1>7, NothingSaid DEF Within
  <2> HIDE DEF none
  <2>2. SaidAnywhere \subseteq none
    BY <2>1, WithinIsAll DEF SaidAnywhere
  <2> QED
    BY <2>2 DEF none
<1>9. Gone = {}
  BY <1>1 DEF Gone
<1>10. PartsInv
  BY <1>1, <1>8, <1>9 DEF PartsInv, Unbroken, GoneIsHidden, SaidIsShown, AnswersLast
<1>11. Rebuilding /\ NothingBack
  BY <1>1, <1>7, NothingSaid DEF Rebuilding, NothingBack, Clean, Idle
<1>12. SavesWhole /\ NothingLost
  BY <1>1, <1>7 DEF SavesWhole, Whole, InLog, NothingLost
<1> QED
  BY <1>4, <1>5, <1>6, <1>10, <1>11, <1>12 DEF QuietInv

(* Every step preserves both invariants. *)
LEMMA NextHistory ==
  ASSUME HistoryInv, [Next]_vars
  PROVE  HistoryInv'
<1>1. LogInv'
  BY NextLog DEF HistoryInv
<1>2. ASSUME ~disturbed'
      PROVE  QuietInv'
  <2>1. LogInv /\ ~disturbed
    BY <1>2, StepsOf DEF HistoryInv, LogInv
  <2>2. QuietInv
    BY <2>1 DEF HistoryInv
  <2>3. OneAtATime'
    BY <1>2, <2>1, <2>2, OneAtATimeKept DEF QuietInv, LogInv
  <2>4. InStep'
    BY <1>2, <2>1, <2>2, InStepKept DEF QuietInv, LogInv
  <2>5. CopiesInStep'
    BY <1>2, <2>1, <2>2, CopiesInStepKept DEF QuietInv, LogInv
  <2>6. PartsInv'
    BY <1>2, <2>1, <2>2, PartsInvKept DEF QuietInv
  <2>7. Rebuilding'
    BY <1>2, <2>1, <2>2, RebuildingKept DEF QuietInv
  <2>8. NothingBack'
    BY <1>2, <2>1, <2>2, NothingBackKept DEF QuietInv
  <2>9. SavesWhole'
    BY <1>2, <2>1, <2>2, SavesWholeKept DEF QuietInv
  <2>10. NothingLost'
    BY <1>2, <2>1, <2>2, NothingLostKept DEF QuietInv
  <2> QED
    BY <2>3, <2>4, <2>5, <2>6, <2>7, <2>8, <2>9, <2>10 DEF QuietInv
<1> QED
  BY <1>1, <1>2 DEF HistoryInv

(* The transcript's invariant holds, and the quiet one until something
   disturbs the history. *)
THEOREM HistoryInvHolds == Spec => []HistoryInv
<1>1. Init => HistoryInv
  BY InitLog, InitQuiet DEF HistoryInv
<1>2. HistoryInv /\ [Next]_vars => HistoryInv'
  BY NextHistory
<1> QED
  BY <1>1, <1>2, PTL DEF Spec

(* No tool call or result reaches a short-term copy, and with nobody at
   work the Redis value is the row or absent (save_short_term writes Redis,
   then the row): while requests come one after the other an expiry loses
   nothing. *)
THEOREM CopiesStayConsistent == Spec => []CopiesConsistent
<1>1. HistoryInv => CopiesConsistent
  <2> SUFFICES ASSUME HistoryInv
               PROVE  TypeOK /\ CopiesAgree
    BY DEF CopiesConsistent
  <2>1. TypeOK
    BY TypesShown DEF HistoryInv
  <2>2. ASSUME ~disturbed, ~Busy
        PROVE  cache \in {NoCopy, short}
    BY <2>2 DEF HistoryInv, QuietInv, CopiesInStep, Busy, Asleep
  <2> QED
    BY <2>1, <2>2 DEF CopiesAgree
<1> QED
  BY <1>1, HistoryInvHolds, PTL

(* What a user deleted is in no session that speaks to the model
   (_rebuild_short_term_from_runs), as long as no turn replays the
   transcript and nothing overlaps or fails. *)
THEOREM DeletedStaysAway == Spec => []DeletionsHold
<1>1. HistoryInv => DeletionsHold
  <2> SUFFICES ASSUME HistoryInv, ~disturbed, replayed = {}, NEW t \in Turns, Speaking(t)
               PROVE  Said(mem[t]) \intersect erased = {}
    BY DEF DeletionsHold
  <2>1. ~Idle(t)
    BY DEF Speaking, Idle
  <2> QED
    BY <2>1 DEF HistoryInv, QuietInv, NothingBack, Clean
<1> QED
  BY <1>1, HistoryInvHolds, PTL

(* Every session that speaks to the model says all that earlier turns said,
   in full or in a summary, and that no deletion erased: through
   prepare_for_save, compaction, expiry and replay, as long as nothing
   overlaps or fails. *)
THEOREM HistoryIsKept == Spec => []KeepsHistory
<1>1. HistoryInv => KeepsHistory
  <2> SUFFICES ASSUME HistoryInv, ~disturbed, NEW t \in Turns, NEW u \in Turns,
                      Speaking(t), pc[u] = "over", u < t
               PROVE  Said(mem[u]) \ erased \subseteq Said(mem[t])
    BY DEF KeepsHistory
  <2>1. u # t /\ HasHistory(t) /\ Working(t)
    BY TurnsAndDeletions DEF Speaking, HasHistory, Working, Idle
  <2>2. \A d \in Deletions : dpc[d] \notin {"rebuild", "save"}
    BY <2>1 DEF HistoryInv, QuietInv, OneAtATime, Deleting
  <2>3. Gone \subseteq erased
    BY <2>2 DEF Gone
  <2>4. Said(mem[u]) \ Gone \subseteq Said(mem[t])
    BY <2>1 DEF HistoryInv, QuietInv, NothingLost, Kept, Keeps
  <2> QED
    BY <2>3, <2>4
<1> QED
  BY <1>1, HistoryInvHolds, PTL
================================================================================
