------------------------- MODULE CircuitBreaker_proofs -------------------------
(* What the circuit breaker guarantees for any number of callers, every       *)
(* threshold, recovery time and number of attempts.                           *)
EXTENDS CircuitBreaker, TLAPS

-----------------------------------------------------------------------------
(* The breaker counts what the history counts; an open breaker knows when the *)
(* last failure was, a half-open one that it is long ago.                     *)
CountsTrue ==
  /\ failures = streak
  /\ state = "open" => since = quiet
  /\ state = "half_open" => quiet = Recovery

(* Whoever is about to call has an attempt left. *)
AttemptsLeft ==
  \A c \in Callers : pc[c] \in {"attempting", "pausing"} => attempts[c] < MaxRetries

Inv == TypeOK /\ TripsOnStreak /\ CountsTrue /\ AttemptsLeft

(* A counter up to a limit stays within it. *)
LEMMA UpToType ==
  ASSUME NEW limit \in Nat, NEW n \in 0..limit
  PROVE  UpTo(limit, n + 1) \in 0..limit
BY DEF UpTo

-----------------------------------------------------------------------------
(* What each operation of the breaker does to its counters. *)

(* record_failure: the count follows the streak, and a breaker that opens or  *)
(* stays open starts its time of recovery anew.                               *)
LEMMA FailureCounts ==
  ASSUME Inv, RecordFailure, streak' = UpTo(Threshold, streak + 1), quiet' = 0
  PROVE  /\ state' \in {"closed", "open", "half_open"}
         /\ failures' \in 0..Threshold /\ since' \in 0..Recovery
         /\ streak' \in 0..Threshold /\ quiet' \in 0..Recovery
         /\ TripsOnStreak' /\ CountsTrue'
<1>1. /\ failures \in 0..Threshold /\ streak = failures
      /\ since \in 0..Recovery /\ state \in {"closed", "open", "half_open"}
      /\ state = "closed" <=> streak < Threshold
      /\ Threshold \in Nat \ {0} /\ Recovery \in Nat \ {0}
  BY BreakerAssumption DEF Inv, TypeOK, TripsOnStreak, CountsTrue
<1>2. failures' = UpTo(Threshold, failures + 1) /\ streak' = failures' /\ failures' \in 0..Threshold
  BY <1>1, UpToType DEF RecordFailure
<1>3. CASE state = "half_open" \/ failures + 1 >= Threshold
  <2>1. state' = "open" /\ since' = 0
    BY <1>3 DEF RecordFailure
  <2>2. failures' = Threshold
    BY <1>1, <1>2, <1>3 DEF UpTo
  <2> QED
    BY <1>1, <1>2, <2>1, <2>2 DEF TripsOnStreak, CountsTrue
<1>4. CASE ~(state = "half_open" \/ failures + 1 >= Threshold)
  <2>1. state' = state /\ since' = since
    BY <1>4 DEF RecordFailure
  <2>2. state = "closed" /\ failures' < Threshold
    BY <1>1, <1>2, <1>4 DEF UpTo
  <2> QED
    BY <1>1, <1>2, <2>1, <2>2 DEF TripsOnStreak, CountsTrue
<1> QED
  BY <1>3, <1>4

-----------------------------------------------------------------------------
LEMMA InvInit == Init => Inv
<1> SUFFICES ASSUME Init PROVE Inv
  OBVIOUS
<1>1. TypeOK
  BY BreakerAssumption DEF Init, TypeOK
<1>2. TripsOnStreak /\ CountsTrue /\ AttemptsLeft
  BY BreakerAssumption DEF Init, TripsOnStreak, CountsTrue, AttemptsLeft
<1> QED
  BY <1>1, <1>2 DEF Inv

(* Types and invariant survive every step of a caller. *)
LEMMA CallerKeepsInv ==
  ASSUME Inv, NEW c \in Callers,
         Begin(c) \/ Attempt(c) \/ Refused(c) \/ Succeed(c) \/ Resume(c) \/ Cancel(c)
           \/ \E error \in Errors : Fail(c, error)
  PROVE  Inv'
<1> USE BreakerAssumption
<1>1. CASE Begin(c)
  <2>1. TypeOK'
    BY <1>1 DEF Inv, TypeOK, Begin, breakerVars, historyVars
  <2>2. TripsOnStreak' /\ CountsTrue'
    BY <1>1 DEF Inv, TripsOnStreak, CountsTrue, Begin, breakerVars, historyVars
  <2>3. AttemptsLeft'
    BY <1>1 DEF Inv, TypeOK, AttemptsLeft, Begin
  <2> QED
    BY <2>1, <2>2, <2>3 DEF Inv
<1>2. CASE Attempt(c)
  <2>1. attempts[c] < MaxRetries
    BY <1>2 DEF Inv, AttemptsLeft, Attempt
  <2>2. TypeOK'
    BY <1>2, <2>1 DEF Inv, TypeOK, Attempt, CheckRequest, historyVars
  <2>3. state = "open" => quiet = Recovery
    BY <1>2 DEF Inv, TypeOK, CountsTrue, Attempt, AllowRequest
  <2>4. TripsOnStreak' /\ CountsTrue'
    BY <1>2, <2>3 DEF Inv, TypeOK, TripsOnStreak, CountsTrue, Attempt, CheckRequest, historyVars
  <2>5. AttemptsLeft'
    BY <1>2 DEF Inv, TypeOK, AttemptsLeft, Attempt
  <2> QED
    BY <2>2, <2>4, <2>5 DEF Inv
<1>3. CASE Refused(c)
  <2>1. TypeOK'
    BY <1>3 DEF Inv, TypeOK, Refused, End, breakerVars, historyVars
  <2>2. TripsOnStreak' /\ CountsTrue'
    BY <1>3 DEF Inv, TripsOnStreak, CountsTrue, Refused, breakerVars, historyVars
  <2>3. AttemptsLeft'
    BY <1>3 DEF Inv, TypeOK, AttemptsLeft, Refused, End
  <2> QED
    BY <2>1, <2>2, <2>3 DEF Inv
<1>4. CASE Succeed(c)
  <2>1. TypeOK'
    BY <1>4 DEF Inv, TypeOK, Succeed, RecordSuccess, End
  <2>2. TripsOnStreak' /\ CountsTrue'
    BY <1>4 DEF Inv, TypeOK, TripsOnStreak, CountsTrue, Succeed, RecordSuccess
  <2>3. AttemptsLeft'
    BY <1>4 DEF Inv, TypeOK, AttemptsLeft, Succeed, End
  <2> QED
    BY <2>1, <2>2, <2>3 DEF Inv
<1>5. CASE Resume(c)
  <2>1. TypeOK'
    BY <1>5 DEF Inv, TypeOK, Resume, breakerVars, historyVars
  <2>2. TripsOnStreak' /\ CountsTrue'
    BY <1>5 DEF Inv, TripsOnStreak, CountsTrue, Resume, breakerVars, historyVars
  <2>3. AttemptsLeft'
    BY <1>5 DEF Inv, TypeOK, AttemptsLeft, Resume
  <2> QED
    BY <2>1, <2>2, <2>3 DEF Inv
<1>6. CASE Cancel(c)
  <2>1. TypeOK'
    BY <1>6 DEF Inv, TypeOK, Cancel, End, breakerVars, historyVars
  <2>2. TripsOnStreak' /\ CountsTrue'
    BY <1>6 DEF Inv, TripsOnStreak, CountsTrue, Cancel, breakerVars, historyVars
  <2>3. AttemptsLeft'
    BY <1>6 DEF Inv, TypeOK, AttemptsLeft, Cancel, End
  <2> QED
    BY <2>1, <2>2, <2>3 DEF Inv
<1>7. CASE \E error \in Errors : Fail(c, error)
  <2> PICK error \in Errors : Fail(c, error)
    BY <1>7
  <2>1. RecordFailure /\ streak' = UpTo(Threshold, streak + 1) /\ quiet' = 0
    BY DEF Fail
  <2>2. /\ state' \in {"closed", "open", "half_open"}
        /\ failures' \in 0..Threshold /\ since' \in 0..Recovery
        /\ streak' \in 0..Threshold /\ quiet' \in 0..Recovery
        /\ TripsOnStreak' /\ CountsTrue'
    BY <2>1, FailureCounts
  <2>3. /\ pc' \in [Callers -> {"idle", "attempting", "calling", "pausing"}]
        /\ outcome' \in [Callers -> {"none", "ok", "refused", "transient", "fatal", "cancelled"}]
        /\ attempts' = attempts /\ healthy' = healthy
    BY DEF Inv, TypeOK, Fail, End, Errors
  <2>4. TypeOK'
    BY <2>2, <2>3 DEF Inv, TypeOK
  <2>5. AttemptsLeft'
    BY DEF Inv, TypeOK, AttemptsLeft, Fail, End
  <2> QED
    BY <2>2, <2>4, <2>5 DEF Inv
<1> QED
  BY <1>1, <1>2, <1>3, <1>4, <1>5, <1>6, <1>7

LEMMA InvNext == Inv /\ [Next]_vars => Inv'
<1> SUFFICES ASSUME Inv, [Next]_vars PROVE Inv'
  OBVIOUS
<1>1. ASSUME NEW c \in Callers,
             Begin(c) \/ Attempt(c) \/ Refused(c) \/ Succeed(c) \/ Resume(c) \/ Cancel(c)
      PROVE  Inv'
  BY <1>1, CallerKeepsInv
<1>2. ASSUME NEW c \in Callers, NEW error \in Errors, Fail(c, error) PROVE Inv'
  BY <1>2, CallerKeepsInv
<1>3. CASE Tick
  <2>1. since' \in 0..Recovery /\ quiet' \in 0..Recovery
    BY <1>3, BreakerAssumption, UpToType DEF Inv, TypeOK, Tick
  <2>2. TypeOK'
    BY <1>3, <2>1 DEF Inv, TypeOK, Tick
  <2>3. TripsOnStreak' /\ CountsTrue' /\ AttemptsLeft'
    BY <1>3, BreakerAssumption DEF Inv, TypeOK, TripsOnStreak, CountsTrue, AttemptsLeft, Tick, UpTo
  <2> QED
    BY <2>2, <2>3 DEF Inv
<1>4. CASE HealthChanges
  <2>1. TypeOK'
    BY <1>4 DEF Inv, TypeOK, HealthChanges, breakerVars, historyVars
  <2>2. TripsOnStreak' /\ CountsTrue' /\ AttemptsLeft'
    BY <1>4 DEF Inv, TripsOnStreak, CountsTrue, AttemptsLeft, HealthChanges, breakerVars, historyVars
  <2> QED
    BY <2>1, <2>2 DEF Inv
<1>5. CASE UNCHANGED vars
  BY <1>5 DEF Inv, TypeOK, TripsOnStreak, CountsTrue, AttemptsLeft, vars, breakerVars, historyVars
<1> QED
  BY <1>1, <1>2, <1>3, <1>4, <1>5 DEF Next

(* The inductive invariant of the breaker and its callers (CircuitBreaker).   *)
THEOREM BreakerInvariant == Spec => []Inv
<1> QED
  BY InvInit, InvNext, PTL DEF Spec

(* The breaker is closed exactly while fewer than Threshold answers in a row  *)
(* have failed (record_success, record_failure).                              *)
THEOREM ClosedOnStreak == Spec => [](TypeOK /\ TripsOnStreak)
<1>1. Inv => TypeOK /\ TripsOnStreak
  BY DEF Inv
<1> QED
  BY <1>1, BreakerInvariant, PTL

(* No call of the provider starts while its last Threshold answers have       *)
(* failed and the last of them is less than Recovery ago (check).             *)
LEMMA CallsAreSheltered ==
  ASSUME Inv, Next
  PROVE  \A c \in Callers : pc[c] = "attempting" /\ pc'[c] = "calling" =>
           streak < Threshold \/ quiet >= Recovery
<1> SUFFICES ASSUME NEW c \in Callers, pc[c] = "attempting", pc'[c] = "calling"
             PROVE  streak < Threshold \/ quiet >= Recovery
  OBVIOUS
<1>1. Attempt(c)
  BY DEF Next, Begin, Attempt, Refused, Succeed, Resume, Cancel, Fail, End, Tick, HealthChanges,
    Inv, TypeOK
<1>2. state = "open" => since >= Recovery
  BY <1>1 DEF Attempt, AllowRequest
<1> QED
  BY <1>2, BreakerAssumption DEF Inv, TypeOK, TripsOnStreak, CountsTrue

THEOREM ProviderIsSheltered == Spec => Sheltered
<1>1. Inv /\ [Next]_vars =>
        [\A c \in Callers : pc[c] = "attempting" /\ pc'[c] = "calling" =>
           streak < Threshold \/ quiet >= Recovery]_vars
  BY CallsAreSheltered
<1> QED
  BY <1>1, BreakerInvariant, PTL DEF Spec, Sheltered
=============================================================================
