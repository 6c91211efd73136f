---------------------------- MODULE CircuitBreaker ----------------------------
(* PolicyEngine.apply_retry_policy with a CircuitBreaker: concurrent requests *)
(* to one provider, each a chain of attempts with a pause in between, and the *)
(* three-state breaker they share. The provider is external.                  *)
EXTENDS Naturals, FiniteSets

CONSTANTS
  Callers,    \* tasks that make requests, one after the other
  Threshold,  \* failure_threshold
  Recovery,   \* recovery_time_s, in ticks
  MaxRetries  \* RetryRule.max_retries: attempts of one request

ASSUME BreakerAssumption ==
  Threshold \in Nat \ {0} /\ Recovery \in Nat \ {0} /\ MaxRetries \in Nat \ {0}

VARIABLES
  state,     \* _state
  failures,  \* _failures, counted up to Threshold: the code compares it with that only
  since,     \* ticks since _opened_at, counted up to Recovery
  pc,        \* what a caller does: idle, attempting, calling, pausing
  attempts,  \* calls of the provider that the caller's request has made
  outcome,   \* how the last request of a caller ended
  healthy,   \* whether the provider answers well
  streak,    \* history: failures of the provider since its last good answer, up to Threshold
  quiet      \* history: ticks since its last failure, up to Recovery

breakerVars == <<state, failures, since>>
historyVars == <<streak, quiet>>
vars == <<breakerVars, pc, attempts, outcome, healthy, historyVars>>

UpTo(limit, n) == IF n > limit THEN limit ELSE n

Init ==
  /\ state = "closed" /\ failures = 0 /\ since = Recovery
  /\ pc = [c \in Callers |-> "idle"]
  /\ attempts = [c \in Callers |-> 0]
  /\ outcome = [c \in Callers |-> "none"]
  /\ healthy \in BOOLEAN
  /\ streak = 0 /\ quiet = Recovery

-----------------------------------------------------------------------------
(* The breaker *)

(* Mutants: a good answer forgets no failure; one more failure than the       *)
(* threshold is not counted.                                                  *)
SuccessKeepsCount == state' = "closed" /\ UNCHANGED failures /\ since' = Recovery
FailureAtExactCount ==
  /\ failures' = UpTo(Threshold, failures + 1)
  /\ IF failures + 1 = Threshold /\ state = "closed"
     THEN state' = "open" /\ since' = 0
     ELSE UNCHANGED <<state, since>>

AllowRequest == state = "open" => since >= Recovery

CheckRequest == state' = IF state = "open" THEN "half_open" ELSE state

RecordSuccess == state' = "closed" /\ failures' = 0 /\ since' = Recovery

RecordFailure ==
  /\ failures' = UpTo(Threshold, failures + 1)
  /\ IF state = "half_open" \/ failures + 1 >= Threshold
     THEN state' = "open" /\ since' = 0
     ELSE UNCHANGED <<state, since>>

-----------------------------------------------------------------------------
(* A request *)

Begin(c) ==
  /\ pc[c] = "idle"
  /\ pc' = [pc EXCEPT ![c] = "attempting"]
  /\ attempts' = [attempts EXCEPT ![c] = 0]
  /\ UNCHANGED <<breakerVars, outcome, healthy, historyVars>>

(* cb.check() passes and the provider is called.                              *)
Attempt(c) ==
  /\ pc[c] = "attempting" /\ AllowRequest
  /\ CheckRequest
  /\ pc' = [pc EXCEPT ![c] = "calling"]
  /\ attempts' = [attempts EXCEPT ![c] = @ + 1]
  /\ UNCHANGED <<failures, since, outcome, healthy, historyVars>>

End(c, result) ==
  /\ pc' = [pc EXCEPT ![c] = "idle"]
  /\ outcome' = [outcome EXCEPT ![c] = result]

(* CircuitBreakerOpenError is no error that is tried again.                   *)
Refused(c) ==
  /\ pc[c] = "attempting" /\ ~AllowRequest
  /\ End(c, "refused")
  /\ UNCHANGED <<breakerVars, attempts, healthy, historyVars>>

Succeed(c) ==
  /\ pc[c] = "calling" /\ healthy
  /\ RecordSuccess
  /\ End(c, "ok")
  /\ streak' = 0
  /\ UNCHANGED <<attempts, healthy, quiet>>

ShouldRetry(error) == error = "transient"

Fail(c, error) ==
  /\ pc[c] = "calling" /\ ~healthy
  /\ RecordFailure
  /\ IF ShouldRetry(error) /\ attempts[c] < MaxRetries
     THEN pc' = [pc EXCEPT ![c] = "pausing"] /\ UNCHANGED outcome
     ELSE End(c, error)
  /\ streak' = UpTo(Threshold, streak + 1) /\ quiet' = 0
  /\ UNCHANGED <<attempts, healthy>>

Resume(c) ==
  /\ pc[c] = "pausing"
  /\ pc' = [pc EXCEPT ![c] = "attempting"]
  /\ UNCHANGED <<breakerVars, attempts, outcome, healthy, historyVars>>

(* A cancelled task is neither a success nor a failure: CancelledError is no  *)
(* Exception.                                                                 *)
Cancel(c) ==
  /\ pc[c] \in {"calling", "pausing"}
  /\ End(c, "cancelled")
  /\ UNCHANGED <<breakerVars, attempts, healthy, historyVars>>

-----------------------------------------------------------------------------
Tick ==
  /\ since < Recovery \/ quiet < Recovery
  /\ since' = UpTo(Recovery, since + 1) /\ quiet' = UpTo(Recovery, quiet + 1)
  /\ UNCHANGED <<state, failures, pc, attempts, outcome, healthy, streak>>

HealthChanges ==
  /\ healthy' = ~healthy
  /\ UNCHANGED <<breakerVars, pc, attempts, outcome, historyVars>>

Errors == {"transient", "fatal"}

Next ==
  \/ \E c \in Callers : Begin(c) \/ Attempt(c) \/ Refused(c) \/ Succeed(c) \/ Resume(c) \/ Cancel(c)
  \/ \E c \in Callers, error \in Errors : Fail(c, error)
  \/ Tick \/ HealthChanges

Spec == Init /\ [][Next]_vars

Proceeds(c) == Begin(c) \/ Attempt(c) \/ Refused(c) \/ Succeed(c) \/ Resume(c) \/ \E e \in Errors : Fail(c, e)

(* Callers go on making requests and time passes; a call that the user        *)
(* cancels is another caller's loss only if every call is cancelled.          *)
FairSpec ==
  /\ Spec
  /\ WF_vars(Tick)
  /\ \A c \in Callers : WF_vars(Proceeds(c)) /\ SF_vars(Succeed(c))

-----------------------------------------------------------------------------
(* Types of the breaker and of its callers. *)
TypeOK ==
  /\ state \in {"closed", "open", "half_open"}
  /\ failures \in 0..Threshold /\ since \in 0..Recovery
  /\ pc \in [Callers -> {"idle", "attempting", "calling", "pausing"}]
  /\ attempts \in [Callers -> 0..MaxRetries]
  /\ outcome \in [Callers -> {"none", "ok", "refused", "transient", "fatal", "cancelled"}]
  /\ healthy \in BOOLEAN /\ streak \in 0..Threshold /\ quiet \in 0..Recovery

(* The breaker is closed exactly while fewer than Threshold answers in a row  *)
(* have failed: answers that come late, of calls admitted before it opened or *)
(* cancelled ones, make it neither forget nor invent a failure.               *)
TripsOnStreak == state = "closed" <=> streak < Threshold

(* The provider is not called while its last Threshold answers have failed    *)
(* and the last of them is less than Recovery ago.                            *)
Sheltered ==
  [][\A c \in Callers : pc[c] = "attempting" /\ pc'[c] = "calling" =>
       streak < Threshold \/ quiet >= Recovery]_vars

(* When the provider has recovered for good, the breaker closes for good.     *)
Recovers == <>[]healthy => <>[](state = "closed")

(* circuit_breaker.py:6, 59: half-open lets one probing request through.      *)
OneProbe == state = "half_open" => Cardinality({c \in Callers : pc[c] = "calling"}) <= 1

=============================================================================
