--------------------------- MODULE CircuitBreaker ---------------------------
(***************************************************************************)
(* The circuit breaker of a model provider (core/circuit_breaker.py) as    *)
(* operators on a record: every method of the class takes the breaker's    *)
(* lock, evaluates the recovery timeout and then acts, so a method is one  *)
(* operator from a breaker to the breaker it leaves.                       *)
(*                                                                         *)
(* The clock appears only in elapsed >= recovery_timeout_seconds; the      *)
(* field due says that this holds of an open breaker.                      *)
(***************************************************************************)
EXTENDS Integers

CONSTANTS
  FailureThreshold,   \* failure_threshold
  SuccessThreshold    \* half_open_success_threshold

ASSUME ThresholdsAssumption ==
  /\ FailureThreshold \in Nat \ {0}
  /\ SuccessThreshold \in Nat \ {0}

CircuitState == {"closed", "open", "half_open"}

Breaker == [state     : CircuitState,
            failures  : 0..FailureThreshold,        \* _failure_count
            successes : 0..SuccessThreshold,        \* _half_open_success_count
            canary    : BOOLEAN,                    \* _in_flight_canary
            due       : BOOLEAN]                    \* the recovery timeout is over

Reset == [state |-> "closed", failures |-> 0, successes |-> 0,
          canary |-> FALSE, due |-> FALSE]

\* The timeout is noticed by whoever looks next, not by a timer.
Evaluated(b) ==
  IF b.state = "open" /\ b.due
  THEN [b EXCEPT !.state = "half_open", !.successes = 0,
                 !.canary = FALSE, !.due = FALSE]
  ELSE b

\* What can_execute answers, of an evaluated breaker ...
Admits(b) ==
  \/ b.state = "closed"
  \/ b.state = "half_open" /\ ~b.canary

\* ... and what it leaves behind when the answer is yes.
Claimed(b) == [b EXCEPT !.canary = (b.state = "half_open")]

\* Mutant: the failed probe stays marked.
TrippedInFlight(b) == [b EXCEPT !.state = "open", !.due = FALSE]

Tripped(b) == [b EXCEPT !.state = "open", !.canary = FALSE, !.due = FALSE]

RecordSuccess(b) ==
  LET e == Evaluated(b) IN
  CASE e.state = "closed" -> [e EXCEPT !.failures = 0]
    [] e.state = "open" -> e
    [] e.state = "half_open" ->
         IF e.successes + 1 >= SuccessThreshold
         THEN Reset
         ELSE [e EXCEPT !.successes = @ + 1, !.canary = FALSE]

\* Mutant: a closed circuit counts on beyond its threshold.
RecordFailureOnly(b) ==
  LET e == Evaluated(b) IN
  CASE e.state = "closed" -> [e EXCEPT !.failures = @ + 1]
    [] e.state = "open" -> e
    [] e.state = "half_open" -> Tripped(e)

RecordFailure(b) ==
  LET e == Evaluated(b) IN
  CASE e.state = "closed" ->
         IF e.failures + 1 >= FailureThreshold
         THEN Tripped([e EXCEPT !.failures = FailureThreshold])
         ELSE [e EXCEPT !.failures = @ + 1]
    [] e.state = "open" -> e
    [] e.state = "half_open" -> Tripped(e)
=============================================================================
