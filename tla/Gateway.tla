------------------------------ MODULE Gateway ------------------------------
(***************************************************************************)
(* The model gateway (core/model_gateway.py, ModelGateway.generate): every *)
(* request walks down its candidates in the order of their rank, asks each *)
(* provider's circuit breaker for admission, calls the first that admits   *)
(* it, and falls through to the next one when the failure is transient.    *)
(* Requests run on threads of their own and share the breakers, so the     *)
(* result of a call reaches a breaker that other calls moved on.           *)
(***************************************************************************)
EXTENDS CircuitBreaker, FiniteSets

CONSTANTS
  Providers,            \* the enabled registrations of the catalog
  Requests,             \* the threads that call generate
  Rank,                 \* the position of a provider in the routing order
  Supports,             \* the requests whose capabilities a provider has
  MaxFallbackAttempts   \* max_fallback_attempts

ASSUME GatewayAssumption ==
  /\ IsFiniteSet(Providers)
  /\ Rank \in [Providers -> Nat]
  /\ \A p, q \in Providers : Rank[p] = Rank[q] => p = q
  /\ Supports \in [Providers -> SUBSET Requests]
  /\ MaxFallbackAttempts \in Nat \ {0}

VARIABLES
  breaker,          \* the circuit breaker of every provider
  req,              \* the state of every request
  fallbackEnabled   \* the setting, fixed when the gateway is built

vars == <<breaker, req, fallbackEnabled>>

\* Back at its caller: with an answer or the provider's error, or with the
\* error that lists the whole chain.
Ended == {"idle", "exhausted"}

Request == [phase  : Ended \cup {"routing", "calling"},
            tried  : SUBSET Providers,   \* attempted_chain
            called : SUBSET Providers]   \* those a call was made to

Idle == [phase |-> "idle", tried |-> {}, called |-> {}]

\* select_candidates: the registrations with the required capabilities.
Candidates(r) == {p \in Providers : r \in Supports[p]}

Untried(r) == Candidates(r) \ req[r].tried

\* The provider whose turn it is, and the one being called.
Turn(r) == CHOOSE p \in Untried(r) : \A q \in Untried(r) : Rank[p] <= Rank[q]
Callee(r) == CHOOSE p \in req[r].called : \A q \in req[r].called : Rank[q] <= Rank[p]

MaxAttempts(r) ==
  LET limit == IF fallbackEnabled THEN MaxFallbackAttempts ELSE 1
      n     == Cardinality(Candidates(r))
  IN  IF n < limit THEN n ELSE limit

\* Mutant: the last attempt is not used.
CanTryNextButLast(r) ==
  Cardinality(req[r].tried) + 1 < MaxAttempts(r) /\ Untried(r) # {}

CanTryNext(r) == Cardinality(req[r].tried) < MaxAttempts(r) /\ Untried(r) # {}

-----------------------------------------------------------------------------
Init ==
  /\ breaker = [p \in Providers |-> Reset]
  /\ req = [r \in Requests |-> Idle]
  /\ fallbackEnabled \in BOOLEAN

\* Without a candidate the request raises before anything is attempted.
Begin(r) ==
  /\ req[r].phase \in Ended
  /\ Candidates(r) # {}
  /\ req' = [req EXCEPT ![r] = [Idle EXCEPT !.phase = "routing"]]
  /\ UNCHANGED <<breaker, fallbackEnabled>>

Admit(r) ==
  /\ req[r].phase = "routing"
  /\ LET p == Turn(r) IN
     /\ Admits(Evaluated(breaker[p]))
     /\ breaker' = [breaker EXCEPT ![p] = Claimed(Evaluated(@))]
     /\ req' = [req EXCEPT ![r] = [phase  |-> "calling",
                                   tried  |-> @.tried \cup {p},
                                   called |-> @.called \cup {p}]]
  /\ UNCHANGED fallbackEnabled

\* Mutant: the loop does not move on from a refused candidate.
SkipInPlace(r) ==
  /\ req[r].phase = "routing"
  /\ ~Admits(Evaluated(breaker[Turn(r)]))
  /\ breaker' = [breaker EXCEPT ![Turn(r)] = Evaluated(@)]
  /\ UNCHANGED <<req, fallbackEnabled>>

\* A refused candidate counts as attempted, but the loop goes on whatever the
\* count is and whether or not fallback is enabled.
Skip(r) ==
  /\ req[r].phase = "routing"
  /\ LET p == Turn(r) IN
     /\ ~Admits(Evaluated(breaker[p]))
     /\ breaker' = [breaker EXCEPT ![p] = Evaluated(@)]
     /\ req' = [req EXCEPT ![r] =
                  [phase  |-> IF Untried(r) = {p} THEN "exhausted" ELSE "routing",
                   tried  |-> @.tried \cup {p},
                   called |-> @.called]]
  /\ UNCHANGED fallbackEnabled

\* The success is recorded before the response is read: a response that
\* cannot be read (none at all, a malformed usage) has the same effect here.
Succeed(r) ==
  /\ req[r].phase = "calling"
  /\ breaker' = [breaker EXCEPT ![Callee(r)] = RecordSuccess(@)]
  /\ req' = [req EXCEPT ![r] = Idle]
  /\ UNCHANGED fallbackEnabled

\* TRANSIENT, RATE_LIMITED, QUOTA_EXHAUSTED and TIMEOUT.
FailTransient(r) ==
  /\ req[r].phase = "calling"
  /\ breaker' = [breaker EXCEPT ![Callee(r)] = RecordFailure(@)]
  /\ req' = [req EXCEPT ![r] = IF ~fallbackEnabled THEN Idle
                               ELSE IF CanTryNext(r) THEN [@ EXCEPT !.phase = "routing"]
                               ELSE [@ EXCEPT !.phase = "exhausted"]]
  /\ UNCHANGED fallbackEnabled

\* FATAL, POLICY_DENY, AUTH_FAILURE and CAPABILITY_MISMATCH: raised at once,
\* and the breaker hears nothing of the call.
FailFatal(r) ==
  /\ req[r].phase = "calling"
  /\ req' = [req EXCEPT ![r] = Idle]
  /\ UNCHANGED <<breaker, fallbackEnabled>>

\* The recovery timeout of an open breaker runs out.
Elapse(p) ==
  /\ breaker[p].state = "open" /\ ~breaker[p].due
  /\ breaker' = [breaker EXCEPT ![p].due = TRUE]
  /\ UNCHANGED <<req, fallbackEnabled>>

\* get_health_status reads the state property, which evaluates the breaker.
Observe(p) ==
  /\ Evaluated(breaker[p]) # breaker[p]
  /\ breaker' = [breaker EXCEPT ![p] = Evaluated(@)]
  /\ UNCHANGED <<req, fallbackEnabled>>

Return(r) == Succeed(r) \/ FailTransient(r) \/ FailFatal(r)

Next ==
  \/ \E r \in Requests : Begin(r) \/ Admit(r) \/ Skip(r) \/ Return(r)
  \/ \E p \in Providers : Elapse(p) \/ Observe(p)

Spec == Init /\ [][Next]_vars

\* A thread that routes goes on, and a call ends: the providers have timeouts.
\* Nothing makes a caller come back, so Begin is not fair.
FairSpec ==
  /\ Spec
  /\ \A r \in Requests : WF_vars(Admit(r) \/ Skip(r)) /\ WF_vars(Return(r))
  /\ \A p \in Providers : WF_vars(Elapse(p))

-----------------------------------------------------------------------------
TypeOK ==
  /\ breaker \in [Providers -> Breaker]
  /\ req \in [Requests -> Request]
  /\ fallbackEnabled \in BOOLEAN

\* However many open circuits were skipped on the way, a request calls at most
\* max_fallback_attempts providers (P2-M51-F13: the attempt count of generate
\* counts the skipped ones too, and the loop does not stop on a skip), and it
\* gives up only when it has walked the whole list or used all its attempts.
AttemptsHonoured ==
  \A r \in Requests :
    /\ Cardinality(req[r].called) <= MaxAttempts(r)
    /\ req[r].phase = "exhausted" =>
         \/ req[r].tried = Candidates(r)
         \/ Cardinality(req[r].tried) >= MaxAttempts(r)

\* The bookkeeping the state machine of the breaker rests on, whatever late
\* results do to it: a probe is marked only while half open, a closed breaker
\* is below its threshold, a half-open one below the successes that close it.
BreakerCoherent ==
  \A p \in Providers :
    /\ breaker[p].canary => breaker[p].state = "half_open"
    /\ breaker[p].due => breaker[p].state = "open"
    /\ breaker[p].state = "closed" => breaker[p].failures < FailureThreshold
    /\ breaker[p].state # "closed" => breaker[p].failures = FailureThreshold
    /\ breaker[p].successes < SuccessThreshold

\* The cascade comes to an end for every request.
RequestEnds ==
  \A r \in Requests : req[r].phase \notin Ended ~> req[r].phase \in Ended
=============================================================================
