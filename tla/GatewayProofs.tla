---------------------------- MODULE GatewayProofs ----------------------------
(***************************************************************************)
(* The safety of Gateway for every set of providers and requests, every    *)
(* routing order and every threshold.                                      *)
(***************************************************************************)
EXTENDS Gateway, FiniteSetTheorems, TLAPS

\* BreakerCoherent, of one breaker.
Coherent(b) ==
  /\ b.canary => b.state = "half_open"
  /\ b.due => b.state = "open"
  /\ b.state = "closed" => b.failures < FailureThreshold
  /\ b.state # "closed" => b.failures = FailureThreshold
  /\ b.successes < SuccessThreshold

Sound == {b \in Breaker : Coherent(b)}

\* What a request has tried it was offered, what it called it has tried, and
\* one that still routes has an attempt and a candidate left.
WalkInv ==
  \A r \in Requests :
    /\ req[r].called \subseteq req[r].tried
    /\ req[r].tried \subseteq Candidates(r)
    /\ Cardinality(req[r].called) <= MaxAttempts(r)
    /\ req[r].phase = "routing" => /\ Cardinality(req[r].called) < MaxAttempts(r)
                                   /\ Untried(r) # {}
    /\ req[r].phase = "exhausted" =>
         \/ req[r].tried = Candidates(r)
         \/ Cardinality(req[r].tried) >= MaxAttempts(r)

GatewayInv == TypeOK /\ BreakerCoherent /\ WalkInv

-----------------------------------------------------------------------------
(* The operators of the breaker.                                           *)

LEMMA ResetSound == Reset \in Sound
BY ThresholdsAssumption DEF Sound, Reset, Breaker, Coherent, CircuitState

LEMMA EvaluatedSound ==
  ASSUME NEW b \in Sound
  PROVE  Evaluated(b) \in Sound
<1>1. CASE b.state = "open" /\ b.due
  <2>1. Evaluated(b) = [state |-> "half_open", failures |-> b.failures,
                        successes |-> 0, canary |-> FALSE, due |-> FALSE]
    BY <1>1 DEF Evaluated, Sound, Breaker
  <2>2. b.failures = FailureThreshold /\ b.failures \in 0..FailureThreshold
    BY <1>1 DEF Sound, Breaker, Coherent
  <2>3. QED
    BY <2>1, <2>2, ThresholdsAssumption DEF Sound, Breaker, Coherent, CircuitState
<1>2. CASE ~(b.state = "open" /\ b.due)
  BY <1>2 DEF Evaluated
<1>3. QED
  BY <1>1, <1>2

LEMMA ClaimedSound ==
  ASSUME NEW b \in Sound
  PROVE  Claimed(b) \in Sound
BY DEF Sound, Claimed, Breaker, Coherent, CircuitState

LEMMA RecordSuccessSound ==
  ASSUME NEW b \in Sound
  PROVE  RecordSuccess(b) \in Sound
<1> DEFINE e == Evaluated(b)
<1>1. e \in Sound
  BY EvaluatedSound
<1> HIDE DEF e
<1>2. CASE e.state = "closed"
  BY <1>1, <1>2, ThresholdsAssumption DEF RecordSuccess, e, Sound, Breaker, Coherent, CircuitState
<1>3. CASE e.state = "open"
  BY <1>1, <1>3 DEF RecordSuccess, e
<1>4. CASE e.state = "half_open"
  <2>1. CASE e.successes + 1 >= SuccessThreshold
    BY <1>4, <2>1, ResetSound DEF RecordSuccess, e
  <2>2. CASE ~(e.successes + 1 >= SuccessThreshold)
    <3>1. /\ e.failures = FailureThreshold /\ e.failures \in 0..FailureThreshold
          /\ e.successes \in 0..SuccessThreshold
          /\ e.due = FALSE
      BY <1>1, <1>4 DEF Sound, Breaker, Coherent
    <3>2. RecordSuccess(b) = [state |-> "half_open", failures |-> FailureThreshold,
                              successes |-> e.successes + 1,
                              canary |-> FALSE, due |-> FALSE]
      BY <1>1, <1>4, <2>2, <3>1 DEF RecordSuccess, e, Sound, Breaker
    <3>3. e.successes + 1 \in 0..SuccessThreshold /\ e.successes + 1 < SuccessThreshold
      BY <2>2, <3>1, ThresholdsAssumption
    <3>4. QED
      BY <3>1, <3>2, <3>3, ThresholdsAssumption DEF Sound, Breaker, Coherent, CircuitState
  <2>3. QED
    BY <2>1, <2>2
<1>5. QED
  BY <1>1, <1>2, <1>3, <1>4 DEF Sound, Breaker, CircuitState

LEMMA RecordFailureSound ==
  ASSUME NEW b \in Sound
  PROVE  RecordFailure(b) \in Sound
<1> DEFINE e == Evaluated(b)
<1>1. e \in Sound
  BY EvaluatedSound
<1> HIDE DEF e
<1>2. CASE e.state = "closed"
  <2>1. /\ e.failures \in 0..FailureThreshold /\ e.failures < FailureThreshold
        /\ e.successes \in 0..SuccessThreshold /\ e.successes < SuccessThreshold
        /\ e.canary = FALSE /\ e.due = FALSE
    BY <1>1, <1>2 DEF Sound, Breaker, Coherent
  <2>2. CASE e.failures + 1 >= FailureThreshold
    <3>1. RecordFailure(b) = [state |-> "open", failures |-> FailureThreshold,
                              successes |-> e.successes, canary |-> FALSE, due |-> FALSE]
      BY <1>1, <1>2, <2>2 DEF RecordFailure, Tripped, e, Sound, Breaker
    <3>2. QED
      BY <2>1, <3>1, ThresholdsAssumption DEF Sound, Breaker, Coherent, CircuitState
  <2>3. CASE ~(e.failures + 1 >= FailureThreshold)
    <3>1. RecordFailure(b) = [state |-> "closed", failures |-> e.failures + 1,
                              successes |-> e.successes, canary |-> FALSE, due |-> FALSE]
      BY <1>1, <1>2, <2>1, <2>3 DEF RecordFailure, e, Sound, Breaker
    <3>2. e.failures + 1 \in 0..FailureThreshold /\ e.failures + 1 < FailureThreshold
      BY <2>1, <2>3, ThresholdsAssumption
    <3>3. QED
      BY <2>1, <3>1, <3>2 DEF Sound, Breaker, Coherent, CircuitState
  <2>4. QED
    BY <2>2, <2>3
<1>3. CASE e.state = "open"
  BY <1>1, <1>3 DEF RecordFailure, e
<1>4. CASE e.state = "half_open"
  BY <1>1, <1>4 DEF RecordFailure, Tripped, e, Sound, Breaker, Coherent, CircuitState
<1>5. QED
  BY <1>1, <1>2, <1>3, <1>4 DEF Sound, Breaker, CircuitState

\* Replacing one breaker by a sound one keeps them all sound.
LEMMA BreakersSound ==
  ASSUME breaker \in [Providers -> Sound], NEW q,
         NEW b, q \in Providers => b \in Sound,
         breaker' = [breaker EXCEPT ![q] = b]
  PROVE  breaker' \in [Providers -> Sound]
OBVIOUS

LEMMA SoundBreakers == (breaker \in [Providers -> Breaker] /\ BreakerCoherent)
                         <=> breaker \in [Providers -> Sound]
BY DEF BreakerCoherent, Sound, Coherent

-----------------------------------------------------------------------------
(* The walk of a request down its candidates.                              *)

LEMMA CandidatesFinite ==
  ASSUME NEW r \in Requests
  PROVE  /\ IsFiniteSet(Candidates(r)) /\ Candidates(r) \subseteq Providers
         /\ Cardinality(Candidates(r)) \in Nat
BY GatewayAssumption, FS_Subset, FS_CardinalityType DEF Candidates

\* An untried candidate means that one has the lowest rank.
LEMMA TurnIsUntried ==
  ASSUME NEW r \in Requests, Untried(r) # {}
  PROVE  Turn(r) \in Untried(r)
<1> DEFINE ranks == {Rank[p] : p \in Untried(r)}
<1>1. Untried(r) \subseteq Providers
  BY DEF Untried, Candidates
<1>2. ranks \subseteq Nat /\ ranks # {}
  BY <1>1, GatewayAssumption
<1>3. PICK n \in ranks : \A m \in ranks : ~(<<m, n>> \in OpToRel(<, Nat))
  BY <1>2, NatLessThanWellFounded, WFMin
<1>4. \A m \in ranks : n <= m
  <2>1. SUFFICES ASSUME NEW m \in ranks, m < n
                 PROVE  FALSE
    BY <1>2
  <2>2. <<m, n>> \in OpToRel(<, Nat)
    BY <1>2, <2>1 DEF OpToRel
  <2>3. QED
    BY <1>3, <2>2
<1>5. \E p \in Untried(r) : \A q \in Untried(r) : Rank[p] <= Rank[q]
  BY <1>4
<1>6. QED
  BY <1>5 DEF Turn

\* One element more adds one at most.
LEMMA OneMore ==
  ASSUME NEW S, IsFiniteSet(S), NEW x
  PROVE  /\ Cardinality(S \cup {x}) \in Nat
         /\ Cardinality(S \cup {x}) <= Cardinality(S) + 1
<1>1. Cardinality(S) \in Nat
  BY FS_CardinalityType
<1>2. Cardinality(S \cup {x}) = IF x \in S THEN Cardinality(S) ELSE Cardinality(S) + 1
  BY FS_AddElement
<1>3. QED
  BY <1>1, <1>2

\* A bound on the attempts that is met when every candidate has been tried.
LEMMA MaxAttemptsBound ==
  ASSUME NEW r \in Requests
  PROVE  /\ MaxAttempts(r) \in Nat
         /\ Candidates(r) # {} => 0 < MaxAttempts(r)
BY CandidatesFinite, GatewayAssumption, FS_EmptySet DEF MaxAttempts

\* MaxAttempts depends on nothing that a step changes.
LEMMA MaxAttemptsFixed ==
  ASSUME NEW r \in Requests, fallbackEnabled' = fallbackEnabled
  PROVE  MaxAttempts(r)' = MaxAttempts(r)
BY DEF MaxAttempts, Candidates

\* WalkInv of one request, as an operator on its record.
WalkOK(r, w, limit) ==
  /\ w.called \subseteq w.tried
  /\ w.tried \subseteq Candidates(r)
  /\ Cardinality(w.called) <= limit
  /\ w.phase = "routing" => /\ Cardinality(w.called) < limit
                            /\ Candidates(r) \ w.tried # {}
  /\ w.phase = "exhausted" =>
       \/ w.tried = Candidates(r)
       \/ Cardinality(w.tried) >= limit

LEMMA WalkAsOK == WalkInv <=> \A r \in Requests : WalkOK(r, req[r], MaxAttempts(r))
BY DEF WalkInv, WalkOK, Untried

\* A step that replaces the record of one request by a good one.
LEMMA WalkStep ==
  ASSUME TypeOK, WalkInv, NEW r \in Requests, NEW w \in Request, WalkOK(r, w, MaxAttempts(r)),
         req' = [req EXCEPT ![r] = w], fallbackEnabled' = fallbackEnabled
  PROVE  WalkInv' /\ req' \in [Requests -> Request]
<1>1. req \in [Requests -> Request]
  BY DEF TypeOK
<1>2. \A s \in Requests : WalkOK(s, req'[s], MaxAttempts(s))
  BY <1>1, WalkAsOK
<1>3. \A s \in Requests : MaxAttempts(s)' = MaxAttempts(s)
  BY MaxAttemptsFixed
<1>4. WalkInv'
  BY <1>2, <1>3 DEF WalkInv, WalkOK, Untried, Candidates
<1>5. QED
  BY <1>1, <1>4

LEMMA IdleOK ==
  ASSUME NEW r \in Requests
  PROVE  /\ Idle \in Request /\ WalkOK(r, Idle, MaxAttempts(r))
         /\ Candidates(r) # {} =>
              LET w == [Idle EXCEPT !.phase = "routing"]
              IN  w \in Request /\ WalkOK(r, w, MaxAttempts(r))
<1>1. Cardinality({}) = 0 /\ MaxAttempts(r) \in Nat
  BY FS_EmptySet, MaxAttemptsBound
<1>2. Idle \in Request /\ [Idle EXCEPT !.phase = "routing"] \in Request
  BY DEF Idle, Request, Ended
<1>3. QED
  BY <1>1, <1>2, MaxAttemptsBound DEF WalkOK, Idle, Ended

-----------------------------------------------------------------------------
(* The steps of a request.                                                 *)

LEMMA Combine ==
  ASSUME breaker' \in [Providers -> Sound], WalkInv', req' \in [Requests -> Request],
         fallbackEnabled' \in BOOLEAN
  PROVE  GatewayInv'
<1>1. (breaker \in [Providers -> Breaker] /\ BreakerCoherent)'
  BY DEF BreakerCoherent, Sound, Coherent
<1>2. QED
  BY <1>1 DEF GatewayInv, TypeOK

LEMMA BeginSafe ==
  ASSUME GatewayInv, NEW r \in Requests, Begin(r)
  PROVE  GatewayInv'
<1>1. WalkInv' /\ req' \in [Requests -> Request]
  BY IdleOK, WalkStep DEF Begin, GatewayInv
<1>2. breaker' \in [Providers -> Sound]
  BY SoundBreakers DEF Begin, GatewayInv, TypeOK
<1>3. QED
  BY <1>1, <1>2, Combine DEF Begin, GatewayInv, TypeOK

LEMMA AdmitSafe ==
  ASSUME GatewayInv, NEW r \in Requests, Admit(r)
  PROVE  GatewayInv'
<1> DEFINE p == Turn(r)
           w == [phase |-> "calling", tried |-> req[r].tried \cup {p},
                 called |-> req[r].called \cup {p}]
<1>1. /\ req[r] \in Request /\ req[r].phase = "routing"
      /\ WalkOK(r, req[r], MaxAttempts(r))
  BY WalkAsOK DEF GatewayInv, TypeOK, Admit
<1>2. p \in Candidates(r) /\ p \in Providers
  BY <1>1, TurnIsUntried, CandidatesFinite DEF GatewayInv, WalkInv, Untried
<1>3. IsFiniteSet(req[r].called) /\ Cardinality(req[r].called) \in Nat
  BY <1>1, CandidatesFinite, FS_Subset, FS_CardinalityType DEF WalkOK
<1>4. /\ Cardinality(req[r].called \cup {p}) \in Nat
      /\ Cardinality(req[r].called \cup {p}) <= Cardinality(req[r].called) + 1
  BY <1>3, OneMore
<1>5. Cardinality(req[r].called \cup {p}) <= MaxAttempts(r)
  <2>1. Cardinality(req[r].called) < MaxAttempts(r) /\ MaxAttempts(r) \in Nat
    BY <1>1, MaxAttemptsBound DEF WalkOK
  <2>2. QED
    BY <1>3, <1>4, <2>1
<1>6. w \in Request /\ WalkOK(r, w, MaxAttempts(r))
  BY <1>1, <1>2, <1>5 DEF WalkOK, Request, Ended
<1>7. req' = [req EXCEPT ![r] = w]
  BY DEF Admit
<1>8. WalkInv' /\ req' \in [Requests -> Request]
  BY <1>6, <1>7, WalkStep DEF Admit, GatewayInv
<1>9. breaker' \in [Providers -> Sound]
  <2>1. breaker \in [Providers -> Sound]
    BY SoundBreakers DEF GatewayInv, TypeOK
  <2>2. Claimed(Evaluated(breaker[p])) \in Sound
    BY <1>2, <2>1, EvaluatedSound, ClaimedSound
  <2>3. breaker' = [breaker EXCEPT ![p] = Claimed(Evaluated(breaker[p]))]
    BY DEF Admit
  <2>4. QED
    BY <2>1, <2>2, <2>3, BreakersSound
<1>10. QED
  BY <1>8, <1>9, Combine DEF Admit, GatewayInv, TypeOK

LEMMA SkipSafe ==
  ASSUME GatewayInv, NEW r \in Requests, Skip(r)
  PROVE  GatewayInv'
<1> DEFINE p == Turn(r)
           phase == IF Untried(r) = {p} THEN "exhausted" ELSE "routing"
           w == [phase |-> phase, tried |-> req[r].tried \cup {p}, called |-> req[r].called]
<1>1. /\ req[r] \in Request /\ req[r].phase = "routing"
      /\ WalkOK(r, req[r], MaxAttempts(r))
  BY WalkAsOK DEF GatewayInv, TypeOK, Skip
<1>2. p \in Untried(r) /\ p \in Candidates(r) /\ p \in Providers
  BY <1>1, TurnIsUntried, CandidatesFinite DEF GatewayInv, WalkInv, Untried
<1>4. w \in Request /\ WalkOK(r, w, MaxAttempts(r))
  <2>1. Untried(r) = {p} => req[r].tried \cup {p} = Candidates(r)
    BY <1>1, <1>2 DEF WalkOK, Untried
  <2>2. Untried(r) # {p} => Candidates(r) \ (req[r].tried \cup {p}) # {}
    BY <1>2 DEF Untried
  <2>3. w \in Request
    BY <1>1, <1>2, CandidatesFinite DEF Request, Ended
  <2>4. QED
    BY <1>1, <1>2, <2>1, <2>2, <2>3 DEF WalkOK
<1>5. req' = [req EXCEPT ![r] = w]
  BY DEF Skip
<1>6. WalkInv' /\ req' \in [Requests -> Request]
  BY <1>4, <1>5, WalkStep DEF Skip, GatewayInv
<1>7. breaker' \in [Providers -> Sound]
  <2>1. breaker \in [Providers -> Sound]
    BY SoundBreakers DEF GatewayInv, TypeOK
  <2>2. breaker' = [breaker EXCEPT ![p] = Evaluated(breaker[p])]
    BY DEF Skip
  <2>3. QED
    BY <1>2, <2>1, <2>2, EvaluatedSound, BreakersSound
<1>8. QED
  BY <1>6, <1>7, Combine DEF Skip, GatewayInv, TypeOK

LEMMA SucceedSafe ==
  ASSUME GatewayInv, NEW r \in Requests, Succeed(r)
  PROVE  GatewayInv'
<1>1. WalkInv' /\ req' \in [Requests -> Request]
  BY IdleOK, WalkStep DEF Succeed, GatewayInv
<1>2. breaker' \in [Providers -> Sound]
  <2>1. breaker \in [Providers -> Sound]
    BY SoundBreakers DEF GatewayInv, TypeOK
  <2>2. breaker' = [breaker EXCEPT ![Callee(r)] = RecordSuccess(breaker[Callee(r)])]
    BY DEF Succeed
  <2>3. QED
    BY <2>1, <2>2, RecordSuccessSound, BreakersSound
<1>3. QED
  BY <1>1, <1>2, Combine DEF Succeed, GatewayInv, TypeOK

LEMMA FailTransientSafe ==
  ASSUME GatewayInv, NEW r \in Requests, FailTransient(r)
  PROVE  GatewayInv'
<1> DEFINE on == [req[r] EXCEPT !.phase = "routing"]
           off == [req[r] EXCEPT !.phase = "exhausted"]
           w == IF ~fallbackEnabled THEN Idle ELSE IF CanTryNext(r) THEN on ELSE off
<1>1. req[r] \in Request /\ WalkOK(r, req[r], MaxAttempts(r))
  BY WalkAsOK DEF GatewayInv, TypeOK
<1>2. on \in Request /\ off \in Request
  BY <1>1 DEF Request, Ended
<1>3. CanTryNext(r) => WalkOK(r, on, MaxAttempts(r))
  <2>1. /\ IsFiniteSet(req[r].tried) /\ IsFiniteSet(req[r].called)
        /\ Cardinality(req[r].called) <= Cardinality(req[r].tried)
    BY <1>1, CandidatesFinite, FS_Subset DEF WalkOK
  <2>2. Cardinality(req[r].called) \in Nat /\ Cardinality(req[r].tried) \in Nat
    BY <2>1, FS_CardinalityType
  <2>3. CanTryNext(r) => Cardinality(req[r].called) < MaxAttempts(r)
    BY <2>1, <2>2, MaxAttemptsBound DEF CanTryNext
  <2>4. QED
    BY <1>1, <2>3 DEF WalkOK, CanTryNext, Untried, Request
<1>4. ~CanTryNext(r) => WalkOK(r, off, MaxAttempts(r))
  <2>1. IsFiniteSet(req[r].tried) /\ Cardinality(req[r].tried) \in Nat
    BY <1>1, CandidatesFinite, FS_Subset, FS_CardinalityType DEF WalkOK
  <2>2. req[r].tried \subseteq Candidates(r)
    BY <1>1 DEF WalkOK
  <2>3. Untried(r) = {} => req[r].tried = Candidates(r)
    BY <2>2, Zenon DEF Untried
  <2>4. Cardinality(req[r].tried) < MaxAttempts(r) \/ Cardinality(req[r].tried) >= MaxAttempts(r)
    BY <2>1, MaxAttemptsBound
  <2>5. ~CanTryNext(r) => \/ req[r].tried = Candidates(r)
                          \/ Cardinality(req[r].tried) >= MaxAttempts(r)
    BY <2>3, <2>4, Zenon DEF CanTryNext
  <2>6. QED
    BY <1>1, <2>5 DEF WalkOK, Request
<1>5. w \in Request /\ WalkOK(r, w, MaxAttempts(r))
  BY <1>2, <1>3, <1>4, IdleOK
<1>6. req' = [req EXCEPT ![r] = w]
  BY DEF FailTransient
<1>7. WalkInv' /\ req' \in [Requests -> Request]
  BY <1>5, <1>6, WalkStep DEF FailTransient, GatewayInv
<1>8. breaker' \in [Providers -> Sound]
  <2>1. breaker \in [Providers -> Sound]
    BY SoundBreakers DEF GatewayInv, TypeOK
  <2>2. breaker' = [breaker EXCEPT ![Callee(r)] = RecordFailure(breaker[Callee(r)])]
    BY DEF FailTransient
  <2>3. QED
    BY <2>1, <2>2, RecordFailureSound, BreakersSound
<1>9. QED
  BY <1>7, <1>8, Combine DEF FailTransient, GatewayInv, TypeOK

LEMMA FailFatalSafe ==
  ASSUME GatewayInv, NEW r \in Requests, FailFatal(r)
  PROVE  GatewayInv'
<1>1. WalkInv' /\ req' \in [Requests -> Request]
  BY IdleOK, WalkStep DEF FailFatal, GatewayInv
<1>2. breaker' \in [Providers -> Sound]
  BY SoundBreakers DEF FailFatal, GatewayInv, TypeOK
<1>3. QED
  BY <1>1, <1>2, Combine DEF FailFatal, GatewayInv, TypeOK

-----------------------------------------------------------------------------
(* The invariant.                                                          *)

LEMMA InitSafe == Init => GatewayInv
<1> SUFFICES ASSUME Init
             PROVE  GatewayInv
  OBVIOUS
<1>1. breaker \in [Providers -> Sound]
  BY ResetSound DEF Init
<1>2. \A r \in Requests : req[r] = Idle /\ Idle \in Request
  BY IdleOK DEF Init
<1>3. WalkInv
  BY <1>2, IdleOK, WalkAsOK
<1>4. req \in [Requests -> Request]
  BY <1>2 DEF Init
<1>5. QED
  BY <1>1, <1>3, <1>4, SoundBreakers DEF Init, GatewayInv, TypeOK

\* Time, and whoever looks at the health of a provider.
LEMMA ProviderSafe ==
  ASSUME GatewayInv, NEW p \in Providers, Elapse(p) \/ Observe(p)
  PROVE  GatewayInv'
<1>1. breaker \in [Providers -> Sound]
  BY SoundBreakers DEF GatewayInv, TypeOK
<1>2. breaker' \in [Providers -> Sound]
  <2>1. CASE Elapse(p)
    <3>1. [breaker[p] EXCEPT !.due = TRUE] \in Sound
      BY <1>1, <2>1 DEF Elapse, Sound, Breaker, Coherent
    <3>2. breaker' = [breaker EXCEPT ![p] = [breaker[p] EXCEPT !.due = TRUE]]
      BY <2>1 DEF Elapse
    <3>3. QED
      BY <1>1, <3>1, <3>2, BreakersSound
  <2>2. CASE Observe(p)
    <3>1. breaker' = [breaker EXCEPT ![p] = Evaluated(breaker[p])]
      BY <2>2 DEF Observe
    <3>2. QED
      BY <1>1, <3>1, EvaluatedSound, BreakersSound
  <2>3. QED
    BY <2>1, <2>2
<1>3. req' = req /\ fallbackEnabled' = fallbackEnabled
  BY DEF Elapse, Observe
<1>4. WalkInv'
  BY <1>3, MaxAttemptsFixed DEF GatewayInv, WalkInv, Untried, Candidates
<1>5. QED
  BY <1>2, <1>3, <1>4, Combine DEF GatewayInv, TypeOK

LEMMA StutterSafe ==
  ASSUME GatewayInv, UNCHANGED vars
  PROVE  GatewayInv'
<1>1. breaker' = breaker /\ req' = req /\ fallbackEnabled' = fallbackEnabled
  BY DEF vars
<1>2. WalkInv'
  BY <1>1, MaxAttemptsFixed DEF GatewayInv, WalkInv, Untried, Candidates
<1>3. QED
  BY <1>1, <1>2, Combine, SoundBreakers DEF GatewayInv, TypeOK

LEMMA NextSafe == GatewayInv /\ [Next]_vars => GatewayInv'
<1> SUFFICES ASSUME GatewayInv, [Next]_vars
             PROVE  GatewayInv'
  OBVIOUS
<1>1. ASSUME NEW r \in Requests, Begin(r) \/ Admit(r) \/ Skip(r) \/ Return(r)
      PROVE  GatewayInv'
  BY <1>1, BeginSafe, AdmitSafe, SkipSafe, SucceedSafe, FailTransientSafe, FailFatalSafe
  DEF Return
<1>2. ASSUME NEW p \in Providers, Elapse(p) \/ Observe(p)
      PROVE  GatewayInv'
  BY <1>2, ProviderSafe
<1>3. QED
  BY <1>1, <1>2, StutterSafe DEF Next

THEOREM GatewayInvariant == Spec => []GatewayInv
BY InitSafe, NextSafe, PTL DEF Spec

\* The gateway's state is of its types, the counts of a breaker included:
\* neither exceeds its threshold.
THEOREM GatewayTypes == Spec => []TypeOK
<1>1. GatewayInv => TypeOK
  BY DEF GatewayInv
<1>2. QED
  BY GatewayInvariant, <1>1, PTL

\* However late the results of calls come (record_success, record_failure), a
\* probe is marked only in a half-open breaker, and a breaker that is not closed
\* has reached its threshold.
THEOREM BreakersAreCoherent == Spec => []BreakerCoherent
<1>1. GatewayInv => BreakerCoherent
  BY DEF GatewayInv
<1>2. QED
  BY GatewayInvariant, <1>1, PTL

\* generate calls at most max_fallback_attempts providers, and gives up only
\* when all candidates are tried or the attempts are used.
THEOREM AttemptsAreHonoured == Spec => []AttemptsHonoured
<1>1. GatewayInv => AttemptsHonoured
  BY DEF GatewayInv, WalkInv, AttemptsHonoured
<1>2. QED
  BY GatewayInvariant, <1>1, PTL
=============================================================================
