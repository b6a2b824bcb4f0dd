----------------------------- MODULE FleetProofs -----------------------------
(***************************************************************************)
(* The safety of Fleet for every set of workers, tasks and tenants and     *)
(* every bound.  The inductive invariant FleetInv adds to the properties   *)
(* what makes them inductive: what an open claim transaction has locked,   *)
(* and how far a thread and its attempt row may be apart.  The last part   *)
(* shows that Fleet implements FencedLedger.                               *)
(***************************************************************************)
EXTENDS Fleet, FiniteSetTheorems, TLAPS

\* The rows a claim transaction locked stay as it read them, and no two
\* transactions have locked the same task.
ClaimInv ==
  \A w \in Workers : claim[w] # NoTask =>
    /\ proc[w] # "down"
    /\ worker[w].status = "healthy"
    /\ task[claim[w]] = "pending"
    /\ lease[claim[w]].token < MaxToken
    /\ \A v \in Workers : claim[v] = claim[w] => v = w

\* A thread has an attempt row, and closes it before it releases.
ThreadInv ==
  \A t \in Tasks, k \in Tokens :
    /\ thread[t][k] # "none" => attempt[t][k].status # "none"
    /\ thread[t][k] \in {"release", "adjust"} => attempt[t][k].status \in TerminalAttempt

\* A task runs only while its newest thread is in the orchestrator, has died,
\* or is in the exception handler.
RunningInv ==
  \A t \in Tasks : task[t] = "running" =>
    /\ lease[t].token \in Tokens
    /\ thread[t][lease[t].token] \in {"run", "fail", "drop", "forget", "gone", "forgot"}
    /\ Valid(lease[t]) \/ GaveUp(t)

FleetInv == TypeOK /\ ClaimInv /\ ThreadInv /\ OpenAttemptIsLeased /\ RunningInv

-----------------------------------------------------------------------------
(* Types.                                                                  *)

LEMMA InitType == Init => TypeOK
BY FleetAssumption DEF Init, TypeOK, Incarnations, WorkerStatus, TaskStatus, Lease,
   LeaseState, Attempt, AttemptStatus, ThreadState, NoLease, NoAttempt

\* The steps of a worker and its process keep the types.
LEMMA WorkerType ==
  ASSUME TypeOK, ClaimInv, NEW w \in Workers, WorkerNext(w)
  PROVE  TypeOK'
<1> USE FleetAssumption DEF TypeOK
<1>1. CASE Start(w)
  BY <1>1 DEF Start, Incarnations, WorkerStatus
<1>2. CASE Crash(w)
  <2>1. \A t \in Tasks, k \in Tokens : thread'[t][k] \in {"gone", "forgot", thread[t][k]}
    BY <1>2 DEF Crash
  <2>2. thread' \in [Tasks -> [Tokens -> ThreadState]]
    BY <1>2, <2>1 DEF Crash, ThreadState
  <2>3. QED
    BY <1>2, <2>2 DEF Crash
<1>3. CASE Drain(w)
  <2>1. [worker EXCEPT ![w].status = "draining"] \in
          [Workers -> [status : WorkerStatus, inc : Incarnations, active : Nat]]
    BY DEF WorkerStatus
  <2>2. QED
    BY <1>3, <2>1 DEF Drain
<1>4. CASE Stop(w)
  BY <1>4 DEF Stop, WorkerStatus
<1>5. CASE CoordinatorDrain(w)
  BY <1>5 DEF CoordinatorDrain, WorkerStatus
<1>6. CASE Heartbeat(w)
  BY <1>6 DEF Heartbeat, WorkerStatus
<1>7. CASE HeartbeatFailed(w)
  BY <1>7 DEF HeartbeatFailed, WorkerStatus
<1>8. CASE ClaimCommit(w)
  <2> DEFINE t == claim[w]
             k == lease[t].token + 1
  <2>1. t \in Tasks /\ k \in Tokens /\ k \in 0..MaxToken
    BY <1>8 DEF ClaimCommit, RowLocked, ClaimInv, Lease, Tokens
  <2>2. lease' \in [Tasks -> Lease]
    BY <1>8, <2>1 DEF ClaimCommit, Lease, LeaseState, Incarnations
  <2>3. attempt' \in [Tasks -> [Tokens -> Attempt]]
    <3>1. [worker |-> w, inc |-> worker[w].inc, status |-> "running"] \in Attempt
      BY DEF Attempt, AttemptStatus
    <3>2. attempt' = [attempt EXCEPT ![t] = [attempt[t] EXCEPT ![k] =
             [worker |-> w, inc |-> worker[w].inc, status |-> "running"]]]
      BY <1>8, <2>1 DEF ClaimCommit
    <3>3. QED
      BY <2>1, <3>1, <3>2
  <2>4. thread' \in [Tasks -> [Tokens -> ThreadState]]
    BY <1>8, <2>1 DEF ClaimCommit, ThreadState
  <2>5. count' \in [Tenants -> Nat] /\ task' \in [Tasks -> TaskStatus]
    <3>1. TenantOf[t] \in Tenants
      BY <2>1
    <3>2. QED
      BY <1>8, <2>1, <3>1 DEF ClaimCommit, TaskStatus
  <2>6. worker' \in [Workers -> [status : WorkerStatus, inc : Incarnations, active : Nat]]
    <3>1. worker' = [worker EXCEPT ![w] = [worker[w] EXCEPT !.active = worker[w].active + 1]]
      BY <1>8 DEF ClaimCommit
    <3>2. worker[w].active + 1 \in Nat
      OBVIOUS
    <3>3. QED
      BY <3>1, <3>2
  <2>7. claim' \in [Workers -> Tasks \cup {NoTask}]
    BY <1>8 DEF ClaimCommit
  <2>8. QED
    BY <1>8, <2>2, <2>3, <2>4, <2>5, <2>6, <2>7 DEF ClaimCommit
<1>9. ASSUME NEW t \in Tasks, ClaimSelect(w, t)
      PROVE  TypeOK'
  BY <1>9 DEF ClaimSelect
<1>10. QED
  BY <1>1, <1>2, <1>3, <1>4, <1>5, <1>6, <1>7, <1>8, <1>9 DEF WorkerNext

LEMMA WrittenType ==
  ASSUME TypeOK, NEW t \in Tasks, NEW status \in TaskStatus
  PROVE  Written(t, status) \in [Tasks -> TaskStatus]
BY DEF TypeOK, Written

LEMMA AttemptWrittenType ==
  ASSUME TypeOK, NEW t \in Tasks, NEW k \in Tokens, NEW status \in AttemptStatus
  PROVE  AttemptWritten(t, k, status) \in [Tasks -> [Tokens -> Attempt]]
<1> DEFINE a == [attempt[t][k] EXCEPT !.status =
                   IF @ \in TerminalAttempt THEN @ ELSE status]
<1>1. a \in Attempt
  <2>1. attempt[t][k] \in Attempt
    BY DEF TypeOK
  <2>2. QED
    BY <2>1 DEF Attempt
<1>2. AttemptWritten(t, k, status) = [attempt EXCEPT ![t] = [attempt[t] EXCEPT ![k] = a]]
  BY DEF AttemptWritten, TypeOK
<1>3. QED
  BY <1>1, <1>2 DEF TypeOK

LEMMA ReleasedType ==
  ASSUME TypeOK, NEW t \in Tasks, NEW k \in Tokens
  PROVE  Released(t, k) \in [Tasks -> Lease]
<1>1. lease[t] \in Lease /\ lease \in [Tasks -> Lease]
  BY DEF TypeOK
<1>2. [lease[t] EXCEPT !.state = "released"] \in Lease
  BY <1>1 DEF Lease, LeaseState
<1>3. QED
  BY <1>1, <1>2 DEF Released

\* A release touches the state of one lease whose key matches, and no more.
LEMMA ReleasedAt ==
  ASSUME TypeOK, NEW t \in Tasks, NEW k \in Tokens, NEW u \in Tasks
  PROVE  /\ Released(t, k)[u].token = lease[u].token
         /\ ~(u = t /\ lease[t].token = k) => Released(t, k)[u] = lease[u]
         /\ Released(t, k)[u].state =
              IF u = t /\ HeldBy(t, k) THEN "released" ELSE lease[u].state
<1>1. lease \in [Tasks -> Lease] /\ lease[t] \in Lease /\ lease[u] \in Lease
  BY DEF TypeOK
<1>2. CASE HeldBy(t, k)
  BY <1>1, <1>2 DEF Released, HeldBy, Lease
<1>3. CASE ~HeldBy(t, k)
  BY <1>3 DEF Released
<1>4. QED
  BY <1>2, <1>3

\* The steps of a thread keep the types.
LEMMA ThreadType ==
  ASSUME TypeOK, NEW t \in Tasks, NEW k \in Tokens, ThreadNext(t, k)
  PROVE  TypeOK'
<1> USE DEF TypeOK, Step
<1>1. ASSUME NEW outcome \in TerminalTask \cup {"awaiting_approval"}, Execute(t, k, outcome)
      PROVE  TypeOK'
  <2>1. outcome \in TaskStatus
    BY DEF TerminalTask, TaskStatus
  <2>2. \E s \in {"repeat", "verify"} : thread' = [thread EXCEPT ![t][k] = s]
    BY <1>1 DEF Execute
  <2>3. thread' \in [Tasks -> [Tokens -> ThreadState]]
    BY <2>2 DEF ThreadState
  <2>4. task' \in [Tasks -> TaskStatus]
    BY <1>1, <2>1, WrittenType DEF Execute
  <2>5. QED
    BY <1>1, <2>3, <2>4 DEF Execute
<1>2. CASE RepeatCompletion(t, k)
  <2>1. task' \in [Tasks -> TaskStatus]
    <3>1. Written(t, "completed") \in [Tasks -> TaskStatus]
      BY WrittenType DEF TaskStatus
    <3>2. QED
      BY <1>2, <3>1 DEF RepeatCompletion
  <2>2. QED
    BY <1>2, <2>1 DEF RepeatCompletion, ThreadState
<1>3. CASE VerifyFencing(t, k)
  <2>1. \E s \in {"complete", "fence"} : thread' = [thread EXCEPT ![t][k] = s]
    BY <1>3 DEF VerifyFencing
  <2>2. thread' \in [Tasks -> [Tokens -> ThreadState]]
    BY <2>1 DEF ThreadState
  <2>3. QED
    BY <1>3, <2>2 DEF VerifyFencing
<1>4. CASE FenceAttempt(t, k)
  BY <1>4, AttemptWrittenType DEF FenceAttempt, AttemptStatus, ThreadState
<1>5. CASE CompleteAttempt(t, k)
  BY <1>5, AttemptWrittenType DEF CompleteAttempt, AttemptStatus, ThreadState
<1>6. CASE Raise(t, k)
  BY <1>6 DEF Raise, ThreadState
<1>7. CASE FailAttempt(t, k)
  <2>1. AttemptWritten(t, k, "failed") \in [Tasks -> [Tokens -> Attempt]]
    BY AttemptWrittenType DEF AttemptStatus
  <2>2. QED
    BY <1>7, <2>1 DEF FailAttempt, ThreadState
<1>8. CASE ReleaseLease(t, k)
  BY <1>8, ReleasedType DEF ReleaseLease, ThreadState
<1>9. CASE DropLease(t, k)
  BY <1>9, ReleasedType DEF DropLease, ThreadState
<1>10. CASE AdjustTenant(t, k)
  <2>1. TenantOf[t] \in Tenants
    BY FleetAssumption
  <2>2. count' \in [Tenants -> Nat]
    <3>1. \A m \in Nat : (IF m > 0 THEN m - 1 ELSE m) \in Nat
      OBVIOUS
    <3>2. Adjusted(TenantOf[t]) \in [Tenants -> Nat]
      BY <2>1, <3>1 DEF Adjusted
    <3>3. QED
      BY <1>10, <3>2 DEF AdjustTenant
  <2>3. thread' \in [Tasks -> [Tokens -> ThreadState]]
    <3>1. \E s \in {"gone", "forgot"} : thread' = [thread EXCEPT ![t][k] = s]
      BY <1>10 DEF AdjustTenant
    <3>2. QED
      BY <3>1 DEF ThreadState
  <2>4. QED
    BY <1>10, <2>2, <2>3 DEF AdjustTenant
<1>11. QED
  BY <1>1, <1>2, <1>3, <1>4, <1>5, <1>6, <1>7, <1>8, <1>9, <1>10 DEF ThreadNext

LEMMA TaskType ==
  ASSUME TypeOK, NEW t \in Tasks, TaskNext(t)
  PROVE  TypeOK'
<1> USE DEF TypeOK
<1>1. CASE LeaseRunsOut(t)
  <2>1. lease[t] \in Lease
    OBVIOUS
  <2>2. [lease[t] EXCEPT !.live = FALSE] \in Lease
    BY <2>1 DEF Lease
  <2>3. QED
    BY <1>1, <2>2 DEF LeaseRunsOut
<1>2. CASE CancelTask(t)
  BY <1>2 DEF CancelTask, TaskStatus
<1>3. CASE RecoverStaleTask(t)
  BY <1>3 DEF RecoverStaleTask, TaskStatus
<1>4. ASSUME NEW status \in {"pending", "failed"}, DecideApproval(t, status)
      PROVE  TypeOK'
  BY <1>4 DEF DecideApproval, TaskStatus
<1>5. QED
  BY <1>1, <1>2, <1>3, <1>4 DEF TaskNext

\* Counting a set of tasks gives a number: there are finitely many of them.
LEMMA TasksCounted ==
  ASSUME IsFiniteSet(Tasks), NEW S \in SUBSET Tasks
  PROVE  Cardinality(S) \in Nat
BY FS_Subset, FS_CardinalityType

LEMMA SweeperType ==
  ASSUME TypeOK, SweeperNext
  PROVE  TypeOK'
<1> USE DEF TypeOK
<1>1. ASSUME NEW S \in SUBSET Workers, Reap(S)
      PROVE  TypeOK'
  <2>1. \A w \in Workers : [worker[w] EXCEPT !.status = "expired"] \in
          [status : WorkerStatus, inc : Incarnations, active : Nat]
    BY DEF WorkerStatus
  <2>2. QED
    BY <1>1, <2>1 DEF Reap
<1>2. CASE Sweep
  <2>1. lease' \in [Tasks -> Lease]
    <3>1. \A t \in Tasks : [lease[t] EXCEPT !.state = "expired"] \in Lease
      <4>1. \A t \in Tasks : lease[t] \in Lease
        OBVIOUS
      <4>2. QED
        BY <4>1 DEF Lease, LeaseState
    <3>2. QED
      BY <1>2, <3>1 DEF Sweep
  <2>2. attempt' \in [Tasks -> [Tokens -> Attempt]]
    <3>1. \A t \in Tasks, k \in Tokens :
            [attempt[t][k] EXCEPT !.status = "recovered"] \in Attempt
      <4>1. \A a \in Attempt : [a EXCEPT !.status = "recovered"] \in Attempt
        BY DEF Attempt, AttemptStatus
      <4>2. \A t \in Tasks, k \in Tokens : attempt[t][k] \in Attempt
        OBVIOUS
      <4>3. QED
        BY <4>1, <4>2
    <3>2. QED
      BY <1>2, <3>1 DEF Sweep
  <2>3. count' \in [Tenants -> Nat]
    <3>1. \A n \in Tenants : Swept(n) \in Nat
      BY TasksCounted, FleetAssumption DEF Swept, Orphaned
    <3>2. \A n \in Tenants : (IF count[n] > Swept(n) THEN count[n] - Swept(n) ELSE 0) \in Nat
      BY <3>1
    <3>3. QED
      BY <1>2, <3>2 DEF Sweep
  <2>4. task' \in [Tasks -> TaskStatus]
    BY <1>2 DEF Sweep, TaskStatus
  <2>5. QED
    BY <1>2, <2>1, <2>2, <2>3, <2>4 DEF Sweep
<1>3. CASE Reconcile
  <2>1. \A n \in Tenants : Cardinality(LeasesOf(n)) \in Nat
    BY TasksCounted, FleetAssumption DEF LeasesOf
  <2>2. QED
    BY <1>3, <2>1 DEF Reconcile
<1>4. QED
  BY <1>1, <1>2, <1>3 DEF SweeperNext

LEMMA StutterInv ==
  ASSUME FleetInv, UNCHANGED vars
  PROVE  FleetInv'
BY DEF FleetInv, TypeOK, ClaimInv, ThreadInv, OpenAttemptIsLeased, RunningInv, vars,
   Valid, GaveUp

LEMMA TypeStep == ASSUME FleetInv, Next PROVE TypeOK'
BY WorkerType, ThreadType, TaskType, SweeperType DEF Next, FleetInv

-----------------------------------------------------------------------------
(* What an open claim transaction has locked.                              *)

LEMMA ClaimStep == ASSUME FleetInv, Next PROVE ClaimInv'
<1> SUFFICES ASSUME NEW v \in Workers, claim'[v] # NoTask
             PROVE  /\ proc'[v] # "down"
                    /\ worker'[v].status = "healthy"
                    /\ task'[claim'[v]] = "pending"
                    /\ lease'[claim'[v]].token < MaxToken
                    /\ \A u \in Workers : claim'[u] = claim'[v] => u = v
  BY DEF ClaimInv
<1> DEFINE Kept == /\ proc'[v] # "down"
                   /\ worker'[v].status = "healthy"
                   /\ task'[claim'[v]] = "pending"
                   /\ lease'[claim'[v]].token < MaxToken
                   /\ \A u \in Workers : claim'[u] = claim'[v] => u = v
<1> USE FleetAssumption DEF FleetInv, TypeOK, ClaimInv
<1>1. ASSUME NEW w \in Workers, WorkerNext(w)
      PROVE  Kept
  <2>1. CASE Start(w)
    BY <2>1 DEF Start
  <2>2. CASE Crash(w)
    BY <2>2 DEF Crash
  <2>3. CASE Drain(w)
    BY <2>3 DEF Drain, RowLocked
  <2>4. CASE Stop(w)
    BY <2>4 DEF Stop, RowLocked
  <2>5. CASE CoordinatorDrain(w)
    BY <2>5 DEF CoordinatorDrain, RowLocked
  <2>6. CASE Heartbeat(w)
    BY <2>6 DEF Heartbeat, RowLocked
  <2>7. CASE HeartbeatFailed(w)
    BY <2>7 DEF HeartbeatFailed, RowLocked
  <2>8. CASE ClaimCommit(w)
    <3>1. v # w /\ claim'[v] = claim[v] /\ claim[w] \in Tasks /\ claim[v] \in Tasks
      BY <2>8 DEF ClaimCommit, RowLocked
    <3>2. claim[v] # claim[w]
      BY <3>1
    <3>3. task'[claim[v]] = task[claim[v]] /\ lease'[claim[v]] = lease[claim[v]]
      BY <2>8, <3>1, <3>2 DEF ClaimCommit
    <3>4. worker'[v] = worker[v] /\ proc' = proc
      BY <2>8, <3>1 DEF ClaimCommit
    <3>5. \A u \in Workers : claim'[u] = claim[v] => u = v
      BY <2>8, <3>1 DEF ClaimCommit
    <3>6. QED
      BY <3>1, <3>3, <3>4, <3>5
  <2>9. ASSUME NEW t \in Tasks, ClaimSelect(w, t)
        PROVE  Kept
    <3>1. \A u \in Workers : claim[u] # t
      BY <2>9 DEF ClaimSelect, Admissible, TaskLocked
    <3>2. QED
      BY <2>9, <3>1 DEF ClaimSelect, Admissible
  <2>10. QED
    BY <1>1, <2>1, <2>2, <2>3, <2>4, <2>5, <2>6, <2>7, <2>8, <2>9 DEF WorkerNext
<1>2. ASSUME NEW t \in Tasks, NEW k \in Tokens, ThreadNext(t, k)
      PROVE  Kept
  <2>1. worker' = worker /\ proc' = proc /\ claim' = claim
    BY <1>2 DEF ThreadNext, Execute, RepeatCompletion, VerifyFencing, FenceAttempt,
       CompleteAttempt, Raise, FailAttempt, ReleaseLease, DropLease, AdjustTenant
  <2>2. lease'[claim[v]].token = lease[claim[v]].token
    <3>1. CASE lease' = Released(t, k)
      BY <3>1, <2>1, ReleasedAt
    <3>2. CASE lease' = lease
      BY <3>2
    <3>3. QED
      BY <1>2, <3>1, <3>2 DEF ThreadNext, Execute, RepeatCompletion, VerifyFencing, FenceAttempt,
         CompleteAttempt, Raise, FailAttempt, ReleaseLease, DropLease, AdjustTenant
  <2>3. task'[claim[v]] = task[claim[v]]
    <3>1. ASSUME NEW outcome \in TerminalTask \cup {"awaiting_approval"}, Execute(t, k, outcome)
          PROVE  task'[claim[v]] = task[claim[v]]
      BY <3>1, <2>1 DEF Execute, TaskLocked, Written
    <3>2. CASE RepeatCompletion(t, k)
      BY <3>2, <2>1 DEF RepeatCompletion, TaskLocked, Written
    <3>3. CASE task' = task
      BY <3>3
    <3>4. QED
      BY <1>2, <3>1, <3>2, <3>3 DEF ThreadNext, VerifyFencing, FenceAttempt, CompleteAttempt,
         Raise, FailAttempt, ReleaseLease, DropLease, AdjustTenant
  <2>4. QED
    BY <2>1, <2>2, <2>3
<1>3. ASSUME NEW t \in Tasks, TaskNext(t)
      PROVE  Kept
  <2>1. CASE LeaseRunsOut(t)
    BY <2>1 DEF LeaseRunsOut, Lease
  <2>2. CASE CancelTask(t)
    BY <2>2 DEF CancelTask, TaskLocked
  <2>3. CASE RecoverStaleTask(t)
    BY <2>3 DEF RecoverStaleTask
  <2>4. ASSUME NEW status \in {"pending", "failed"}, DecideApproval(t, status)
        PROVE  task'[claim'[v]] = "pending"
    BY <2>4 DEF DecideApproval, TaskLocked
  <2>5. QED
    BY <1>3, <2>1, <2>2, <2>3, <2>4 DEF TaskNext, DecideApproval
<1>4. ASSUME SweeperNext
      PROVE  Kept
  <2>1. ASSUME NEW S \in SUBSET Workers, Reap(S)
        PROVE  worker'[v].status = "healthy"
    BY <2>1 DEF Reap, RowLocked
  <2>2. CASE Sweep
    BY <2>2 DEF Sweep, Lease
  <2>3. CASE Reconcile
    BY <2>3 DEF Reconcile
  <2>4. QED
    BY <1>4, <2>1, <2>2, <2>3 DEF SweeperNext, Reap
<1>5. QED
  BY <1>1, <1>2, <1>3, <1>4 DEF Next

-----------------------------------------------------------------------------
(* Threads and their attempt rows.                                         *)

LEMMA AttemptWrittenAt ==
  ASSUME TypeOK, NEW t \in Tasks, NEW k \in Tokens, NEW status \in AttemptStatus,
         NEW u \in Tasks, NEW j \in Tokens
  PROVE  AttemptWritten(t, k, status)[u][j].status =
           IF u = t /\ j = k /\ attempt[t][k].status \notin TerminalAttempt
             THEN status ELSE attempt[u][j].status
<1>1. attempt[t][k] \in Attempt
  BY DEF TypeOK
<1>2. QED
  BY <1>1 DEF TypeOK, AttemptWritten, Attempt

\* What a claim writes, row by row.
LEMMA ClaimEffect ==
  ASSUME FleetInv, NEW w \in Workers, ClaimCommit(w), NEW u \in Tasks, NEW j \in Tokens
  PROVE  /\ lease[u].token \in 0..MaxToken
         /\ u = claim[w] => /\ lease[u].token + 1 \in Tokens
                            /\ lease'[u].token = lease[u].token + 1
                            /\ lease'[u].state = "active"
                            /\ task[u] = "pending" /\ task'[u] = "running"
         /\ u # claim[w] => lease'[u] = lease[u] /\ task'[u] = task[u]
         /\ (u = claim[w] /\ j = lease[u].token + 1) =>
              attempt'[u][j].status = "running" /\ thread'[u][j] = "run"
         /\ ~(u = claim[w] /\ j = lease[u].token + 1) =>
              attempt'[u][j] = attempt[u][j] /\ thread'[u][j] = thread[u][j]
<1> DEFINE t == claim[w]
           k == lease[t].token + 1
           a == [worker |-> w, inc |-> worker[w].inc, status |-> "running"]
<1>1. t \in Tasks /\ lease[t] \in Lease /\ lease[u] \in Lease
  BY DEF FleetInv, TypeOK, ClaimCommit, RowLocked
<1>2. k \in Tokens /\ task[t] = "pending"
  BY <1>1, FleetAssumption DEF ClaimCommit, RowLocked, ClaimInv, FleetInv, Lease, Tokens
<1>3. /\ attempt' = [attempt EXCEPT ![t] = [attempt[t] EXCEPT ![k] = a]]
      /\ thread' = [thread EXCEPT ![t] = [thread[t] EXCEPT ![k] = "run"]]
  BY <1>1, <1>2 DEF ClaimCommit, FleetInv, TypeOK
<1>4. /\ (u = t /\ j = k) => attempt'[u][j] = a /\ thread'[u][j] = "run"
      /\ ~(u = t /\ j = k) =>
           attempt'[u][j] = attempt[u][j] /\ thread'[u][j] = thread[u][j]
  <2> HIDE DEF a, k, t
  <2>1. QED
    BY <1>1, <1>2, <1>3 DEF FleetInv, TypeOK
<1>5. a.status = "running"
  OBVIOUS
<1>6. /\ u = t => lease'[u].token = k /\ lease'[u].state = "active" /\ task'[u] = "running"
      /\ u # t => lease'[u] = lease[u] /\ task'[u] = task[u]
  BY <1>1 DEF ClaimCommit, FleetInv, TypeOK
<1>7. lease[u].token \in 0..MaxToken
  BY <1>1 DEF Lease
<1>8. QED
  <2> HIDE DEF a
  <2>1. QED
    BY <1>2, <1>4, <1>5, <1>6, <1>7

\* What closing an attempt writes: that row, if it was open.
LEMMA CloseEffect ==
  ASSUME FleetInv, NEW t \in Tasks, NEW k \in Tokens,
         NEW status \in {"completed", "failed", "fenced"},
         attempt' = AttemptWritten(t, k, status),
         NEW u \in Tasks, NEW j \in Tokens
  PROVE  attempt'[u][j].status =
           IF u = t /\ j = k /\ attempt[t][k].status \notin TerminalAttempt
             THEN status ELSE attempt[u][j].status
BY AttemptWrittenAt DEF FleetInv, AttemptStatus

LEMMA ThreadStep == ASSUME FleetInv, Next PROVE ThreadInv'
<1> SUFFICES ASSUME NEW u \in Tasks, NEW j \in Tokens
             PROVE  /\ thread'[u][j] # "none" => attempt'[u][j].status # "none"
                    /\ thread'[u][j] \in {"release", "adjust"} =>
                         attempt'[u][j].status \in TerminalAttempt
  BY DEF ThreadInv
<1> DEFINE Kept == /\ thread'[u][j] # "none" => attempt'[u][j].status # "none"
                   /\ thread'[u][j] \in {"release", "adjust"} =>
                        attempt'[u][j].status \in TerminalAttempt
<1>0. TypeOK /\ ThreadInv
  BY DEF FleetInv
<1> USE <1>0 DEF ThreadInv
<1>1. ASSUME NEW w \in Workers, WorkerNext(w)
      PROVE  Kept
  <2>1. CASE Crash(w)
    BY <2>1 DEF TypeOK, Crash, Alive
  <2>2. CASE ClaimCommit(w)
    <3>1. (thread'[u][j] = "run" /\ attempt'[u][j].status = "running")
            \/ (thread'[u][j] = thread[u][j] /\ attempt'[u][j] = attempt[u][j])
      BY <2>2, ClaimEffect
    <3>2. QED
      BY <3>1
  <2>3. CASE thread' = thread /\ attempt' = attempt
    BY <2>3
  <2>4. QED
    BY <1>1, <2>1, <2>2, <2>3 DEF WorkerNext, Start, Drain, Stop, CoordinatorDrain,
       Heartbeat, HeartbeatFailed, ClaimSelect
<1>2. ASSUME NEW t \in Tasks, NEW k \in Tokens, ThreadNext(t, k)
      PROVE  Kept
  <2>1. CASE FenceAttempt(t, k) \/ CompleteAttempt(t, k)
    <3>1. \E s \in {"fenced", "completed"} : attempt' = AttemptWritten(t, k, s)
      BY <2>1 DEF FenceAttempt, CompleteAttempt
    <3>2. /\ attempt'[u][j].status # "none" \/ attempt'[u][j].status = attempt[u][j].status
          /\ attempt[u][j].status \in TerminalAttempt => attempt'[u][j].status = attempt[u][j].status
          /\ u = t /\ j = k => attempt'[u][j].status \in TerminalAttempt
      BY <3>1, CloseEffect DEF TerminalAttempt, AttemptStatus
    <3>3. \/ thread'[u][j] = thread[u][j]
          \/ u = t /\ j = k /\ thread[u][j] # "none"
      BY <2>1 DEF FenceAttempt, CompleteAttempt, Step, TypeOK
    <3>4. QED
      BY <3>2, <3>3 DEF TerminalAttempt
  <2>2. CASE FailAttempt(t, k)
    <3>1. /\ attempt'[u][j].status # "none" \/ attempt'[u][j].status = attempt[u][j].status
          /\ attempt[u][j].status \in TerminalAttempt => attempt'[u][j].status = attempt[u][j].status
      <4>1. CASE attempt' = attempt
        BY <4>1
      <4>2. CASE attempt' = AttemptWritten(t, k, "failed")
        BY <4>2, CloseEffect
      <4>3. QED
        BY <2>2, <4>1, <4>2 DEF FailAttempt
    <3>2. \/ thread'[u][j] = thread[u][j]
          \/ thread'[u][j] = "drop" /\ thread[u][j] # "none"
      BY <2>2 DEF FailAttempt, Step, TypeOK
    <3>3. QED
      BY <3>1, <3>2
  <2>3. CASE ReleaseLease(t, k)
    BY <2>3 DEF TypeOK, ReleaseLease, Step
  <2>4. CASE attempt' = attempt /\ \E s : /\ s \notin {"release", "adjust"}
                                       /\ thread[t][k] # "none"
                                       /\ thread' = [thread EXCEPT ![t][k] = s]
    <3>1. thread \in [Tasks -> [Tokens -> ThreadState]]
      BY DEF TypeOK
    <3>2. QED
      BY <2>4, <3>1
  <2>5. ASSUME NEW outcome \in TerminalTask \cup {"awaiting_approval"}, Execute(t, k, outcome)
        PROVE  Kept
    <3>1. attempt' = attempt /\ thread[t][k] # "none"
          /\ (thread' = [thread EXCEPT ![t][k] = "repeat"] \/ thread' = [thread EXCEPT ![t][k] = "verify"])
      BY <2>5 DEF Execute, Step
    <3>2. QED
      BY <3>1, <2>4
  <2>6. CASE VerifyFencing(t, k)
    <3>1. attempt' = attempt /\ thread[t][k] # "none"
          /\ (thread' = [thread EXCEPT ![t][k] = "complete"] \/ thread' = [thread EXCEPT ![t][k] = "fence"])
      BY <2>6 DEF VerifyFencing, Step
    <3>2. QED
      BY <3>1, <2>4
  <2>7. CASE Raise(t, k)
    BY <2>4, <2>7 DEF Raise
  <2>8. CASE RepeatCompletion(t, k)
    BY <2>4, <2>8 DEF RepeatCompletion, Step
  <2>9. CASE DropLease(t, k)
    BY <2>4, <2>9 DEF DropLease, Step
  <2>10. CASE AdjustTenant(t, k)
    <3>1. attempt' = attempt /\ thread[t][k] # "none"
          /\ (thread' = [thread EXCEPT ![t][k] = "gone"] \/ thread' = [thread EXCEPT ![t][k] = "forgot"])
      BY <2>10 DEF AdjustTenant, Step
    <3>2. QED
      BY <3>1, <2>4
  <2>11. QED
    BY <1>2, <2>1, <2>2, <2>3, <2>5, <2>6, <2>7, <2>8, <2>9, <2>10 DEF ThreadNext
<1>3. ASSUME NEW t \in Tasks, TaskNext(t)
      PROVE  Kept
  BY <1>3 DEF TaskNext, LeaseRunsOut, CancelTask, RecoverStaleTask, DecideApproval
<1>4. ASSUME SweeperNext
      PROVE  Kept
  <2>1. CASE Sweep
    BY <2>1 DEF TypeOK, Sweep, Attempt, TerminalAttempt, AttemptStatus
  <2>2. CASE thread' = thread /\ attempt' = attempt
    BY <2>2
  <2>3. QED
    BY <1>4, <2>1, <2>2 DEF SweeperNext, Reap, Reconcile
<1>5. QED
  BY <1>1, <1>2, <1>3, <1>4 DEF Next

\* What a thread's step does to any row: only its own attempt and thread
\* change, and only a release changes the state of a lease, its own.
LEMMA ThreadEffect ==
  ASSUME FleetInv, NEW t \in Tasks, NEW k \in Tokens, ThreadNext(t, k),
         NEW u \in Tasks, NEW j \in Tokens
  PROVE  /\ thread[t][k] \notin {"none", "gone", "forgot"}
         /\ ~(u = t /\ j = k) => thread'[u][j] = thread[u][j]
                               /\ attempt'[u][j].status = attempt[u][j].status
         /\ attempt'[u][j].status = "running" => attempt[u][j].status = "running"
         /\ lease'[u].token = lease[u].token
         /\ lease'[u].state # lease[u].state =>
              /\ u = t /\ k = lease[t].token
              /\ \/ thread[t][k] = "release"
                 \/ thread[t][k] = "drop" /\ thread'[t][k] = "forget"
<1>0. TypeOK
  BY DEF FleetInv
<1>1. thread \in [Tasks -> [Tokens -> ThreadState]]
  BY <1>0 DEF TypeOK
<1>2. thread[t][k] \notin {"none", "gone", "forgot"} /\ \E s : thread' = [thread EXCEPT ![t][k] = s]
  BY DEF ThreadNext, Execute, RepeatCompletion, VerifyFencing, FenceAttempt, CompleteAttempt,
     Raise, FailAttempt, ReleaseLease, DropLease, AdjustTenant, Step
<1>3. ~(u = t /\ j = k) => thread'[u][j] = thread[u][j]
  BY <1>1, <1>2
<1>4. \/ attempt' = attempt
      \/ \E s \in {"completed", "failed", "fenced"} : attempt' = AttemptWritten(t, k, s)
  BY DEF ThreadNext, Execute, RepeatCompletion, VerifyFencing, FenceAttempt, CompleteAttempt,
     Raise, FailAttempt, ReleaseLease, DropLease, AdjustTenant
<1>5. /\ ~(u = t /\ j = k) => attempt'[u][j].status = attempt[u][j].status
      /\ attempt'[u][j].status = "running" => attempt[u][j].status = "running"
  <2>1. CASE attempt' = attempt
    BY <2>1
  <2>2. ASSUME NEW s \in {"completed", "failed", "fenced"}, attempt' = AttemptWritten(t, k, s)
        PROVE  /\ ~(u = t /\ j = k) => attempt'[u][j].status = attempt[u][j].status
               /\ attempt'[u][j].status = "running" => attempt[u][j].status = "running"
    BY <2>2, CloseEffect
  <2>3. QED
    BY <1>4, <2>1, <2>2
<1>6. \/ lease' = lease
      \/ /\ lease' = Released(t, k)
         /\ \/ thread[t][k] = "release"
            \/ thread[t][k] = "drop" /\ thread' = [thread EXCEPT ![t][k] = "forget"]
  BY DEF ThreadNext, Execute, RepeatCompletion, VerifyFencing, FenceAttempt, CompleteAttempt,
     Raise, FailAttempt, ReleaseLease, DropLease, AdjustTenant, Step
<1>7. /\ lease'[u].token = lease[u].token
      /\ lease'[u].state # lease[u].state => u = t /\ k = lease[t].token
  BY <1>0, <1>6, ReleasedAt DEF HeldBy
<1>8. lease'[u].state # lease[u].state =>
        \/ thread[t][k] = "release"
        \/ thread[t][k] = "drop" /\ thread'[t][k] = "forget"
  BY <1>1, <1>6
<1>9. QED
  BY <1>2, <1>3, <1>5, <1>7, <1>8

\* Who gave up stays so until the next claim.
LEMMA GaveUpStays ==
  ASSUME FleetInv, Next, NEW u \in Tasks, lease'[u].token = lease[u].token, GaveUp(u)
  PROVE  GaveUp(u)'
<1> DEFINE j == lease[u].token
<1>1. j \in Tokens /\ thread[u][j] \in {"forget", "forgot"}
  BY DEF GaveUp
<1>2. SUFFICES thread'[u][j] \in {"forget", "forgot"}
  BY <1>1, <1>2 DEF GaveUp
<1>3. ASSUME NEW w \in Workers, WorkerNext(w)
      PROVE  thread'[u][j] \in {"forget", "forgot"}
  <2>1. CASE Crash(w)
    BY <1>1, <2>1 DEF Crash, Alive
  <2>2. CASE ClaimCommit(w)
    <3>1. u # claim[w]
      BY <2>2, <1>1, ClaimEffect, FleetAssumption DEF FleetInv, TypeOK, Lease
    <3>2. thread'[u][j] = thread[u][j]
      BY <2>2, <3>1, <1>1, ClaimEffect
    <3>3. QED
      BY <1>1, <3>2
  <2>3. CASE thread' = thread
    BY <1>1, <2>3
  <2>4. QED
    BY <1>3, <2>1, <2>2, <2>3 DEF WorkerNext, Start, Drain, Stop, CoordinatorDrain,
       Heartbeat, HeartbeatFailed, ClaimSelect
<1>4. ASSUME NEW t \in Tasks, NEW k \in Tokens, ThreadNext(t, k)
      PROVE  thread'[u][j] \in {"forget", "forgot"}
  <2>1. CASE u = t /\ j = k
    <3>1. Step(t, k, "forget", "forgot")
      BY <1>1, <1>4, <2>1 DEF ThreadNext, Execute, RepeatCompletion, VerifyFencing, FenceAttempt,
         CompleteAttempt, Raise, FailAttempt, ReleaseLease, DropLease, AdjustTenant, Step
    <3>2. QED
      BY <2>1, <3>1 DEF Step, FleetInv, TypeOK
  <2>2. CASE ~(u = t /\ j = k)
    BY <1>1, <1>4, <2>2, ThreadEffect
  <2>3. QED
    BY <2>1, <2>2
<1>5. CASE thread' = thread
  BY <1>1, <1>5
<1>6. QED
  BY <1>3, <1>4, <1>5 DEF Next, TaskNext, LeaseRunsOut, CancelTask, RecoverStaleTask,
     DecideApproval, SweeperNext, Reap, Sweep, Reconcile

LEMMA OpenStep == ASSUME FleetInv, Next PROVE OpenAttemptIsLeased'
<1> SUFFICES ASSUME NEW u \in Tasks, NEW j \in Tokens,
                    j = lease'[u].token, attempt'[u][j].status = "running"
             PROVE  lease'[u].state = "active" \/ GaveUp(u)'
  BY DEF OpenAttemptIsLeased, Valid
<1> DEFINE Kept == lease'[u].state = "active" \/ GaveUp(u)'
<1>0. TypeOK /\ ThreadInv /\ OpenAttemptIsLeased
  BY DEF FleetInv
\* A step that neither grants the task, nor opens the attempt, nor takes the lease.
<1>a. ASSUME lease'[u].token = lease[u].token, attempt[u][j].status = "running",
             lease'[u].state = lease[u].state
      PROVE  Kept
  <2>1. lease[u].state = "active" \/ GaveUp(u)
    BY <1>0, <1>a DEF OpenAttemptIsLeased, Valid
  <2>2. QED
    BY <1>a, <2>1, GaveUpStays
<1>1. ASSUME NEW w \in Workers, WorkerNext(w)
      PROVE  Kept
  <2>1. CASE ClaimCommit(w)
    <3>1. CASE u = claim[w]
      BY <2>1, <3>1, ClaimEffect
    <3>2. CASE u # claim[w]
      <4>1. lease'[u] = lease[u] /\ attempt'[u][j] = attempt[u][j]
        BY <2>1, <3>2, ClaimEffect
      <4>2. QED
        BY <4>1, <1>a
    <3>3. QED
      BY <3>1, <3>2
  <2>2. CASE lease' = lease /\ attempt' = attempt
    BY <2>2, <1>a
  <2>3. QED
    BY <1>1, <2>1, <2>2 DEF WorkerNext, Start, Crash, Drain, Stop, CoordinatorDrain,
       Heartbeat, HeartbeatFailed, ClaimSelect
<1>2. ASSUME NEW t \in Tasks, NEW k \in Tokens, ThreadNext(t, k)
      PROVE  Kept
  <2>1. lease'[u].token = lease[u].token /\ attempt[u][j].status = "running"
    BY <1>2, ThreadEffect
  <2>2. CASE lease'[u].state = lease[u].state
    BY <2>1, <2>2, <1>a
  <2>3. CASE lease'[u].state # lease[u].state
    <3>1. /\ u = t /\ j = k
          /\ \/ thread[t][k] = "release"
             \/ thread[t][k] = "drop" /\ thread'[t][k] = "forget"
      BY <1>2, <2>1, <2>3, ThreadEffect
    <3>2. thread[t][k] # "release"
      BY <1>0, <2>1, <3>1 DEF ThreadInv, TerminalAttempt
    <3>3. QED
      BY <3>1, <3>2 DEF GaveUp
  <2>4. QED
    BY <2>2, <2>3
<1>3. ASSUME NEW t \in Tasks, TaskNext(t)
      PROVE  Kept
  <2>1. CASE LeaseRunsOut(t)
    <3>1. /\ lease'[u].token = lease[u].token /\ lease'[u].state = lease[u].state
          /\ attempt' = attempt
      BY <1>0, <2>1 DEF TypeOK, LeaseRunsOut, Lease
    <3>2. QED
      BY <3>1, <1>a
  <2>2. CASE lease' = lease /\ attempt' = attempt
    BY <2>2, <1>a
  <2>3. QED
    BY <1>3, <2>1, <2>2 DEF TaskNext, CancelTask, RecoverStaleTask, DecideApproval
<1>4. ASSUME SweeperNext
      PROVE  Kept
  <2>1. CASE Sweep
    <3>1. CASE u \in Orphaned
      <4>1. lease'[u].token = lease[u].token
        BY <1>0, <2>1, <3>1 DEF TypeOK, Sweep, Lease
      <4>2. attempt'[u][j].status # "running"
        BY <1>0, <2>1, <3>1, <4>1 DEF TypeOK, Sweep, Attempt
      <4>3. QED
        BY <4>2
    <3>2. CASE u \notin Orphaned
      <4>1. lease'[u] = lease[u] /\ attempt'[u][j] = attempt[u][j]
        BY <2>1, <3>2 DEF Sweep
      <4>2. QED
        BY <4>1, <1>a
    <3>3. QED
      BY <3>1, <3>2
  <2>2. CASE lease' = lease /\ attempt' = attempt
    BY <2>2, <1>a
  <2>3. QED
    BY <1>4, <2>1, <2>2 DEF SweeperNext, Reap, Reconcile
<1>5. QED
  BY <1>1, <1>2, <1>3, <1>4 DEF Next

-----------------------------------------------------------------------------
(* Running tasks.                                                          *)

\* Every outcome an execution can write moves a running task on.
LEMMA ExecuteMovesOn ==
  ASSUME FleetInv, NEW t \in Tasks, NEW k \in Tokens,
         NEW outcome \in TerminalTask \cup {"awaiting_approval"}, Execute(t, k, outcome),
         NEW u \in Tasks, task'[u] = "running"
  PROVE  task[u] = "running" /\ u # t
<1>1. task \in [Tasks -> TaskStatus] /\ task' = Written(t, outcome)
  BY DEF FleetInv, TypeOK, Execute
<1>2. outcome # "running" /\ "running" \in Sources(outcome)
  BY DEF TerminalTask, Sources
<1>3. QED
  BY <1>1, <1>2 DEF Written

\* A claim that commits has a token left to give.
LEMMA ClaimRoom ==
  ASSUME FleetInv, NEW w \in Workers, ClaimCommit(w)
  PROVE  Tokens # {}
<1>1. claim[w] \in Tasks /\ lease[claim[w]] \in Lease /\ lease[claim[w]].token < MaxToken
  BY DEF FleetInv, TypeOK, ClaimCommit, RowLocked, ClaimInv
<1>2. QED
  BY <1>1, FleetAssumption DEF Lease, Tokens

\* No thread's step makes a task running.
LEMMA ThreadsDoNotRun ==
  ASSUME FleetInv, NEW t \in Tasks, NEW k \in Tokens, ThreadNext(t, k),
         NEW u \in Tasks, task'[u] = "running"
  PROVE  task[u] = "running" /\ (thread[t][k] = "run" /\ u = t => Raise(t, k))
<1>0. task \in [Tasks -> TaskStatus]
  BY DEF FleetInv, TypeOK
<1>1. CASE \E outcome \in TerminalTask \cup {"awaiting_approval"} : Execute(t, k, outcome)
  BY <1>1, ExecuteMovesOn
<1>2. CASE RepeatCompletion(t, k)
  <2>1. CASE task' = Written(t, "completed")
    BY <1>0, <1>2, <2>1 DEF Written, RepeatCompletion, Step
  <2>2. CASE task' = task
    BY <1>2, <2>2 DEF RepeatCompletion, Step
  <2>3. QED
    BY <1>2, <2>1, <2>2 DEF RepeatCompletion
<1>3. CASE task' = task /\ (thread[t][k] # "run" \/ Raise(t, k))
  BY <1>3
<1>4. QED
  BY <1>1, <1>2, <1>3 DEF ThreadNext, VerifyFencing, FenceAttempt, CompleteAttempt, Raise,
     FailAttempt, ReleaseLease, DropLease, AdjustTenant, Step

LEMMA RunningStep == ASSUME FleetInv, Next PROVE RunningInv'
<1> DEFINE Early == {"run", "fail", "drop", "forget", "gone", "forgot"}
<1> SUFFICES ASSUME NEW u \in Tasks, task'[u] = "running"
             PROVE  /\ lease'[u].token \in Tokens
                    /\ thread'[u][lease'[u].token] \in Early
                    /\ lease'[u].state = "active" \/ GaveUp(u)'
  BY DEF RunningInv, Valid
<1> DEFINE j == lease[u].token
           Kept == /\ lease'[u].token \in Tokens
                   /\ thread'[u][lease'[u].token] \in Early
                   /\ lease'[u].state = "active" \/ GaveUp(u)'
<1>0. TypeOK /\ RunningInv
  BY DEF FleetInv
<1>a. ASSUME task[u] = "running"
      PROVE  j \in Tokens /\ thread[u][j] \in Early /\ (lease[u].state = "active" \/ GaveUp(u))
  BY <1>0, <1>a DEF RunningInv, Valid
\* A step that leaves the task running under the same token and lease.
<1>b. ASSUME task[u] = "running", lease'[u].token = lease[u].token,
             lease'[u].state = lease[u].state, thread'[u][j] \in Early
      PROVE  Kept
  BY <1>a, <1>b, GaveUpStays
<1>1. ASSUME NEW w \in Workers, WorkerNext(w)
      PROVE  Kept
  <2>1. CASE Crash(w)
    <3>1. task[u] = "running" /\ lease' = lease
      BY <2>1 DEF Crash
    <3>2. thread'[u][j] \in {"gone", "forgot", thread[u][j]}
      BY <2>1, <3>1, <1>a DEF Crash
    <3>3. QED
      BY <3>1, <3>2, <1>a, <1>b
  <2>2. CASE ClaimCommit(w)
    <3>0. PICK i \in Tokens : TRUE
      BY <2>2, ClaimRoom
    <3>1. CASE u = claim[w]
      <4> DEFINE k == lease[u].token + 1
      <4>1. k \in Tokens /\ lease'[u].token = k /\ lease'[u].state = "active"
        BY <2>2, <3>0, <3>1, ClaimEffect
      <4>2. thread'[u][k] = "run"
        BY <2>2, <3>1, <4>1, ClaimEffect
      <4>3. QED
        BY <4>1, <4>2
    <3>2. CASE u # claim[w]
      <4>1. task[u] = "running" /\ lease'[u] = lease[u]
        BY <2>2, <3>0, <3>2, ClaimEffect
      <4>2. j \in Tokens
        BY <4>1, <1>a
      <4>3. thread'[u][j] = thread[u][j]
        BY <2>2, <3>2, <4>2, ClaimEffect
      <4>4. QED
        BY <4>1, <4>3, <1>a, <1>b
    <3>3. QED
      BY <3>1, <3>2
  <2>3. CASE task' = task /\ lease' = lease /\ thread' = thread
    BY <2>3, <1>a, <1>b
  <2>4. QED
    BY <1>1, <2>1, <2>2, <2>3 DEF WorkerNext, Start, Drain, Stop, CoordinatorDrain,
       Heartbeat, HeartbeatFailed, ClaimSelect
<1>2. ASSUME NEW t \in Tasks, NEW k \in Tokens, ThreadNext(t, k)
      PROVE  Kept
  <2>1. task[u] = "running" /\ (thread[t][k] = "run" /\ u = t => Raise(t, k))
    BY <1>2, ThreadsDoNotRun
  <2>2. j \in Tokens
    BY <2>1, <1>a
  <2>3. lease'[u].token = lease[u].token
    BY <1>2, <2>2, ThreadEffect
  <2>4. CASE ~(u = t /\ j = k)
    <3>1. thread'[u][j] = thread[u][j] /\ lease'[u].state = lease[u].state
      BY <1>2, <2>2, <2>4, ThreadEffect
    <3>2. QED
      BY <2>1, <2>3, <3>1, <1>a, <1>b
  <2>5. CASE u = t /\ j = k
    <3>1. thread[t][k] \in {"run", "fail", "drop", "forget"}
      BY <1>2, <2>1, <2>2, <2>5, <1>a, ThreadEffect
    <3>2. \E s \in {"fail", "drop", "forget", "forgot"} : thread' = [thread EXCEPT ![t][k] = s]
      BY <1>2, <2>1, <2>5, <3>1 DEF ThreadNext, Execute, RepeatCompletion, VerifyFencing,
         FenceAttempt, CompleteAttempt, Raise, FailAttempt, ReleaseLease, DropLease,
         AdjustTenant, Step
    <3>3. thread'[u][j] \in Early
      BY <2>5, <3>2, <1>0 DEF TypeOK
    <3>4. CASE lease'[u].state = lease[u].state
      BY <2>1, <2>3, <3>3, <3>4, <1>b
    <3>5. CASE lease'[u].state # lease[u].state
      <4>1. thread'[u][j] = "forget"
        BY <1>2, <2>2, <2>5, <3>1, <3>5, ThreadEffect
      <4>2. GaveUp(u)'
        BY <2>2, <2>3, <4>1 DEF GaveUp
      <4>3. QED
        BY <2>2, <2>3, <4>1, <4>2
    <3>6. QED
      BY <3>4, <3>5
  <2>6. QED
    BY <2>4, <2>5
<1>3. ASSUME NEW t \in Tasks, TaskNext(t)
      PROVE  Kept
  <2>1. task[u] = "running" /\ thread' = thread
    BY <1>3, <1>0 DEF TaskNext, LeaseRunsOut, CancelTask, RecoverStaleTask, DecideApproval, TypeOK
  <2>2. CASE LeaseRunsOut(t)
    <3>1. lease'[u].token = lease[u].token /\ lease'[u].state = lease[u].state
      BY <2>2, <1>0 DEF LeaseRunsOut, TypeOK, Lease
    <3>2. QED
      BY <2>1, <3>1, <1>a, <1>b
  <2>3. CASE lease' = lease
    BY <2>1, <2>3, <1>a, <1>b
  <2>4. QED
    BY <1>3, <2>2, <2>3 DEF TaskNext, CancelTask, RecoverStaleTask, DecideApproval
<1>4. ASSUME SweeperNext
      PROVE  Kept
  <2>1. CASE Sweep
    <3>1. u \notin Orphaned /\ task[u] = "running"
      BY <2>1 DEF Sweep
    <3>2. lease'[u] = lease[u] /\ thread' = thread
      BY <2>1, <3>1 DEF Sweep
    <3>3. QED
      BY <3>1, <3>2, <1>a, <1>b
  <2>2. CASE task' = task /\ lease' = lease /\ thread' = thread
    BY <2>2, <1>a, <1>b
  <2>3. QED
    BY <1>4, <2>1, <2>2 DEF SweeperNext, Reap, Reconcile
<1>5. QED
  BY <1>1, <1>2, <1>3, <1>4 DEF Next

LEMMA InitInv == Init => FleetInv
<1>1. Init => TypeOK
  BY InitType
<1>2. Init => ClaimInv /\ ThreadInv /\ OpenAttemptIsLeased /\ RunningInv
  BY DEF Init, ClaimInv, ThreadInv, OpenAttemptIsLeased, RunningInv, NoAttempt
<1>3. QED
  BY <1>1, <1>2 DEF FleetInv

-----------------------------------------------------------------------------
(* The theorems.                                                           *)

\* FleetInv holds in every reachable state: open claims, threads, attempts,
\* leases and task rows fit together (postgres_fleet.py, worker.py).
THEOREM FleetInvariant == Spec => []FleetInv
<1>1. FleetInv /\ [Next]_vars => FleetInv'
  BY StutterInv, TypeStep, ClaimStep, ThreadStep, OpenStep, RunningStep DEF FleetInv
<1>2. QED
  BY InitInv, <1>1, PTL DEF Spec

\* Every row keeps its type; the tenant counter never goes below zero,
\* double decrements included (adjust_tenant_active_count).
THEOREM TypeCorrect == Spec => []TypeOK
<1>1. FleetInv => TypeOK
  BY DEF FleetInv
<1>2. QED
  BY FleetInvariant, <1>1, PTL

\* The newest attempt is open only under a valid lease, whatever sweeps,
\* crashes and late threads interleave (update_attempt_status, release_lease).
THEOREM OpenAttemptsAreLeased == Spec => []OpenAttemptIsLeased
<1>1. FleetInv => OpenAttemptIsLeased
  BY DEF FleetInv
<1>2. QED
  BY FleetInvariant, <1>1, PTL

\* A running task is one the sweeper can still find, the exception path of
\* _execute_claimed_task apart (sweep_orphaned_leases).
THEOREM RunningTasksAreRecoverable == Spec => []RunningTaskIsRecoverable
<1>1. FleetInv => RunningTaskIsRecoverable
  BY DEF FleetInv, RunningInv, RunningTaskIsRecoverable
<1>2. QED
  BY FleetInvariant, <1>1, PTL

\* The four kinds of step that write a lease row.
LEMMA LeaseWriters ==
  ASSUME Next
  PROVE  \/ lease' = lease
         \/ \E w \in Workers : ClaimCommit(w)
         \/ \E t \in Tasks, k \in Tokens : ReleaseLease(t, k) \/ DropLease(t, k)
         \/ \E t \in Tasks : LeaseRunsOut(t)
         \/ Sweep
<1>1. ASSUME NEW w \in Workers, WorkerNext(w), ~ClaimCommit(w)
      PROVE  lease' = lease
  BY <1>1 DEF WorkerNext, Start, Crash, Drain, Stop, CoordinatorDrain, Heartbeat,
     HeartbeatFailed, ClaimSelect
<1>2. ASSUME NEW t \in Tasks, NEW k \in Tokens, ThreadNext(t, k),
             ~(ReleaseLease(t, k) \/ DropLease(t, k))
      PROVE  lease' = lease
  BY <1>2 DEF ThreadNext, Execute, RepeatCompletion, VerifyFencing, FenceAttempt,
     CompleteAttempt, Raise, FailAttempt, AdjustTenant
<1>3. ASSUME NEW t \in Tasks, TaskNext(t), ~LeaseRunsOut(t)
      PROVE  lease' = lease
  BY <1>3 DEF TaskNext, CancelTask, RecoverStaleTask, DecideApproval
<1>4. ASSUME SweeperNext, ~Sweep
      PROVE  lease' = lease
  BY <1>4 DEF SweeperNext, Reap, Reconcile
<1>5. QED
  BY <1>1, <1>2, <1>3, <1>4 DEF Next

\* The three kinds of step that write an attempt row.
LEMMA AttemptWriters ==
  ASSUME Next
  PROVE  \/ attempt' = attempt
         \/ \E w \in Workers : ClaimCommit(w)
         \/ \E t \in Tasks, k \in Tokens :
              FenceAttempt(t, k) \/ CompleteAttempt(t, k) \/ FailAttempt(t, k)
         \/ Sweep
<1>1. ASSUME NEW w \in Workers, WorkerNext(w), ~ClaimCommit(w)
      PROVE  attempt' = attempt
  BY <1>1 DEF WorkerNext, Start, Crash, Drain, Stop, CoordinatorDrain, Heartbeat,
     HeartbeatFailed, ClaimSelect
<1>2. ASSUME NEW t \in Tasks, NEW k \in Tokens, ThreadNext(t, k),
             ~(FenceAttempt(t, k) \/ CompleteAttempt(t, k) \/ FailAttempt(t, k))
      PROVE  attempt' = attempt
  BY <1>2 DEF ThreadNext, Execute, RepeatCompletion, VerifyFencing, Raise, ReleaseLease,
     DropLease, AdjustTenant
<1>3. ASSUME NEW t \in Tasks, TaskNext(t)
      PROVE  attempt' = attempt
  BY <1>3 DEF TaskNext, LeaseRunsOut, CancelTask, RecoverStaleTask, DecideApproval
<1>4. ASSUME SweeperNext, ~Sweep
      PROVE  attempt' = attempt
  BY <1>4 DEF SweeperNext, Reap, Reconcile
<1>5. QED
  BY <1>1, <1>2, <1>3, <1>4 DEF Next

\* No step of any actor moves a task out of a terminal status
\* (update_task_status, cancel_task, sweep_orphaned_leases).
THEOREM TerminalTasksStay == Spec => TerminalTaskStays
<1>1. ASSUME FleetInv, [Next]_vars, NEW t \in Tasks, task[t] \in TerminalTask
      PROVE  task'[t] = task[t]
  <2>0. TypeOK
    BY <1>1 DEF FleetInv
  <2>1. ASSUME NEW w \in Workers, WorkerNext(w)
        PROVE  task'[t] = task[t]
    <3>1. CASE ClaimCommit(w)
      <4>1. PICK i \in Tokens : TRUE
        BY <1>1, <3>1, ClaimRoom
      <4>2. QED
        BY <1>1, <3>1, <4>1, ClaimEffect DEF TerminalTask
    <3>2. CASE task' = task
      BY <3>2
    <3>3. QED
      BY <2>1, <3>1, <3>2 DEF WorkerNext, Start, Crash, Drain, Stop, CoordinatorDrain,
         Heartbeat, HeartbeatFailed, ClaimSelect
  <2>2. ASSUME NEW u \in Tasks, NEW k \in Tokens, ThreadNext(u, k)
        PROVE  task'[t] = task[t]
    <3>1. ASSUME NEW outcome \in TerminalTask \cup {"awaiting_approval"}, Execute(u, k, outcome)
          PROVE  task'[t] = task[t]
      <4>1. task[t] \in Sources(outcome) => task[t] = outcome
        BY <1>1 DEF Sources, TerminalTask
      <4>2. QED
        BY <2>0, <3>1, <4>1 DEF Execute, Written, TypeOK
    <3>2. CASE RepeatCompletion(u, k)
      <4>1. task[t] \notin Sources("completed")
        BY <1>1 DEF Sources, TerminalTask
      <4>2. QED
        BY <2>0, <3>2, <4>1 DEF RepeatCompletion, Written, TypeOK
    <3>3. CASE task' = task
      BY <3>3
    <3>4. QED
      BY <2>2, <3>1, <3>2, <3>3 DEF ThreadNext, VerifyFencing, FenceAttempt, CompleteAttempt,
         Raise, FailAttempt, ReleaseLease, DropLease, AdjustTenant
  <2>3. ASSUME NEW u \in Tasks, TaskNext(u)
        PROVE  task'[t] = task[t]
    <3>1. CASE u = t
      BY <1>1, <2>3, <3>1 DEF TaskNext, LeaseRunsOut, CancelTask, RecoverStaleTask,
         DecideApproval, TerminalTask
    <3>2. CASE u # t
      BY <2>0, <2>3, <3>2 DEF TaskNext, LeaseRunsOut, CancelTask, RecoverStaleTask,
         DecideApproval, TypeOK
    <3>3. QED
      BY <3>1, <3>2
  <2>4. ASSUME SweeperNext
        PROVE  task'[t] = task[t]
    BY <1>1, <2>4 DEF SweeperNext, Reap, Sweep, Reconcile, TerminalTask
  <2>5. CASE UNCHANGED vars
    BY <2>5 DEF vars
  <2>6. QED
    BY <1>1, <2>1, <2>2, <2>3, <2>4, <2>5 DEF Next
<1>2. FleetInv /\ [Next]_vars =>
        [\A t \in Tasks : task[t] \in TerminalTask => task'[t] = task[t]]_vars
  BY <1>1
<1>3. QED
  BY FleetInvariant, <1>2, PTL DEF Spec, TerminalTaskStays

\* A thread that lost its lease cannot release the successor's
\* (release_lease matches holder, incarnation and token).
THEOREM LeasesReleasedByHolder == Spec => ReleasedByItsHolder
<1>1. ASSUME FleetInv, [Next]_vars, NEW t \in Tasks, Valid(lease[t]), lease'[t].state = "released"
      PROVE  \E k \in Tokens : k = lease[t].token /\ thread[t][k] \in {"release", "drop"}
  <2>0. lease \in [Tasks -> Lease] /\ lease[t] \in Lease
    BY <1>1 DEF FleetInv, TypeOK
  <2>1. ASSUME NEW u \in Tasks, NEW k \in Tokens, ReleaseLease(u, k) \/ DropLease(u, k)
        PROVE  u = t /\ k = lease[t].token /\ thread[t][k] \in {"release", "drop"}
    <3>1. ThreadNext(u, k) /\ thread[u][k] \in {"release", "drop"}
      BY <2>1 DEF ThreadNext, ReleaseLease, DropLease, Step
    <3>2. lease'[t].state # lease[t].state
      BY <1>1 DEF Valid
    <3>3. QED
      BY <1>1, <3>1, <3>2, ThreadEffect
  <2>2. ASSUME NEW w \in Workers, ClaimCommit(w)
        PROVE  FALSE
    <3>1. PICK i \in Tokens : TRUE
      BY <1>1, <2>2, ClaimRoom
    <3>2. QED
      BY <1>1, <2>2, <3>1, ClaimEffect DEF Valid
  <2>3. ASSUME NEW u \in Tasks, LeaseRunsOut(u)
        PROVE  FALSE
    BY <1>1, <2>0, <2>3 DEF LeaseRunsOut, Valid, Lease
  <2>4. CASE Sweep
    BY <1>1, <2>0, <2>4 DEF Sweep, Valid, Lease
  <2>5. CASE lease' = lease
    BY <1>1, <2>5 DEF Valid
  <2>6. QED
    BY <1>1, <2>1, <2>2, <2>3, <2>4, <2>5, LeaseWriters DEF vars
<1>2. FleetInv /\ [Next]_vars =>
        [\A t \in Tasks : Valid(lease[t]) /\ lease'[t].state = "released" =>
           \E k \in Tokens : k = lease[t].token /\ thread[t][k] \in {"release", "drop"}]_vars
  BY <1>1
<1>3. QED
  BY FleetInvariant, <1>2, PTL DEF Spec, ReleasedByItsHolder

\* A lease goes only to a worker whose row is healthy when the claim
\* commits (claim_next_fair_task holds the worker row from its check on).
THEOREM ClaimsGoToHealthyWorkers == Spec => HealthyClaimGate
<1>1. ASSUME FleetInv, [Next]_vars, NEW t \in Tasks, lease'[t].token # lease[t].token
      PROVE  \E w \in Workers : /\ lease'[t].worker = w
                                /\ worker[w].status = "healthy"
                                /\ worker[w].inc = lease'[t].inc
  <2>0. lease \in [Tasks -> Lease] /\ lease[t] \in Lease
    BY <1>1 DEF FleetInv, TypeOK
  <2>1. ASSUME NEW w \in Workers, ClaimCommit(w)
        PROVE  /\ lease'[t].worker = w
               /\ worker[w].status = "healthy"
               /\ worker[w].inc = lease'[t].inc
    <3>1. worker[w].status = "healthy"
      BY <1>1, <2>1 DEF FleetInv, ClaimInv, ClaimCommit, RowLocked
    <3>2. t = claim[w]
      BY <1>1, <2>0, <2>1 DEF ClaimCommit
    <3>3. QED
      BY <2>0, <2>1, <3>1, <3>2 DEF ClaimCommit
  <2>2. ASSUME NEW u \in Tasks, NEW k \in Tokens, ReleaseLease(u, k) \/ DropLease(u, k)
        PROVE  FALSE
    <3>1. lease' = Released(u, k) \/ lease' = lease
      BY <2>2 DEF ReleaseLease, DropLease
    <3>2. TypeOK
      BY <1>1 DEF FleetInv
    <3>3. QED
      BY <1>1, <3>1, <3>2, ReleasedAt
  <2>3. ASSUME NEW u \in Tasks, LeaseRunsOut(u)
        PROVE  FALSE
    BY <1>1, <2>0, <2>3 DEF LeaseRunsOut, Lease
  <2>4. CASE Sweep
    BY <1>1, <2>0, <2>4 DEF Sweep, Lease
  <2>5. CASE lease' = lease
    BY <1>1, <2>5
  <2>6. QED
    BY <1>1, <2>1, <2>2, <2>3, <2>4, <2>5, LeaseWriters DEF vars
<1>2. FleetInv /\ [Next]_vars =>
        [\A t \in Tasks : lease'[t].token # lease[t].token =>
           \E w \in Workers : /\ lease'[t].worker = w
                              /\ worker[w].status = "healthy"
                              /\ worker[w].inc = lease'[t].inc]_vars
  BY <1>1
<1>3. QED
  BY FleetInvariant, <1>2, PTL DEF Spec, HealthyClaimGate

-----------------------------------------------------------------------------
(* The capacity of a worker.                                               *)

\* Attempts under tokens not yet drawn belong to nobody, and a claim that is
\* open has room for one more.
SpentInv ==
  /\ \A t \in Tasks, k \in Tokens : k > lease[t].token => attempt[t][k].worker = NoWorker
  /\ \A w \in Workers : claim[w] # NoTask => worker[w].active < ConcurrencyLimit
  /\ ClaimsAreSpent

LEMMA ClaimsFinite ==
  ASSUME NEW w \in Workers
  PROVE  IsFiniteSet(ClaimsOf(w)) /\ Cardinality(ClaimsOf(w)) \in Nat
<1>1. IsFiniteSet(Tokens)
  BY FS_Interval, FleetAssumption DEF Tokens
<1>2. IsFiniteSet(Tasks \X Tokens)
  BY <1>1, FS_Product, FleetAssumption
<1>3. QED
  BY <1>2, FS_Subset, FS_CardinalityType DEF ClaimsOf

\* Only a claim writes the holder of an attempt, a token or a worker's count.
LEMMA OnlyClaimsCount ==
  ASSUME FleetInv, Next, \A w \in Workers : ~ClaimCommit(w)
  PROVE  /\ \A u \in Tasks, j \in Tokens : attempt'[u][j].worker = attempt[u][j].worker
         /\ \A u \in Tasks : lease'[u].token = lease[u].token
         /\ \A w \in Workers : worker'[w].active = worker[w].active
<1>0. TypeOK
  BY DEF FleetInv
<1>1. ASSUME NEW u \in Tasks, NEW j \in Tokens
      PROVE  attempt'[u][j].worker = attempt[u][j].worker
  <2>1. ASSUME NEW t \in Tasks, NEW k \in Tokens, NEW s \in AttemptStatus,
               attempt' = AttemptWritten(t, k, s)
        PROVE  attempt'[u][j].worker = attempt[u][j].worker
    BY <1>0, <2>1 DEF TypeOK, AttemptWritten, Attempt
  <2>2. ASSUME NEW t \in Tasks, NEW k \in Tokens,
               FenceAttempt(t, k) \/ CompleteAttempt(t, k) \/ FailAttempt(t, k)
        PROVE  attempt'[u][j].worker = attempt[u][j].worker
    <3>1. attempt' = attempt \/ \E s \in AttemptStatus : attempt' = AttemptWritten(t, k, s)
      BY <2>2 DEF FenceAttempt, CompleteAttempt, FailAttempt, AttemptStatus
    <3>2. QED
      BY <2>1, <3>1
  <2>3. CASE Sweep
    BY <1>0, <2>3 DEF Sweep, TypeOK, Attempt
  <2>4. QED
    BY <2>2, <2>3, AttemptWriters
<1>2. ASSUME NEW u \in Tasks
      PROVE  lease'[u].token = lease[u].token
  <2>1. ASSUME NEW t \in Tasks, NEW k \in Tokens, ReleaseLease(t, k) \/ DropLease(t, k)
        PROVE  lease'[u].token = lease[u].token
    <3>1. lease' = lease \/ lease' = Released(t, k)
      BY <2>1 DEF ReleaseLease, DropLease
    <3>2. QED
      BY <1>0, <3>1, ReleasedAt
  <2>2. ASSUME NEW t \in Tasks, LeaseRunsOut(t)
        PROVE  lease'[u].token = lease[u].token
    BY <1>0, <2>2 DEF TypeOK, LeaseRunsOut, Lease
  <2>3. CASE Sweep
    BY <1>0, <2>3 DEF Sweep, TypeOK, Lease
  <2>4. QED
    BY <2>1, <2>2, <2>3, LeaseWriters
<1>3. ASSUME NEW w \in Workers
      PROVE  worker'[w].active = worker[w].active
  <2>1. ASSUME NEW v \in Workers, WorkerNext(v)
        PROVE  worker'[w].active = worker[w].active
    <3>1. CASE Start(v)
      BY <1>0, <3>1 DEF TypeOK, Start
    <3>2. CASE Drain(v) \/ Stop(v) \/ CoordinatorDrain(v)
      BY <1>0, <3>2 DEF TypeOK, Drain, Stop, CoordinatorDrain
    <3>3. CASE Heartbeat(v)
      BY <1>0, <3>3 DEF TypeOK, Heartbeat
    <3>4. CASE HeartbeatFailed(v)
      BY <1>0, <3>4 DEF TypeOK, HeartbeatFailed
    <3>5. CASE worker' = worker
      BY <3>5
    <3>6. QED
      BY <2>1, <3>1, <3>2, <3>3, <3>4, <3>5 DEF WorkerNext, Crash, ClaimSelect
  <2>2. ASSUME NEW t \in Tasks, NEW k \in Tokens, ThreadNext(t, k)
        PROVE  worker' = worker
    BY <2>2 DEF ThreadNext, Execute, RepeatCompletion, VerifyFencing, FenceAttempt,
       CompleteAttempt, Raise, ReleaseLease, FailAttempt, DropLease, AdjustTenant
  <2>3. ASSUME NEW t \in Tasks, TaskNext(t)
        PROVE  worker' = worker
    BY <2>3 DEF TaskNext, LeaseRunsOut, CancelTask, RecoverStaleTask, DecideApproval
  <2>4. CASE SweeperNext
    BY <1>0, <2>4 DEF TypeOK, SweeperNext, Reap, Sweep, Reconcile
  <2>5. QED
    BY <2>1, <2>2, <2>3, <2>4 DEF Next
<1>4. QED
  BY <1>1, <1>2, <1>3

\* A claim is opened with room for one more, and committed or rolled back.
LEMMA OpenClaimsHaveRoom ==
  ASSUME FleetInv, Next, NEW w \in Workers, claim'[w] # NoTask
  PROVE  claim[w] # NoTask \/ worker[w].active < ConcurrencyLimit
<1>0. TypeOK
  BY DEF FleetInv
<1>1. ASSUME NEW v \in Workers, WorkerNext(v)
      PROVE  claim[w] # NoTask \/ worker[w].active < ConcurrencyLimit
  <2>1. ASSUME NEW t \in Tasks, ClaimSelect(v, t)
        PROVE  claim[w] # NoTask \/ worker[w].active < ConcurrencyLimit
    BY <1>0, <2>1 DEF ClaimSelect, TypeOK
  <2>2. CASE Crash(v) \/ ClaimCommit(v)
    BY <1>0, <2>2 DEF Crash, ClaimCommit, TypeOK
  <2>3. CASE claim' = claim
    BY <2>3
  <2>4. QED
    BY <1>1, <2>1, <2>2, <2>3 DEF WorkerNext, Start, Drain, Stop, CoordinatorDrain,
       Heartbeat, HeartbeatFailed
<1>2. ASSUME NEW t \in Tasks, NEW k \in Tokens, ThreadNext(t, k)
      PROVE  claim' = claim
  BY <1>2 DEF ThreadNext, Execute, RepeatCompletion, VerifyFencing, FenceAttempt,
     CompleteAttempt, Raise, ReleaseLease, FailAttempt, DropLease, AdjustTenant
<1>3. ASSUME NEW t \in Tasks, TaskNext(t)
      PROVE  claim' = claim
  BY <1>3 DEF TaskNext, LeaseRunsOut, CancelTask, RecoverStaleTask, DecideApproval
<1>4. ASSUME SweeperNext
      PROVE  claim' = claim
  BY <1>4 DEF SweeperNext, Reap, Sweep, Reconcile
<1>5. QED
  BY <1>1, <1>2, <1>3, <1>4 DEF Next

\* A claim adds one attempt to its worker's, and one to its count.
LEMMA ClaimIsSpent ==
  ASSUME FleetInv, SpentInv, NEW w \in Workers, ClaimCommit(w)
  PROVE  /\ \A u \in Tasks, j \in Tokens : j > lease'[u].token => attempt'[u][j].worker = NoWorker
         /\ ClaimsAreSpent'
<1> DEFINE t == claim[w]
           k == lease[t].token + 1
<1>0. TypeOK
  BY DEF FleetInv
<1>1. t \in Tasks /\ k \in Tokens /\ lease[t].token \in 0..MaxToken
  <2>1. t \in Tasks /\ lease[t] \in Lease /\ lease[t].token < MaxToken
    BY <1>0 DEF FleetInv, TypeOK, ClaimCommit, RowLocked, ClaimInv
  <2>2. QED
    BY <2>1, FleetAssumption DEF Lease, Tokens
<1> HIDE DEF t, k
<1>2. attempt[t][k].worker = NoWorker
  BY <1>1, FleetAssumption DEF SpentInv, k
<1>3. \A u \in Tasks, j \in Tokens :
        attempt'[u][j].worker = IF u = t /\ j = k THEN w ELSE attempt[u][j].worker
  BY <1>0, <1>1 DEF ClaimCommit, TypeOK, t, k
<1>4. \A u \in Tasks : lease'[u].token = IF u = t THEN k ELSE lease[u].token
  BY <1>0, <1>1 DEF ClaimCommit, TypeOK, t, k
<1>5. \A v \in Workers : worker'[v].active = IF v = w THEN worker[w].active + 1 ELSE worker[v].active
  BY <1>0 DEF ClaimCommit, TypeOK
<1>6. worker[w].active < ConcurrencyLimit /\ worker[w].active \in Nat
  BY <1>0 DEF ClaimCommit, RowLocked, SpentInv, TypeOK
<1>7. ASSUME NEW u \in Tasks, NEW j \in Tokens, j > lease'[u].token
      PROVE  attempt'[u][j].worker = NoWorker
  <2>1. lease[u].token \in 0..MaxToken
    BY <1>0 DEF TypeOK, Lease
  <2>2. CASE u = t
    <3>1. j > k /\ k = lease[t].token + 1
      BY <1>4, <1>7, <2>2 DEF k
    <3>2. j # k /\ j > lease[t].token
      BY <3>1, <1>1, FleetAssumption DEF Tokens
    <3>3. QED
      BY <1>3, <2>2, <3>2 DEF SpentInv
  <2>3. CASE u # t
    BY <1>3, <1>4, <1>7, <2>3 DEF SpentInv
  <2>4. QED
    BY <2>2, <2>3
<1>8. ClaimsOf(w)' = ClaimsOf(w) \cup {<<t, k>>} /\ <<t, k>> \notin ClaimsOf(w)
  <2>1. NoWorker # w
    BY FleetAssumption
  <2>2. QED
    BY <1>1, <1>2, <1>3, <2>1 DEF ClaimsOf
<1>9. ASSUME NEW v \in Workers, v # w
      PROVE  ClaimsOf(v)' = ClaimsOf(v)
  <2>1. NoWorker # v
    BY FleetAssumption
  <2>2. QED
    BY <1>1, <1>2, <1>3, <1>9, <2>1 DEF ClaimsOf
<1>10. Cardinality(ClaimsOf(w)') = Cardinality(ClaimsOf(w)) + 1
  BY <1>8, ClaimsFinite, FS_AddElement
<1>11. ASSUME NEW v \in Workers
       PROVE  /\ worker'[v].active = Cardinality(ClaimsOf(v)')
              /\ Cardinality(ClaimsOf(v)') <= ConcurrencyLimit
  <2>1. /\ worker[v].active = Cardinality(ClaimsOf(v))
        /\ Cardinality(ClaimsOf(v)) <= ConcurrencyLimit
    BY DEF SpentInv, ClaimsAreSpent
  <2>2. CASE v = w
    BY <1>5, <1>6, <1>10, <2>1, <2>2, FleetAssumption
  <2>3. CASE v # w
    BY <1>5, <1>9, <2>1, <2>3
  <2>4. QED
    BY <2>2, <2>3
<1>12. QED
  BY <1>7, <1>11 DEF ClaimsAreSpent

LEMMA SpentStep ==
  ASSUME FleetInv, SpentInv, [Next]_vars
  PROVE  SpentInv'
<1>1. CASE UNCHANGED vars
  BY <1>1 DEF vars, SpentInv, ClaimsAreSpent, ClaimsOf
<1>2. ASSUME NEW w \in Workers, Next, ClaimCommit(w)
      PROVE  SpentInv'
  <2>1. ASSUME NEW v \in Workers, claim'[v] # NoTask
        PROVE  worker'[v].active < ConcurrencyLimit
    <3>1. v # w /\ claim[v] # NoTask /\ worker'[v] = worker[v]
      BY <1>2, <2>1 DEF ClaimCommit, FleetInv, TypeOK
    <3>2. QED
      BY <3>1 DEF SpentInv
  <2>2. QED
    BY <1>2, <2>1, ClaimIsSpent DEF SpentInv
<1>3. CASE Next /\ \A w \in Workers : ~ClaimCommit(w)
  <2>1. /\ \A u \in Tasks, j \in Tokens : attempt'[u][j].worker = attempt[u][j].worker
        /\ \A u \in Tasks : lease'[u].token = lease[u].token
        /\ \A w \in Workers : worker'[w].active = worker[w].active
    BY <1>3, OnlyClaimsCount
  <2>2. \A w \in Workers : ClaimsOf(w)' = ClaimsOf(w)
    BY <2>1 DEF ClaimsOf
  <2>3. \A w \in Workers : claim'[w] # NoTask => worker'[w].active < ConcurrencyLimit
    BY <1>3, <2>1, OpenClaimsHaveRoom DEF SpentInv
  <2>4. QED
    BY <2>1, <2>2, <2>3 DEF SpentInv, ClaimsAreSpent
<1>4. QED
  BY <1>1, <1>2, <1>3

\* M55-F08: whatever drains, crashes and restarts, a worker id is granted at
\* most concurrency_limit attempts, and its row counts every one of them
\* (claim_next_fair_task, register_worker).
THEOREM ClaimsAreBounded == Spec => []ClaimsAreSpent
<1>1. Init => SpentInv
  <2>1. SUFFICES ASSUME Init
                 PROVE  SpentInv
    OBVIOUS
  <2>2. \A t \in Tasks, k \in Tokens : attempt[t][k].worker = NoWorker
    BY <2>1 DEF Init, NoAttempt
  <2>3. \A w \in Workers : ClaimsOf(w) = {}
    BY <2>2, FleetAssumption DEF ClaimsOf
  <2>4. \A w \in Workers : worker[w].active = 0 /\ claim[w] = NoTask
    BY <2>1 DEF Init
  <2>5. QED
    <3>1. \A w \in Workers : Cardinality(ClaimsOf(w)) = 0
      BY <2>3, FS_EmptySet
    <3>2. ClaimsAreSpent
      BY <2>4, <3>1, FleetAssumption DEF ClaimsAreSpent
    <3>3. QED
      BY <2>2, <2>4, <3>2 DEF SpentInv
<1>2. FleetInv /\ SpentInv /\ [Next]_vars => SpentInv'
  BY SpentStep
<1>3. SpentInv => ClaimsAreSpent
  BY DEF SpentInv
<1>4. QED
  BY FleetInvariant, <1>1, <1>2, <1>3, PTL DEF Spec

-----------------------------------------------------------------------------
(* Refinement of FencedLedger: the leases and attempts of the database,    *)
(* written by workers, late threads and the sweeper, behave as one ledger  *)
(* of fenced grants.                                                       *)

\* The refinement mapping, as Fleet's Ledger instance substitutes it.
TokenOf  == [t \in Tasks |-> lease[t].token]
HeldOf   == [t \in Tasks |-> Valid(lease[t])]
LedgerOf == [t \in Tasks |-> [k \in Tokens |-> attempt[t][k].status]]

\* One attempt's new status is one new entry of the ledger.
LEMMA LedgerEntry ==
  ASSUME NEW t \in Tasks, NEW k \in Tokens, NEW status,
         \A u \in Tasks, j \in Tokens : attempt'[u][j].status =
           IF u = t /\ j = k THEN status ELSE attempt[u][j].status
  PROVE  LedgerOf' = [LedgerOf EXCEPT ![t] = [LedgerOf[t] EXCEPT ![k] = status]]
<1> DEFINE row(u) == [j \in Tokens |-> attempt'[u][j].status]
<1>1. ASSUME NEW u \in Tasks
      PROVE  row(u) = IF u = t THEN [LedgerOf[t] EXCEPT ![k] = status] ELSE LedgerOf[u]
  <2>1. CASE u = t
    BY <2>1 DEF LedgerOf
  <2>2. CASE u # t
    BY <2>2 DEF LedgerOf
  <2>3. QED
    BY <2>1, <2>2
<1>2. LedgerOf' = [u \in Tasks |-> row(u)]
  BY DEF LedgerOf
<1>3. LedgerOf = [u \in Tasks |-> LedgerOf[u]]
  BY DEF LedgerOf
<1> HIDE DEF row
<1>4. QED
  BY <1>1, <1>2, <1>3

\* Steps that change nothing the ledger shows.
LEMMA LedgerStutter ==
  ASSUME TokenOf' = TokenOf, HeldOf' = HeldOf, LedgerOf' = LedgerOf
  PROVE  UNCHANGED Ledger!vars
BY DEF TokenOf, HeldOf, LedgerOf, Ledger!vars

LEMMA LedgerTokens == Ledger!Tokens = Tokens
BY DEF Ledger!Tokens, Tokens

LEMMA LedgerInit == Init => Ledger!Init
<1> SUFFICES ASSUME Init PROVE Ledger!Init
  OBVIOUS
<1>1. TokenOf = [t \in Tasks |-> 0]
  BY DEF Init, TokenOf, NoLease
<1>2. HeldOf = [t \in Tasks |-> FALSE]
  <2>1. \A t \in Tasks : Valid(lease[t]) = FALSE
    BY DEF Init, NoLease, Valid
  <2>2. QED
    BY <2>1 DEF HeldOf
<1>3. LedgerOf = [t \in Tasks |-> [k \in Tokens |-> "none"]]
  BY DEF Init, LedgerOf, NoAttempt
<1>4. QED
  BY <1>1, <1>2, <1>3, LedgerTokens DEF Ledger!Init, TokenOf, HeldOf, LedgerOf

\* A claim takes the next token, whoever held the task.
LEMMA ClaimIsGrant ==
  ASSUME FleetInv, NEW w \in Workers, ClaimCommit(w)
  PROVE  Ledger!Next
<1> DEFINE t == claim[w]
           n == lease[t].token + 1
<1>1. t \in Tasks /\ lease[t] \in Lease /\ n \in Tokens /\ lease[t].token < MaxToken
  <2>1. t \in Tasks /\ lease[t] \in Lease /\ lease[t].token < MaxToken
    BY DEF FleetInv, TypeOK, ClaimCommit, RowLocked, ClaimInv
  <2>2. QED
    BY <2>1, FleetAssumption DEF Lease, Tokens
<1>2. TokenOf' = [TokenOf EXCEPT ![t] = TokenOf[t] + 1]
  <2>1. \A u \in Tasks : lease'[u].token = IF u = t THEN n ELSE lease[u].token
    BY <1>1 DEF ClaimCommit, FleetInv, TypeOK
  <2>2. QED
    BY <1>1, <2>1 DEF TokenOf
<1>3. HeldOf' = [HeldOf EXCEPT ![t] = TRUE]
  <2>1. \A u \in Tasks : Valid(lease'[u]) = IF u = t THEN TRUE ELSE Valid(lease[u])
    BY <1>1 DEF ClaimCommit, FleetInv, TypeOK, Valid
  <2>2. QED
    BY <1>1, <2>1 DEF HeldOf, Valid
<1>4. LedgerOf' = [LedgerOf EXCEPT ![t] = [LedgerOf[t] EXCEPT ![n] = "running"]]
  <2>1. ASSUME NEW u \in Tasks, NEW j \in Tokens
        PROVE  attempt'[u][j].status =
                 IF u = t /\ j = n THEN "running" ELSE attempt[u][j].status
    <3>1. CASE u = t /\ j = n
      BY <3>1, ClaimEffect
    <3>2. CASE ~(u = t /\ j = n)
      <4>1. attempt'[u][j] = attempt[u][j]
        BY <3>2, ClaimEffect
      <4>2. QED
        BY <3>2, <4>1
    <3>3. QED
      BY <3>1, <3>2
  <2> HIDE DEF t, n
  <2>2. QED
    BY <1>1, <2>1, LedgerEntry
\* r is rigid where claim[w] is a state function.
<1>5. ASSUME NEW r \in Tasks, r = t
      PROVE  Ledger!Grant(r)
  <2>1. TokenOf[r] = lease[r].token /\ lease[r].token < MaxToken
    BY <1>1, <1>5 DEF TokenOf
  <2>2. /\ TokenOf' = [TokenOf EXCEPT ![r] = TokenOf[r] + 1]
        /\ HeldOf' = [HeldOf EXCEPT ![r] = TRUE]
        /\ LedgerOf' = [LedgerOf EXCEPT ![r] = [LedgerOf[r] EXCEPT ![TokenOf[r] + 1] = "running"]]
    BY <1>2, <1>3, <1>4, <1>5, <2>1
  <2>3. QED
    BY <2>1, <2>2, LedgerTokens DEF Ledger!Grant, TokenOf, HeldOf, LedgerOf
<1>6. \E r \in Tasks : Ledger!Grant(r)
  BY <1>1, <1>5
<1>7. QED
  BY <1>6, Zenon DEF Ledger!Next

\* A thread closes its own open attempt, or changes nothing.
LEMMA ThreadCloses ==
  ASSUME FleetInv, NEW t \in Tasks, NEW k \in Tokens,
         NEW status \in {"completed", "failed", "fenced"},
         thread[t][k] # "none", lease' = lease,
         attempt' = AttemptWritten(t, k, status)
  PROVE  [Ledger!Next]_Ledger!vars
<1>1. TokenOf' = TokenOf /\ HeldOf' = HeldOf
  BY DEF TokenOf, HeldOf
<1>2. attempt[t][k].status # "none" /\ attempt[t][k].status \in AttemptStatus
  BY DEF FleetInv, TypeOK, ThreadInv, Attempt
<1>3. ASSUME NEW u \in Tasks, NEW j \in Tokens
      PROVE  attempt'[u][j].status =
               IF u = t /\ j = k /\ attempt[t][k].status \notin TerminalAttempt
                 THEN status ELSE attempt[u][j].status
  BY CloseEffect
<1>4. CASE attempt[t][k].status \in TerminalAttempt
  <2>1. \A u \in Tasks, j \in Tokens : attempt'[u][j].status = attempt[u][j].status
    BY <1>3, <1>4
  <2>2. LedgerOf' = LedgerOf
    BY <2>1 DEF LedgerOf
  <2>3. QED
    BY <1>1, <2>2, LedgerStutter
<1>5. CASE attempt[t][k].status \notin TerminalAttempt
  <2>1. attempt[t][k].status = "running"
    BY <1>2, <1>5 DEF TerminalAttempt
  <2>2. \A u \in Tasks, j \in Tokens : attempt'[u][j].status =
           IF u = t /\ j = k THEN status ELSE attempt[u][j].status
    BY <1>3, <1>5
  <2>3. LedgerOf' = [LedgerOf EXCEPT ![t] = [LedgerOf[t] EXCEPT ![k] = status]]
    BY <2>2, LedgerEntry
  <2>4. LedgerOf[t][k] = "running"
    BY <2>1 DEF LedgerOf
  <2>5. Ledger!Close(t, k, status)
    BY <1>1, <2>3, <2>4, LedgerTokens DEF Ledger!Close, TokenOf, HeldOf, LedgerOf
  <2>6. status \in Ledger!Closed
    BY DEF Ledger!Closed
  <2>7. QED
    BY <2>5, <2>6, LedgerTokens DEF Ledger!Next
<1>6. QED
  BY <1>4, <1>5

\* A release gives up a grant that is held, or changes nothing.
LEMMA ReleaseGivesUp ==
  ASSUME FleetInv, NEW t \in Tasks, NEW k \in Tokens,
         lease' = Released(t, k), attempt' = attempt
  PROVE  [Ledger!Next]_Ledger!vars
<1>0. TypeOK
  BY DEF FleetInv
<1>1. \A u \in Tasks : lease'[u].token = lease[u].token
  BY <1>0, ReleasedAt
<1>2. TokenOf' = TokenOf /\ LedgerOf' = LedgerOf
  BY <1>1 DEF TokenOf, LedgerOf
<1>4. CASE HeldBy(t, k) /\ Valid(lease[t])
  <2>1. \A u \in Tasks : Valid(lease'[u]) = IF u = t THEN FALSE ELSE Valid(lease[u])
    BY <1>0, <1>4, ReleasedAt DEF Valid
  <2>2. HeldOf' = [HeldOf EXCEPT ![t] = FALSE]
    BY <2>1 DEF HeldOf
  <2>3. HeldOf[t]
    BY <1>4 DEF HeldOf
  <2>4. Ledger!Release(t)
    BY <1>2, <2>2, <2>3, LedgerTokens DEF Ledger!Release, TokenOf, HeldOf, LedgerOf
  <2>5. QED
    BY <2>4 DEF Ledger!Next
<1>5. CASE ~(HeldBy(t, k) /\ Valid(lease[t]))
  <2>1. \A u \in Tasks : Valid(lease'[u]) = Valid(lease[u])
    BY <1>0, <1>5, ReleasedAt DEF Valid
  <2>2. HeldOf' = HeldOf
    BY <2>1 DEF HeldOf
  <2>3. QED
    BY <1>2, <2>2, LedgerStutter
<1>6. QED
  BY <1>4, <1>5

\* A sweep withdraws every orphan with its open attempt.
LEMMA SweepWithdraws ==
  ASSUME FleetInv, Sweep
  PROVE  Ledger!Next
<1>1. /\ lease \in [Tasks -> Lease] /\ \A u \in Tasks : lease[u] \in Lease
      /\ \A u \in Tasks, j \in Tokens : attempt[u][j] \in Attempt
  BY DEF FleetInv, TypeOK
<1>2. Orphaned \in SUBSET Tasks /\ \A u \in Orphaned : Valid(lease[u])
  BY DEF Orphaned
<1>3. TokenOf' = TokenOf
  <2>1. \A u \in Tasks : lease'[u].token = lease[u].token
    BY <1>1 DEF Sweep, Lease
  <2>2. QED
    BY <2>1 DEF TokenOf
<1>4. HeldOf' = [u \in Tasks |-> HeldOf[u] /\ u \notin Orphaned]
  <2>1. \A u \in Tasks : Valid(lease'[u]) = (Valid(lease[u]) /\ u \notin Orphaned)
    BY <1>1 DEF Sweep, Lease, Valid
  <2>2. QED
    BY <2>1 DEF HeldOf
<1>5. LedgerOf' = [u \in Tasks |-> [j \in Tokens |->
                     IF u \in Orphaned /\ j = TokenOf[u] /\ LedgerOf[u][j] = "running"
                       THEN "recovered" ELSE LedgerOf[u][j]]]
  <2>1. \A u \in Tasks, j \in Tokens : attempt'[u][j].status =
           IF u \in Orphaned /\ j = lease[u].token /\ attempt[u][j].status = "running"
             THEN "recovered" ELSE attempt[u][j].status
    BY <1>1 DEF Sweep, Attempt
  <2>2. QED
    BY <2>1 DEF LedgerOf, TokenOf
<1>6. ASSUME NEW S \in SUBSET Tasks, S = Orphaned
      PROVE  Ledger!Withdraw(S)
  <2>1. \A u \in S : HeldOf[u]
    BY <1>2, <1>6 DEF HeldOf
  <2>2. QED
    BY <1>3, <1>4, <1>5, <1>6, <2>1, LedgerTokens DEF Ledger!Withdraw, TokenOf, HeldOf, LedgerOf
<1>7. \E S \in SUBSET Tasks : Ledger!Withdraw(S)
  BY <1>2, <1>6
<1>8. QED
  BY <1>7, Zenon DEF Ledger!Next

LEMMA LedgerStep ==
  ASSUME FleetInv, [Next]_vars
  PROVE  [Ledger!Next]_Ledger!vars
<1>1. CASE \E w \in Workers : ClaimCommit(w)
  BY <1>1, ClaimIsGrant
<1>6. CASE lease' = lease /\ attempt' = attempt
  BY <1>6, LedgerStutter DEF TokenOf, HeldOf, LedgerOf
<1>2. ASSUME NEW t \in Tasks, NEW k \in Tokens, ReleaseLease(t, k) \/ DropLease(t, k)
      PROVE  [Ledger!Next]_Ledger!vars
  <2>1. attempt' = attempt /\ (lease' = Released(t, k) \/ lease' = lease)
    BY <1>2 DEF ReleaseLease, DropLease
  <2>2. QED
    BY <2>1, ReleaseGivesUp, <1>6
<1>3. CASE Sweep
  BY <1>3, SweepWithdraws
<1>4. ASSUME NEW t \in Tasks, LeaseRunsOut(t)
      PROVE  UNCHANGED Ledger!vars
  <2>1. \A u \in Tasks : lease[u] \in Lease /\ lease'[u].token = lease[u].token
                         /\ lease'[u].state = lease[u].state
    BY <1>4 DEF LeaseRunsOut, FleetInv, TypeOK, Lease
  <2>2. TokenOf' = TokenOf /\ HeldOf' = HeldOf /\ LedgerOf' = LedgerOf
    BY <1>4, <2>1 DEF LeaseRunsOut, TokenOf, HeldOf, LedgerOf, Valid
  <2>3. QED
    BY <2>2, LedgerStutter
<1>5. ASSUME NEW t \in Tasks, NEW k \in Tokens,
             FenceAttempt(t, k) \/ CompleteAttempt(t, k) \/ FailAttempt(t, k)
      PROVE  [Ledger!Next]_Ledger!vars
  <2>1. thread[t][k] # "none" /\ lease' = lease
    BY <1>5 DEF FenceAttempt, CompleteAttempt, FailAttempt, Step
  <2>2. \/ attempt' = attempt
        \/ \E s \in {"completed", "failed", "fenced"} : attempt' = AttemptWritten(t, k, s)
    BY <1>5 DEF FenceAttempt, CompleteAttempt, FailAttempt
  <2>3. CASE attempt' = attempt
    BY <2>1, <2>3, LedgerStutter DEF TokenOf, HeldOf, LedgerOf
  <2>4. CASE \E s \in {"completed", "failed", "fenced"} : attempt' = AttemptWritten(t, k, s)
    BY <2>1, <2>4, ThreadCloses
  <2>5. QED
    BY <2>2, <2>3, <2>4
<1>7. ASSUME Next, attempt' # attempt, lease' = lease
      PROVE  [Ledger!Next]_Ledger!vars
  BY <1>1, <1>3, <1>5, <1>7, AttemptWriters
<1>8. QED
  BY <1>1, <1>2, <1>3, <1>4, <1>6, <1>7, LeaseWriters DEF vars

\* The fleet's tables are a fenced ledger: tokens grow by one per claim, an
\* attempt is closed once, a sweep takes lease and attempt together
\* (claim_next_fair_task, update_attempt_status, sweep_orphaned_leases).
THEOREM FleetIsFenced == Spec => LedgerRefined
<1>1. Init => Ledger!Init
  BY LedgerInit
<1>2. FleetInv /\ [Next]_vars => [Ledger!Next]_Ledger!vars
  BY LedgerStep
<1>3. QED
  BY <1>1, <1>2, FleetInvariant, PTL DEF Spec, Ledger!Spec, LedgerRefined
=============================================================================
