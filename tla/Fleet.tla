-------------------------------- MODULE Fleet --------------------------------
(***************************************************************************)
(* The worker fleet: DistributedFleetWorker processes that claim tasks     *)
(* through PostgresFleetRepository, run them, and report under a fencing   *)
(* token, with the heartbeat that keeps a worker row alive and the         *)
(* recovery sweeper that takes work back.                                  *)
(*                                                                         *)
(* One action is one database transaction, except that a claim is two:     *)
(* it reads the tenant counters without a lock (ClaimSelect) and writes    *)
(* later (ClaimCommit), holding the worker row and the task row between.   *)
(*                                                                         *)
(* Time is abstract.  lease[t].live is "now < expires_at"; LeaseRunsOut    *)
(* lets it pass, and a renewal (batch_renew_worker_leases) is the delay of *)
(* that step.  A worker may miss any number of heartbeats at any moment.   *)
(***************************************************************************)
EXTENDS Naturals, FiniteSets

CONSTANTS
  Workers,            \* worker ids
  NoWorker,           \* in a lease nobody was granted yet
  Tasks,              \* task ids
  NoTask,             \* no claim in progress
  Tenants,            \* user ids
  TenantOf,           \* [Tasks -> Tenants]: tasks.user_id
  MaxActive,          \* [Tenants -> Nat]: max_active_tasks
  ConcurrencyLimit,   \* concurrency_limit of every worker
  MaxToken,           \* bound on the claims of one task
  MaxIncarnation      \* bound on the starts of one worker

ASSUME FleetAssumption ==
  /\ NoWorker \notin Workers
  /\ NoTask \notin Tasks
  /\ IsFiniteSet(Tasks)
  /\ TenantOf \in [Tasks -> Tenants]
  /\ MaxActive \in [Tenants -> Nat \ {0}]
  /\ ConcurrencyLimit \in Nat \ {0}
  /\ MaxToken \in Nat
  /\ MaxIncarnation \in Nat

VARIABLES
  worker,   \* workers: [status, inc, active], one row per worker id
  proc,     \* what the worker's process is doing
  claim,    \* the task row a worker's open claim transaction has locked
  task,     \* tasks.status
  lease,    \* worker_leases: [worker, inc, token, state, live]
  attempt,  \* execution_attempts, by task and fencing token
  thread,   \* where _execute_claimed_task is, by task and fencing token
  count     \* tenant_worker_limits.active_task_count

vars == <<worker, proc, claim, task, lease, attempt, thread, count>>

Tokens == 1..MaxToken
Incarnations == 0..MaxIncarnation

WorkerStatus  == {"absent", "healthy", "draining", "unhealthy", "stopped", "expired"}
TaskStatus    == {"pending", "running", "awaiting_approval",
                  "completed", "failed", "cancelled"}
LeaseState    == {"none", "active", "released", "expired"}
AttemptStatus == {"none", "running", "completed", "failed", "fenced", "recovered"}
ThreadState   == {"none", "run", "repeat", "verify", "fence", "complete", "release", "adjust",
                  "fail", "drop", "forget", "gone", "forgot"}

TerminalTask    == {"completed", "failed", "cancelled"}
TerminalAttempt == AttemptStatus \ {"none", "running"}

Lease   == [worker : Workers \cup {NoWorker}, inc : Incarnations,
            token : 0..MaxToken, state : LeaseState, live : BOOLEAN]
Attempt == [worker : Workers \cup {NoWorker}, inc : Incarnations,
            status : AttemptStatus]

NoLease   == [worker |-> NoWorker, inc |-> 0, token |-> 0,
              state |-> "none", live |-> FALSE]
NoAttempt == [worker |-> NoWorker, inc |-> 0, status |-> "none"]

TypeOK ==
  /\ worker  \in [Workers -> [status : WorkerStatus, inc : Incarnations, active : Nat]]
  /\ proc    \in [Workers -> {"down", "up", "draining"}]
  /\ claim   \in [Workers -> Tasks \cup {NoTask}]
  /\ task    \in [Tasks -> TaskStatus]
  /\ lease   \in [Tasks -> Lease]
  /\ attempt \in [Tasks -> [Tokens -> Attempt]]
  /\ thread  \in [Tasks -> [Tokens -> ThreadState]]
  /\ count   \in [Tenants -> Nat]

Init ==
  /\ worker  = [w \in Workers |-> [status |-> "absent", inc |-> 0, active |-> 0]]
  /\ proc    = [w \in Workers |-> "down"]
  /\ claim   = [w \in Workers |-> NoTask]
  /\ task    = [t \in Tasks |-> "pending"]
  /\ lease   = [t \in Tasks |-> NoLease]
  /\ attempt = [t \in Tasks |-> [k \in Tokens |-> NoAttempt]]
  /\ thread  = [t \in Tasks |-> [k \in Tokens |-> "none"]]
  /\ count   = [n \in Tenants |-> 0]

-----------------------------------------------------------------------------
(* Reading the tables.                                                     *)

Valid(l) == l.state = "active"

\* The worker row and the task row a claim transaction holds FOR UPDATE.
RowLocked(w)  == claim[w] # NoTask
TaskLocked(t) == \E w \in Workers : claim[w] = t

\* The key every fenced statement matches: holder, incarnation and token.
HeldBy(t, k) ==
  /\ lease[t].token = k
  /\ lease[t].worker = attempt[t][k].worker
  /\ lease[t].inc = attempt[t][k].inc

Alive(t, k) == thread[t][k] \notin {"none", "gone", "forgot"}

ThreadsOf(w) ==
  {p \in Tasks \X Tokens : attempt[p[1]][p[2]].worker = w /\ Alive(p[1], p[2])}

LeasesOf(n) == {t \in Tasks : TenantOf[t] = n /\ Valid(lease[t]) /\ lease[t].live}

\* Mutants of the transition table: a running task cannot be completed; a
\* cancelled task can.
SourcesNotRunning(status) ==
  CASE status = "awaiting_approval" -> {"running", "awaiting_approval"}
    [] status = "completed"         -> {"pending"}
    [] OTHER                        -> {"pending", "running", "awaiting_approval"}

SourcesReviving(status) ==
  CASE status = "awaiting_approval" -> {"running", "awaiting_approval"}
    [] status = "completed"         -> {"pending", "running", "cancelled"}
    [] OTHER                        -> {"pending", "running", "awaiting_approval"}

\* update_task_status and its transition table: a write the table forbids
\* changes nothing.
Sources(status) ==
  CASE status = "awaiting_approval" -> {"running", "awaiting_approval"}
    [] status = "completed"         -> {"pending", "running"}
    [] status = "failed"            -> {"pending", "running", "awaiting_approval"}
    [] status = "cancelled"         -> {"pending", "running", "awaiting_approval", "cancelled"}

Written(t, status) ==
  [task EXCEPT ![t] = IF task[t] \in Sources(status) THEN status ELSE @]

-----------------------------------------------------------------------------
(* The worker's life.                                                      *)

\* start: register_worker with a fresh incarnation token.  The conflict
\* clause replaces the status and keeps active_task_count.
Start(w) ==
  /\ proc[w] = "down"
  /\ worker[w].inc < MaxIncarnation
  /\ worker' = [worker EXCEPT ![w].status = "healthy", ![w].inc = @ + 1]
  /\ proc'   = [proc EXCEPT ![w] = "up"]
  /\ UNCHANGED <<claim, task, lease, attempt, thread, count>>

\* The process dies: its threads with it, and its open transaction rolls back.
Crash(w) ==
  /\ proc[w] # "down"
  /\ proc'   = [proc EXCEPT ![w] = "down"]
  /\ claim'  = [claim EXCEPT ![w] = NoTask]
  /\ thread' = [t \in Tasks |-> [k \in Tokens |->
                  IF Alive(t, k) /\ attempt[t][k].worker = w
                    THEN IF thread[t][k] = "forget" THEN "forgot" ELSE "gone"
                    ELSE thread[t][k]]]
  /\ UNCHANGED <<worker, task, lease, attempt, count>>

\* drain: the poll loop stops, and the row says so whatever it said before;
\* an update that fails is logged and the drain goes on.
Drain(w) ==
  /\ proc[w] = "up"
  /\ ~RowLocked(w)
  /\ proc'   = [proc EXCEPT ![w] = "draining"]
  /\ worker' \in {worker, [worker EXCEPT ![w].status = "draining"]}
  /\ UNCHANGED <<claim, task, lease, attempt, thread, count>>

\* The rest of stop: the pool has been waited for, the row is unregistered.
Stop(w) ==
  /\ proc[w] = "draining"
  /\ ~RowLocked(w)
  /\ ThreadsOf(w) = {}
  /\ proc'   = [proc EXCEPT ![w] = "down"]
  /\ worker' = [worker EXCEPT ![w].status = "stopped"]
  /\ UNCHANGED <<claim, task, lease, attempt, thread, count>>

\* WorkerFleetCoordinator.drain_worker: only the row, not the process.
CoordinatorDrain(w) ==
  /\ worker[w].status # "absent"
  /\ ~RowLocked(w)
  /\ worker' = [worker EXCEPT ![w].status = "draining"]
  /\ UNCHANGED <<proc, claim, task, lease, attempt, thread, count>>

\* pulse_once that reaches the database.
Heartbeat(w) ==
  /\ proc[w] # "down"
  /\ ~RowLocked(w)
  /\ worker[w].status = "unhealthy"
  /\ worker' = [worker EXCEPT ![w].status = "healthy"]
  /\ UNCHANGED <<proc, claim, task, lease, attempt, thread, count>>

\* Mutant: the claim transaction has not locked its worker row.
HeartbeatFailedUnlocked(w) ==
  /\ proc[w] # "down"
  /\ worker' = [worker EXCEPT ![w].status = "unhealthy"]
  /\ UNCHANGED <<proc, claim, task, lease, attempt, thread, count>>

\* _handle_failure at the threshold: the row becomes unhealthy whatever it
\* was, expired, draining and stopped included.
HeartbeatFailed(w) ==
  /\ proc[w] # "down"
  /\ ~RowLocked(w)
  /\ worker' = [worker EXCEPT ![w].status = "unhealthy"]
  /\ UNCHANGED <<proc, claim, task, lease, attempt, thread, count>>

-----------------------------------------------------------------------------
(* Claiming.                                                               *)

Admissible(t) ==
  /\ task[t] = "pending"
  /\ count[TenantOf[t]] < MaxActive[TenantOf[t]]
  /\ ~TaskLocked(t)

\* utilization_ratio compared without dividing
LessUtilized(n, m) == count[n] * MaxActive[m] < count[m] * MaxActive[n]

\* Mutant: only the process itself looks at its limit.
ClaimSelectLocal(w, t) ==
  /\ proc[w] = "up"
  /\ ~RowLocked(w)
  /\ Cardinality(ThreadsOf(w)) < ConcurrencyLimit
  /\ worker[w].status = "healthy"
  /\ lease[t].token < MaxToken
  /\ Admissible(t)
  /\ \A u \in Tasks : Admissible(u) => ~LessUtilized(TenantOf[u], TenantOf[t])
  /\ claim' = [claim EXCEPT ![w] = t]
  /\ UNCHANGED <<worker, proc, task, lease, attempt, thread, count>>

ClaimSelect(w, t) ==
  /\ proc[w] = "up"
  /\ ~RowLocked(w)
  /\ Cardinality(ThreadsOf(w)) < ConcurrencyLimit
  /\ worker[w].status = "healthy"
  /\ worker[w].active < ConcurrencyLimit
  /\ lease[t].token < MaxToken
  /\ Admissible(t)
  /\ \A u \in Tasks : Admissible(u) => ~LessUtilized(TenantOf[u], TenantOf[t])
  /\ claim' = [claim EXCEPT ![w] = t]
  /\ UNCHANGED <<worker, proc, task, lease, attempt, thread, count>>

\* The lease is taken over whatever its state: the new token fences it off.
ClaimCommit(w) ==
  /\ RowLocked(w)
  /\ LET t == claim[w]
         k == lease[t].token + 1
     IN
     /\ lease'   = [lease EXCEPT ![t] =
                      [worker |-> w, inc |-> worker[w].inc, token |-> k,
                       state |-> "active", live |-> TRUE]]
     /\ attempt' = [attempt EXCEPT ![t][k] =
                      [worker |-> w, inc |-> worker[w].inc, status |-> "running"]]
     /\ thread'  = [thread EXCEPT ![t][k] = "run"]
     /\ count'   = [count EXCEPT ![TenantOf[t]] = @ + 1]
     /\ task'    = [task EXCEPT ![t] = "running"]
  /\ worker' = [worker EXCEPT ![w].active = @ + 1]
  /\ claim'  = [claim EXCEPT ![w] = NoTask]
  /\ UNCHANGED proc

-----------------------------------------------------------------------------
(* _execute_claimed_task, one transaction at a time.  "fail", "drop" and   *)
(* "forget" are its exception handler, which swallows the failure of each  *)
(* of its own calls; "forgot" is a thread that ended there.                *)

Step(t, k, from, to) ==
  /\ thread[t][k] = from
  /\ thread' = [thread EXCEPT ![t][k] = to]

\* The orchestrator's last status write: it does not carry the token.
\* Cancellation is seen in the task row, or in the token stop() sets.  A
\* completion the table rejects reports the status the task has by then.
Execute(t, k, outcome) ==
  /\ Step(t, k, "run",
          IF outcome = "completed" /\ task[t] \in Sources("completed") \cup {"completed"}
            THEN "repeat" ELSE "verify")
  /\ ~TaskLocked(t)
  /\ outcome = "cancelled" =>
       task[t] = "cancelled" \/ proc[attempt[t][k].worker] = "draining"
  /\ task' = Written(t, outcome)
  /\ UNCHANGED <<worker, proc, claim, lease, attempt, count>>

\* The worker writes a completed outcome once more, and ignores an error.
RepeatCompletion(t, k) ==
  /\ ~TaskLocked(t)
  /\ Step(t, k, "repeat", "verify")
  /\ task' \in {task, Written(t, "completed")}
  /\ UNCHANGED <<worker, proc, claim, lease, attempt, count>>

\* Mutant: a closed attempt is overwritten.
AttemptRewritten(t, k, status) == [attempt EXCEPT ![t][k].status = status]

\* update_attempt_status leaves a closed attempt as it is.
AttemptWritten(t, k, status) ==
  [attempt EXCEPT ![t][k].status = IF @ \in TerminalAttempt THEN @ ELSE status]

VerifyFencing(t, k) ==
  /\ Step(t, k, "verify",
          IF HeldBy(t, k) /\ Valid(lease[t]) /\ lease[t].live THEN "complete" ELSE "fence")
  /\ UNCHANGED <<worker, proc, claim, task, lease, attempt, count>>

\* A fenced thread reports and ends: it neither releases nor adjusts.
FenceAttempt(t, k) ==
  /\ Step(t, k, "fence", "gone")
  /\ attempt' = AttemptWritten(t, k, "fenced")
  /\ UNCHANGED <<worker, proc, claim, task, lease, count>>

\* Mutant: the attempt is not closed before the lease is released.
CompleteAttemptSkipped(t, k) ==
  /\ Step(t, k, "complete", "release")
  /\ UNCHANGED <<worker, proc, claim, task, lease, attempt, count>>

CompleteAttempt(t, k) ==
  /\ Step(t, k, "complete", "release")
  /\ attempt' = AttemptWritten(t, k, "completed")
  /\ UNCHANGED <<worker, proc, claim, task, lease, count>>

\* release_lease looks at the key and not at the state.
Released(t, k) ==
  IF HeldBy(t, k) THEN [lease EXCEPT ![t].state = "released"] ELSE lease

ReleaseLease(t, k) ==
  /\ Step(t, k, "release", "adjust")
  /\ lease' = Released(t, k)
  /\ UNCHANGED <<worker, proc, claim, task, attempt, count>>

\* The orchestrator or a repository call raises.
Raise(t, k) ==
  /\ thread[t][k] \in {"run", "verify", "fence", "complete", "release"}
  /\ thread' = [thread EXCEPT ![t][k] = "fail"]
  /\ UNCHANGED <<worker, proc, claim, task, lease, attempt, count>>

FailAttempt(t, k) ==
  /\ Step(t, k, "fail", "drop")
  /\ attempt' \in {attempt, AttemptWritten(t, k, "failed")}
  /\ UNCHANGED <<worker, proc, claim, task, lease, count>>

DropLease(t, k) ==
  /\ Step(t, k, "drop", "forget")
  /\ lease' \in {lease, Released(t, k)}
  /\ UNCHANGED <<worker, proc, claim, task, attempt, count>>

\* Mutant: the counter underflows.
Decremented(n) == [count EXCEPT ![n] = @ - 1]

\* adjust_tenant_active_count(-1): the CHECK constraint refuses to underflow.
Adjusted(n) == [count EXCEPT ![n] = IF @ > 0 THEN @ - 1 ELSE @]

\* The last call of both paths; its failure is logged or swallowed.
AdjustTenant(t, k) ==
  /\ Step(t, k, "adjust", "gone") \/ Step(t, k, "forget", "forgot")
  /\ count' \in {count, Adjusted(TenantOf[t])}
  /\ UNCHANGED <<worker, proc, claim, task, lease, attempt>>

-----------------------------------------------------------------------------
(* The recovery sweeper, time, and the other writers of the task row.      *)

\* reap_expired_workers, for the rows whose heartbeat is too old by now.
Reap(S) ==
  /\ \A w \in S : worker[w].status \in {"healthy", "unhealthy", "draining"} /\ ~RowLocked(w)
  /\ worker' = [w \in Workers |->
                  IF w \in S THEN [worker[w] EXCEPT !.status = "expired"] ELSE worker[w]]
  /\ UNCHANGED <<proc, claim, task, lease, attempt, thread, count>>

LeaseRunsOut(t) ==
  /\ lease[t].live
  /\ lease' = [lease EXCEPT ![t].live = FALSE]
  /\ UNCHANGED <<worker, proc, claim, task, attempt, thread, count>>

\* Mutant: only dead workers are swept, not leases that ran out.
OrphanedByWorker ==
  {t \in Tasks : Valid(lease[t]) /\
     worker[lease[t].worker].status \in {"expired", "stopped", "unhealthy"}}

\* The join is on the worker id: an unhealthy worker counts as dead.
Orphaned ==
  {t \in Tasks : Valid(lease[t]) /\
     (~lease[t].live \/ worker[lease[t].worker].status \in {"expired", "stopped", "unhealthy"})}

Swept(n) == Cardinality({t \in Orphaned : TenantOf[t] = n})

\* sweep_orphaned_leases: every orphan in one transaction.
Sweep ==
  /\ Orphaned # {}
  /\ lease'   = [t \in Tasks |->
                   IF t \in Orphaned THEN [lease[t] EXCEPT !.state = "expired"] ELSE lease[t]]
  /\ attempt' = [t \in Tasks |-> [k \in Tokens |->
                   IF t \in Orphaned /\ k = lease[t].token /\ attempt[t][k].status = "running"
                     THEN [attempt[t][k] EXCEPT !.status = "recovered"] ELSE attempt[t][k]]]
  /\ count'   = [n \in Tenants |-> IF count[n] > Swept(n) THEN count[n] - Swept(n) ELSE 0]
  /\ task'    = [t \in Tasks |->
                   IF t \in Orphaned /\ task[t] = "running" THEN "pending" ELSE task[t]]
  /\ UNCHANGED <<worker, proc, claim, thread>>

Reconcile ==
  /\ count' = [n \in Tenants |-> Cardinality(LeasesOf(n))]
  /\ UNCHANGED <<worker, proc, claim, task, lease, attempt, thread>>

\* decide_approval on a halted task: back to the queue, or failed.
DecideApproval(t, status) ==
  /\ task[t] = "awaiting_approval"
  /\ ~TaskLocked(t)
  /\ task' = [task EXCEPT ![t] = status]
  /\ UNCHANGED <<worker, proc, claim, lease, attempt, thread, count>>

CancelTask(t) ==
  /\ task[t] \in {"pending", "running", "awaiting_approval"}
  /\ ~TaskLocked(t)
  /\ task' = [task EXCEPT ![t] = "cancelled"]
  /\ UNCHANGED <<worker, proc, claim, lease, attempt, thread, count>>

\* recover_stale_tasks, run by any BackgroundTaskWorker that starts.
RecoverStaleTask(t) ==
  /\ task[t] = "running"
  /\ task' = [task EXCEPT ![t] = "failed"]
  /\ UNCHANGED <<worker, proc, claim, lease, attempt, thread, count>>

-----------------------------------------------------------------------------
WorkerNext(w) ==
  \/ Start(w) \/ Crash(w) \/ Drain(w) \/ Stop(w) \/ CoordinatorDrain(w)
  \/ Heartbeat(w) \/ HeartbeatFailed(w) \/ ClaimCommit(w)
  \/ \E t \in Tasks : ClaimSelect(w, t)

ThreadNext(t, k) ==
  \/ \E outcome \in TerminalTask \cup {"awaiting_approval"} : Execute(t, k, outcome)
  \/ RepeatCompletion(t, k) \/ VerifyFencing(t, k) \/ FenceAttempt(t, k)
  \/ CompleteAttempt(t, k) \/ ReleaseLease(t, k) \/ AdjustTenant(t, k)
  \/ Raise(t, k) \/ FailAttempt(t, k) \/ DropLease(t, k)

TaskNext(t) ==
  \/ LeaseRunsOut(t) \/ CancelTask(t) \/ RecoverStaleTask(t)
  \/ \E status \in {"pending", "failed"} : DecideApproval(t, status)

SweeperNext == (\E S \in SUBSET Workers \ {{}} : Reap(S)) \/ Sweep \/ Reconcile

Next ==
  \/ \E w \in Workers : WorkerNext(w)
  \/ \E t \in Tasks, k \in Tokens : ThreadNext(t, k)
  \/ \E t \in Tasks : TaskNext(t)
  \/ SweeperNext

Spec == Init /\ [][Next]_vars

\* The sweeper thread loops for ever, and time passes: a lease nobody renews
\* runs out.  Only the holder's own incarnation renews it.
HolderGone(t) ==
  LET w == lease[t].worker
  IN w \in Workers /\ (proc[w] = "down" \/ worker[w].inc # lease[t].inc)

FairSpec ==
  /\ Spec
  /\ WF_vars(Sweep)
  /\ \A t \in Tasks : WF_vars(HolderGone(t) /\ LeaseRunsOut(t))

-----------------------------------------------------------------------------
(* Properties.                                                             *)

\* Leases and attempts together are a fenced ledger: tokens only grow, by
\* one per claim; an attempt is closed once; a sweep takes the lease and
\* closes the attempt in one step (claim_next_fair_task, update_attempt_status,
\* release_lease and sweep_orphaned_leases of postgres_fleet.py).
Ledger == INSTANCE FencedLedger WITH
  Resources <- Tasks,
  token     <- [t \in Tasks |-> lease[t].token],
  held      <- [t \in Tasks |-> Valid(lease[t])],
  ledger    <- [t \in Tasks |-> [k \in Tokens |-> attempt[t][k].status]]

LedgerRefined == Ledger!Spec

\* The newest execution of the task raised, and its handler got past the
\* release of the lease.
GaveUp(t) ==
  \E k \in Tokens : k = lease[t].token /\ thread[t][k] \in {"forget", "forgot"}

\* The newest attempt of a task is open only while its lease is valid: the
\* worker closes it before it releases, the sweeper with the lease, and a
\* thread past verify_fencing that lost its lease meanwhile cannot complete.
\* Only the exception handler may lose the close and release all the same.
OpenAttemptIsLeased ==
  \A t \in Tasks, k \in Tokens :
    k = lease[t].token /\ attempt[t][k].status = "running" => Valid(lease[t]) \/ GaveUp(t)

\* A running task can be recovered: its lease is one the sweeper will look
\* at, unless the exception handler of _execute_claimed_task released it:
\* that handler leaves the task row as it is.
RunningTaskIsRecoverable ==
  \A t \in Tasks : task[t] = "running" => Valid(lease[t]) \/ GaveUp(t)

\* A valid lease is released only by the thread it was granted to, however
\* late the thread of an earlier token gets to its release_lease.
ReleasedByItsHolder ==
  [][\A t \in Tasks : Valid(lease[t]) /\ lease'[t].state = "released" =>
       \E k \in Tokens : k = lease[t].token /\ thread[t][k] \in {"release", "drop"}]_vars

\* A lease is granted only to a worker whose row is healthy in that very
\* state, drains, reaps and failed heartbeats during the claim included.
HealthyClaimGate ==
  [][\A t \in Tasks : lease'[t].token # lease[t].token =>
       \E w \in Workers : /\ lease'[t].worker = w
                          /\ worker[w].status = "healthy"
                          /\ worker[w].inc = lease'[t].inc]_vars

\* No worker, zombie, sweeper or claim moves a task out of a terminal status.
TerminalTaskStays ==
  [][\A t \in Tasks : task[t] \in TerminalTask => task'[t] = task[t]]_vars

\* M55-F08, and why it holds: a claim counts one up in the worker's row, and
\* nothing ever counts down, restarts included, so that concurrency_limit
\* bounds the claims of the worker's life and not only those it executes
\* (claim_next_fair_task, register_worker).
ClaimsOf(w) == {p \in Tasks \X Tokens : attempt[p[1]][p[2]].worker = w}

ClaimsAreSpent ==
  \A w \in Workers :
    /\ worker[w].active = Cardinality(ClaimsOf(w))
    /\ Cardinality(ClaimsOf(w)) <= ConcurrencyLimit

\* A task whose worker died under a valid lease does not stay running: the
\* lease runs out and the sweeper takes the task back.
OrphanIsRecovered ==
  \A t \in Tasks :
    (task[t] = "running" /\ Valid(lease[t]) /\ HolderGone(t)) ~> task[t] # "running"

\* M55-F05 of docs/m55_architecture_and_design.md: an execution writes the
\* task's outcome only under the task's current fencing token.
ZombieWriteRejected ==
  [][\A t \in Tasks, k \in Tokens :
       thread[t][k] \in {"run", "repeat"} /\ thread'[t][k] # thread[t][k] /\ task'[t] # task[t]
         => lease[t].token = k]_vars

\* max_active_tasks is the ceiling on a tenant's tasks in flight, over the
\* whole fleet (docs/m55_architecture_and_design.md, 4.1).
TenantCeiling ==
  \A n \in Tenants : Cardinality(LeasesOf(n)) <= MaxActive[n]

=============================================================================
