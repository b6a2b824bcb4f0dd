# AURA: a verification project

TLA+ models of the parts of AURA in which several processes, database
transactions and failures meet, the TLC runs that check them on small
instances, and TLAPS proofs of the properties that matter most. The source is
the reference: each action is a handler or a transaction of the code, and
`PROJECT.json` gives, for every definition, the lines it stands for.

- [1. The system](#1-the-system)
- [2. Modules](#2-modules)
- [3. Runs, bounds and results](#3-runs-bounds-and-results)
- [4. Fairness](#4-fairness)
- [5. Proofs](#5-proofs)
- [6. Where code and documents disagree](#6-where-code-and-documents-disagree)
- [7. What is abstracted, and what is not modelled](#7-what-is-abstracted-and-what-is-not-modelled)
- [8. Plan](#8-plan)

## 1. The system

AURA is an agent server. An HTTP process accepts work, stores it in PostgreSQL
and runs it in worker threads; several such processes may share one database.
The parts with state and concurrency of their own:

| Part | State | Operations | Talks to | What is hard | What makes it correct |
|---|---|---|---|---|---|
| Worker fleet (M55, `core/fleet`, `postgres_fleet.py`) | rows `workers`, `worker_leases`, `execution_attempts`, `tenant_worker_limits`; per process the poll loop, heartbeat thread and pool threads | start, drain, stop, heartbeat, fair claim, execute and report under a fencing token, reap, sweep, reconcile | task table, orchestrator, approvals | late workers, crashes between transactions, missed heartbeats, a claim racing a drain, two claims of one tenant | a token names one execution; an open attempt is leased; no running task is out of the sweeper's sight; terminal tasks stay terminal |
| Background tasks and approvals (M52, `core/background`, `postgres_task.py`, `postgres_approval.py`) | rows `tasks`, `task_steps`, `approval_requests`; per execution the loop index and the cancellation token | submit, acquire, plan, run steps, halt for approval, resume, decide, expire, cancel, recover stale | tools, model gateway, event broadcaster, the fleet (same table) | a decision racing the halt, cancellation races, crashes between step writes, resumption | one execution at a time, a sensitive tool runs only when approved, no step twice, none left out |
| Webhook gateway (M54, `core/webhooks`, `postgres_webhook.py`) | rows `inbound_events`, `event_deliveries`, `tenant_webhook_capacities`, `dead_letter_events` | admit, lease, dispatch, mark, deliver, retry, dead-letter, reclaim and reconcile | task table, external HTTP targets | duplicate requests, expired leases, late marks, counters | one event per provider id, the counter is exact, bounded sends, late workers change nothing |
| Automations (M53, `core/automations`, `postgres_automation.py`) | rows `automations`, `automation_runs`, `tenant_hourly_usage`; per process the batch of a tick | create, pause, resume, trigger, patch, delete; tick, claim, evaluate the condition, dispatch in one fenced transaction, release, recover leases | task table, model gateway | two schedulers, a lease that expires in the middle of a dispatch, an edit during the evaluation | one task per key, the hourly charge equals the tasks created, a live lease ends only through its holder or the user, and only its holder dispatches |
| Model gateway and circuit breaker (M51, `core/model_gateway.py`, `core/circuit_breaker.py`) | per provider a state, failure and success counts and a canary flag under a lock; per request the chain walked so far | generate: select, ask the breaker, call, record, fall through | model providers | results that arrive in another state than the one that admitted the call; skipped candidates use up attempts | bounded attempts, the chain is exhausted before giving up, coherent breakers, every request ends |
| Goals (`core/goal_engine.py`, `goal_scheduler.py`, `resource_budget.py`, `resource_locks.py`, `agentic_runtime.py`, `clarification.py`) | goal store, scheduler tasks, active-goal slots, lock table with TTL, pending requests; per thread a copy of the goal | create, link to a parent, pause, resume, cancel, evaluate, step the scheduler, acquire and release | reasoner, executor, teams | the supervisor and users evaluate goals in several threads, each writing back whole copies; clean-up frees by goal, not by execution; leases run out during executions; evaluations raise | no goal runs before what it depends on, executions exclude each other while their leases last, no goal is forgotten |
| Agent mesh (M59, `core/agent_mesh`, `postgres_agent_mesh.py`) | rows `agent_runs`, `agent_delegations`; per request a stack of executions with their copies | create, execute, delegate, cancel with its cascade, pause, resume, purge | tools, planner | read, decide and upsert in separate transactions; crashes and failing statements | a running run is executed by somebody, a delegation is one level down, an ended run is not started again |
| Campaigns, saga and self-healing (`core/campaign_engine.py`, `mission_graph.py`, `saga_coordinator.py`, `self_healing_orchestrator.py`) | per campaign a status, a graph of phases, a bounded log of saga steps; healing attempts and history per phase | submit, execute, cancel, roll back; compensate a phase or everything, heal a phase | goal engine, teams, artifacts, locks | several threads execute, cancel and roll back one campaign; stale copies of phases; the log loses its oldest steps; three locks | no effect is undone twice, a campaign that says it runs is being run, phases and effects agree |
| In-process services: sessions, teams, memory, rate limiter | dictionaries under one lock | create, read, update | one another | little: one lock, or one thread | mostly functional |
| Providers, tools, platform adapters, multimodal, research, retrieval, evaluation | none, or data | calls | outside world | I/O and data | out of scope here |

`PROJECT.json` lists all 37 components with their sources and status, and the
hazards of the code at their lines.

How the parts interact: `POST /v1/tasks` and the inbound dispatcher insert rows
into `tasks`; a `BackgroundTaskWorker` or a fleet worker takes pending rows and
calls `WorkflowOrchestrator.execute_task`, which stores steps, halts in
`awaiting_approval` and is called again after `decide_approval` has put the row
back to `pending`. The fleet's sweeper puts rows of dead workers back as well.
The `tasks.status` column, guarded by the transition table in
`update_task_status`, is the one piece of state that all of them write.

## 2. Modules

| Module | What it is |
|---|---|
| `FencedLedger` | Abstract: grants of a resource under growing tokens, each with one entry in a ledger that is closed once. No workers, rows or sweeper. `Fleet` implements it with its leases and attempts, `Webhooks` twice: with the inbound events and with the outbound deliveries. |
| `ApprovedPlan` | Abstract: what a task promises of its plan (steps in order, each started once, the sensitive ones after an approval, completed only as a whole). No executions, queue or sweeps. `TaskWorkflow` implements it. |
| `Fleet` | The fleet over PostgreSQL, one action per transaction. |
| `MCFleet` | Small instances of `Fleet`. |
| `FleetProofs` | Inductive invariant of `Fleet`, the theorems drawn from it, and the proof that `Fleet` implements `FencedLedger`. |
| `TaskWorkflow` | Tasks, steps, approvals and the execution loop, one action per repository call. |
| `MCTaskWorkflow`, `TaskWorkflowProofs` | Its instances and its proofs. |
| `Webhooks`, `MCWebhooks`, `WebhooksProofs` | Admission, inbound dispatch, outbound delivery, maintenance; its instance and proofs. |
| `CircuitBreaker` | The breaker of one provider: each method as an operator on its record. |
| `Gateway`, `MCGateway`, `GatewayProofs` | Composes one breaker per provider with the requests that share them; its instance and proofs. |
| `Automations`, `MCAutomations`, `AutomationsProofs` | Schedules, schedulers, dispatch and edits, one action per transaction; its instance and proofs. |
| `Goals`, `MCGoals`, `GoalsProofs` | Goal engine, scheduler, budget, locks and clarification requests of one process; its instance and proofs. |
| `Campaigns`, `MCCampaigns`, `CampaignsProofs` | A mission campaign with its phases, its saga and its healing, executed and cancelled by several threads of one process; its instance and proofs. |
| `AgentMesh`, `MCAgentMesh`, `AgentMeshProofs` | Agent runs executed inside HTTP requests, one action per statement; its instance and proofs. |

Operators whose comment begins with "Mutant" are not part of a specification:
each is a faulty variant of the definition it precedes, kept to show that a
property would notice the fault (`PROJECT.json`, "mutants").

### Fleet

| State | Code |
|---|---|
| `worker[w]` = status, incarnation, active | row of `workers`; `active` is `active_task_count` |
| `proc[w]` | the process: down, up (poll loop running), draining |
| `claim[w]` | the task row locked by an open `claim_next_fair_task` |
| `task[t]` | `tasks.status` |
| `lease[t]` | row of `worker_leases`; `live` is `now < expires_at` |
| `attempt[t][k]` | row of `execution_attempts` with fencing token `k` |
| `thread[t][k]` | where `_execute_claimed_task` is for that token |
| `count[n]` | `tenant_worker_limits.active_task_count` |

`claim_next_fair_task` is the only transaction that is split: its candidate
query reads the tenant counters without a lock (`FOR UPDATE OF t`), and the
counters are written later, so that `ClaimSelect` and `ClaimCommit` are two
steps with the worker row and the task row locked in between. Every step of
`_execute_claimed_task` that touches the database is an action of its own:
`Execute` (the orchestrator's last status write), `RepeatCompletion`,
`VerifyFencing`, `FenceAttempt`, `CompleteAttempt`, `ReleaseLease`,
`AdjustTenant`; `Raise`, `FailAttempt` and `DropLease` are its exception
handler, whose calls may each fail silently. A crash may fall between any two.

### TaskWorkflow

| State | Code |
|---|---|
| `task[t]`, `born` | `tasks.status`; the order of `created_at` |
| `step[t][i]` | `task_steps.status` |
| `approval[t][i]` | status of the newest `approval_requests` row of the step |
| `exec[t][e]` | the e-th `execute_task` of the task: where it is, the loop index, the steps it saw completed, its cancellation token |
| `announced[t]` | terminal events published by `EventBroadcaster` |

The points of `exec.pc` follow the loop: `load`, `plan`, `check` (top of the
loop), `gate`, `request`, `hold`, `halt` (the approval branch, three writes),
`start`, `tool`, `record`, `after`, the error paths `broken`, `refuse`,
`interrupt`, the endings `complete`, `failing`, `cancelling`, `timing`, and
`raised` for an exception that reaches `_execute_single_task`.

### Webhooks

| State | Code |
|---|---|
| `request[r]` | an authenticated HTTP request inside `reserve_tenant_capacity_and_insert_event`, and its answer |
| `inFlight` | `tenant_webhook_capacities.in_flight_count` |
| `event[k]` | row of `inbound_events`; the lease token is the number of the attempt it was drawn for |
| `dispatch[k][a]` | where `dispatch_batch` is with attempt `a` of the event |
| `delivery[d]`, `sending[d][a]` | row of `event_deliveries`; where `_execute_delivery` is |
| `sent[d]` | HTTP requests sent for the delivery |

Admission is two steps, because `SELECT ... FOR UPDATE` locks nothing when the
row does not exist yet. Whether `create_task` succeeded is no part of the state:
the dispatcher forgets it, and so does `CreateTask`.

### CircuitBreaker and Gateway

| State | Code |
|---|---|
| `breaker[p]` = state, failures, successes, canary, due | the `CircuitBreaker` of a provider; `due` is `elapsed >= recovery_timeout_seconds` |
| `req[r]` = phase, tried, called | a thread inside `ModelGateway.generate`; `tried` is `attempted_chain` |
| `fallbackEnabled` | the setting of the gateway |

Every method of the breaker takes its lock and first evaluates the timeout, so
that it is one operator (`Evaluated`, `Admits` and `Claimed` for `can_execute`,
`RecordSuccess`, `RecordFailure`), and admission, call and result are three
steps of the request. `FailFatal` is the one way back that records nothing.

### Automations

| State | Code |
|---|---|
| `auto[a]` = status, trigger, fire, owner, expired | row of `automations`: `next_fire_at`, the holder of `lease_token`, `lease_expires_at < now` |
| `run[a][s]`, `task[a][k]` | `automation_runs` by slot; tasks by idempotency key, with the hour of their creation |
| `used[h]` | `tenant_hourly_usage.run_count` |
| `node[n]` = phase, seen, batch, cur | `AutomationScheduler.tick` of a process: the time it read, what it claimed, what it is processing |
| `now`, `faults` | the clock; how many crashes, exceptions and overrun leases there were |

`execute_fenced_dispatch` is one transaction with five outcomes: `DispatchKnownRun`,
`DispatchKnownTask`, `DispatchOverQuota`, `DispatchNewTask`, `DispatchFenced`.
`Chargeable` is its quota statement, an upsert whose condition guards only the update:
the first run of an hour is charged whatever the limit.
`Advance` is `update_automation` after a condition that failed: it looks at
neither lease nor status.

### Goals

| State | Code |
|---|---|
| `goal[g]` = status, evals, subs | the stored goal: `status`, `evaluation_count`, `sub_goal_ids` |
| `asked` | goals with a pending clarification request |
| `task`, `batch`, `room` | the scheduler's tasks; what the current step still has to look at, and how many results it may collect |
| `active`, `calls` | `ResourceBudget`: slots in use, tool calls charged |
| `owner[r]` | owner of the exclusive lock of a resource |
| `eval[t]` | a thread in `evaluate_goal` (or between the two writes of `create_goal`): the point it has reached and the copy it took |
| `done`, `shared`, `lapsed` | history: goals that were completed; goals two threads evaluated at once; goals of which a lock ran out since they last took theirs |

Each write of an evaluation (`Write`) stores the copy of its start with a new
status, as `evaluate_goal` does. `Check`, `Judge`, `AskUser`, `AcquireQuota`,
`AcquireLocks`, `RunPauses`, `RunEnds` and `Finish` are the stretches between
two of its writes; `BeginBatch`, `Candidate`, `EndBatch` and `Settle` are
`step_scheduled_goals`. `EvaluationRaises` is an exception of the reasoner, the
executor or the adapter in any of these stretches: nothing catches it before the
scheduler, which fails its task, while the goal keeps the status it was last given.
`LapseLock` is `prune_expired_locks`: it has no guard but that the lock is held, since
nothing renews a lease. What the reasoner, the executor and the team answer, and the
order of the candidates, are choices.

### AgentMesh

| State | Code |
|---|---|
| `row[r]` = status, parent, depth | row of `agent_runs` |
| `delegated` | rows of `agent_delegations` |
| `thread[t]` = op, pc, stack, todo, child | an HTTP request: what it does, where it is, the executions it is nested in with their copies, the runs it still has to cancel, the child it has just drawn |
| `faults` | how many crashes and failing statements there were |

`SaveRun` is an upsert of the copy that refuses only a row whose parent is gone.
A child is executed by the thread that delegated, so that a thread is a stack of
frames; `Returned` and `Unwound` are the two ways out of `execute_run`.

### Campaigns

| State | Code |
|---|---|
| `options` | `auto_heal_on_failure`, `auto_compensate_on_failure` of the definition |
| `status`, `engine` | `CampaignEngine._statuses`; the owner of the engine's lock while it compensates |
| `phase[p]` | status of the phase in the `MissionGraph` |
| `log`, `undo` | `SagaRollbackLog._steps`; the compensation that has the lock of the `SagaCoordinator`, and the steps it still has to undo |
| `attempts[p]`, `unhealed` | `_attempt_counts`; phases with a result other than `RECOVERED` in `_healing_history` |
| `thread[t]` | a thread in `execute_campaign`, `cancel_campaign` or `rollback_campaign`: where it is, the ready phases it has not begun, the phase it is at and its next goal, whether a phase of its own failed |
| `recorded`, `undone`, `overlap`, `withdrawn` | history: every step that was recorded, how often its actions were carried out, whether two workers executed at once, whether everything was compensated |

Each stretch of `execute_campaign` between two uses of a lock is an action;
`SayRecovering`, `ResumeCampaign`, `Conclude` and `Abort` are its writes of the
status, `CompensatePhase` and `CompensateAll` take the saga's lock, `UndoStep` is
one iteration of either. `Cancel` and `Rollback` hold the engine's lock over
all of their compensation, so that the others wait with their writes. The gate
(`PassGate`) stores the phase as it was when it was found ready, that is pending,
for a moment; a second worker may find it ready again.

## 3. Runs, bounds and results

| Run | Instance | States | Shows |
|---|---|---|---|
| `fleet_fencing` | 2 workers, 1 task, 2 claims per task, 1 start per worker, quota 1, symmetry of workers | 2.2 million | types, `OpenAttemptIsLeased`, `RunningTaskIsRecoverable`, `HealthyClaimGate`, `TerminalTaskStays`, `ClaimsAreSpent` |
| `fleet_recovery` | 1 worker started twice, 1 task, 2 claims, fair | 0.5 million | `OrphanIsRecovered` (liveness), `LedgerRefined` (refinement of `FencedLedger`) |
| `fleet_zombie` | 2 workers, 1 task | until violated | `ZombieWriteRejected` fails: see section 6 |
| `fleet_quota` | 2 workers, 2 tasks, quota 1 | until violated | `TenantCeiling` fails: see section 6 |
| `tasks` | 2 tasks of 2 steps, the last sensitive, 2 executions each, 2 pool threads, fair | 0.6 million | types, `SingleExecution`, `SensitiveToolApproved`, `CompletionAnnouncedTruly`, `PlanRefined` (refinement of `ApprovedPlan`), `RunningEnds` (liveness) |
| `tasks_awaiting` | 1 task of 2 steps, fair | until violated | `AwaitingEnds` fails: see section 6 |
| `webhooks` | 4 requests for 2 event ids (two payloads for the first), one slot, 2 attempts and 3 leases of the first event; 1 delivery, 3 attempts, 4 leases; fair | 0.3 million | types, `AdmittedOnce`, `InFlightExact`, `DeadLettersUsedTheirAttempts`, `SendsBounded`, `DeliveryEnds` (liveness) |
| `gateway` | 2 requests, 3 providers, both thresholds 2, at most 2 attempts, with and without fallback, fair | 0.2 million | types, `AttemptsHonoured`, `BreakerCoherent`, `RequestEnds` (liveness) |
| `automations` | 2 nodes, 1 automation, a slot every 2 ticks, hours of 2 ticks, 1 run per hour, clock up to 3, 2 faults | 4.2 million | types, `QuotaIsTasks`, `LeaseFences` (action property) |
| `goals` | 3 goals (b depends on a, c is a child of a), 1 user thread and the supervisor, 2 slots, 2 evaluations of each, 1 tool call in a quota | 6.0 million | types, `DependenciesFirst`, `ExclusiveExecutions`, `NoGoalIsForgotten` |
| `mesh` | 3 runs, 2 threads, depth and fan-out 1, 1 fault, symmetry of runs and threads | 3.6 million | types, `RunningIsExecuted`, `DelegationIsALevelDown`, `EndedStaysWhenAlone` |
| `campaigns` | 3 phases (the last depends on the other two and has a milestone), 2 workers, 1 operator, 2 calls, 2 healings per phase, 5 steps in a log of 3, all options, symmetry of workers | 7.3 million | types, `UndoneOnce`, `RunningIsDriven`, `PhasesInOrder`, `EffectsMatchPhases` |

Why the bounds are enough for the cases in question:

- `MaxToken = 2`: an old execution and its successor. Tokens of one task
  interact only as "current" and "not current", so that a third adds another
  late execution of the same kind. The proofs are for every `MaxToken`.
- `MaxIncarnation`: one start per worker where two workers compete, two where
  the holder and its own successor compete.
- One tenant: the counter is per tenant; the choice among tenants
  (`LessUtilized`) is in the model, and with a single tenant it selects
  everything. `ConcurrencyLimit = 2` where two executions of one worker must
  overlap.
- `NSteps = 2` with the last step sensitive and `MaxExec = 2`: a halt after
  completed work, a second execution that has to skip it, and two tasks that
  compete for the pool. The tasks are alike, and the action constraint
  `FirstThenSecond` has `t1` submitted before `t2`; submissions are not fair, so that it
  cuts off no behaviour for the liveness property either. The proofs are for every plan
  and every number of executions.
- `webhooks`: `Capacity = 1` slot with two event ids: the second is admitted only
  if the first gave its slot back, and exactly once. `MaxLeases` exceeds the
  attempts by one, so that a reclaim can give a row one lease more than its
  attempts allow. The action constraint `OneHalf` lets a behaviour move either
  the inbound rows or the outbound ones: they share no variable, and the one
  action that touches both (`Maintain`) acts on each half by itself, so that
  interleaving them would only multiply the states. Fairness is asked of the
  outbound actions only; a constraint never cuts one of them off for ever in a
  behaviour that has begun with a delivery, and the liveness property says
  nothing of the others.
- `gateway`: three providers and two attempts, so that a request can skip one,
  call two, or give up with one untried. Two requests are enough for a result to
  come back to a breaker that the other one moved on (three states, both
  thresholds 2).
- `automations`: three ticks of clock hold two slots and two hours, and time to claim
  the second slot; two faults let a lease be overrun and its new holder crash.
- `goals`: `Slots = 2` and three goals, so that a slot may be missing (that the slots
  bound the executions is proved, for two threads cannot exceed two slots). Two
  evaluations of a goal, so that the first one may leave it in each open status and the
  scheduler has to evaluate it again; the quota of one tool call is then used up, and
  the goal must stay in the queue all the same. `c` is the goal an operator steers and
  the one with an `expires_at`, `a` the one that is executed directly. `InTurn` reduces
  the interleavings: `a` and `b` are created first, `c` while `a` is evaluated; `b` is
  evaluated before `c` exists or after it ended; `c` is steered, and requests are
  closed, while the supervisor is at work on it or nobody is on another goal; a user
  begins to execute `a` before its evaluations are counted and does not come back after
  overlapping with the supervisor; the locks of one goal lapse, while it executes or
  when nobody evaluates it. The slot and the lock are still contended by two threads.
  The proofs have none of these limits.
- `mesh`: three runs make a parent, its child and a run of the other thread;
  depth and fan-out 1 are both reached and refused. One fault: after it
  `RunningIsExecuted` no longer promises anything.
- `campaigns`: two calls are two executions at once, or one with a cancellation or
  a rollback in the middle of it; five steps for three phases are two retries after
  their goals succeeded, and two more than the log holds. Two healings reach the retry,
  the loop guard (which needs a second attempt) and the exhausted budget. The first and
  the third phase are ready together, so that one is taken up after the other failed,
  was healed or retried. The constraint `OneAtATime` keeps the third one to that part:
  its own failures are not healed, and while two workers execute the campaign at once it
  is not under way.

Deadlock is not checked (`CHECK_DEADLOCK FALSE`): each system may really stop,
when all work has ended or the bound on claims, executions or leases is used up.
Each property has a mutant in `PROJECT.json`, a plausible fault in one
definition under which TLC finds the property violated in the same run.

## 4. Fairness

- **Fleet.** `WF(Sweep)`: the recovery thread loops with a fixed interval until
  the process stops (`recovery.py:119-125`), in every server of the fleet.
  `WF(LeaseRunsOut)` only while the holder's process is gone or has been
  restarted: time passes, and `batch_renew_worker_leases` renews only leases
  of the caller's own incarnation. Nothing is assumed of workers, heartbeats,
  claims or operators.
- **TaskWorkflow.** `WF(RecoverStaleTask)` and `WF(ExpireStaleApproval)`: the
  worker's loop runs both sweeps for ever (`task_worker.py`, `_run_loop`), and
  time passes. Executions are not fair: they may stop at any point.
- **Webhooks.** `WF(LeaseDelivery)` and `WF(Execute)` of a delivery: the worker's
  threads loop from server start (`delivery.py:71-79`) and a thread that is not
  killed goes on; it may die at each point. Neither the inbound dispatcher nor
  the maintenance is fair, because nothing in the repository calls
  `dispatch_batch` or `run_maintenance_once` in a loop.
- **Gateway.** `WF(Admit \/ Skip)` and `WF(Return)` of each request: a thread that
  routes goes on, and a call to a provider ends because it has a timeout.
  `WF(Elapse)`: time passes. Nothing makes a caller come back.
- **Automations, Goals.** None, for the reason that the inbound dispatcher has none:
  nothing in the repository runs their loops. The server constructs an
  `AutomationSupervisor` (`app/server.py:3543-3549`) and its `start` (`3605-3647`) does not
  start it; nothing calls `start_daemon` of the agentic runtime (`agentic_runtime.py:1274`),
  whose loop steps the scheduler. That a due automation is claimed, or a queued goal
  evaluated, is therefore nothing the code promises; what is checked is that neither is
  lost to a loop that does run.
- **AgentMesh, Campaigns.** None: no property of them is a liveness property.

## 5. Proofs

All theorems are about the specifications that TLC runs, for every value of the
constants that the `ASSUME`s of the modules allow, and nothing else is assumed:

| Assumption | What it asks |
|---|---|
| `FleetAssumption` | a finite set of tasks, a tenant for each, positive quotas and limits |
| `WorkflowAssumption` | a plan of at least one step, the sensitive ones among them, a positive capacity |
| `WebhookAssumption` | a finite set of event ids, a positive capacity, positive limits of attempts |
| `ThresholdsAssumption`, `GatewayAssumption` | positive thresholds, a finite set of ranked providers |
| `AutomationsAssumption` | a finite set of automations; the period, a second and an hour are positive |
| `MeshAssumption` | a finite set of runs, limits that are numbers |
| `CampaignsAssumption` | workers are no operators, a log of at least one step, at least one healing |
| `GoalsAssumption` | a finite set of goals, dependencies, parents and needs over it, positive limits; the goals a user steers or executes are goals |

**Fleet** (`FleetProofs`). The invariant `FleetInv` has five parts: types;
`ClaimInv`, an open claim transaction belongs to a live process with a healthy
row, its task is still pending, and no two of them locked the same task;
`ThreadInv`, a thread has an attempt row and has closed it once it is past
`update_attempt_status`; `OpenAttemptIsLeased`; and `RunningInv`, the thread of
a running task is in the orchestrator, dead, or in the exception handler, and
the task's lease is valid unless that handler released it.
`OpenAttemptIsLeased` alone is not inductive: that `release_lease` leaves no
open attempt behind needs `ThreadInv`. Nor is `RunningTaskIsRecoverable`: only
`RunningInv` says that a thread which releases its lease has already taken its
task out of `running`. `ClaimInv` is what makes `ClaimCommit` keep
`TerminalTaskStays` and `HealthyClaimGate` although the claim was chosen steps
before. `ClaimsAreSpent` counts: `workers.active_task_count` equals the number of
attempts the worker ever drew, over all tasks and restarts. `SpentInv` adds that attempts
under tokens not yet drawn belong to nobody and that an open claim has room for one more,
which its worker's row, locked since the check, still has when the claim commits. Theorems:
`TypeCorrect`, `OpenAttemptsAreLeased`, `RunningTasksAreRecoverable`, `TerminalTasksStay`,
`LeasesReleasedByHolder`, `ClaimsGoToHealthyWorkers`, `ClaimsAreBounded`.

**Refinement** (the end of `FleetProofs`). `FleetIsFenced`: under the mapping token =
`lease.token`, held = the lease is valid, ledger = the attempts' statuses, each
step of `Fleet` is a grant, release, close, withdrawal or a stutter of
`FencedLedger`. A claim may grant over a lease that is still held; a release
that comes late is a stutter, as is a second close. (`Conclude`, the end of a grant with its
entry, is used by the webhook rows, which keep both in one row.)

**TaskWorkflow** (`TaskWorkflowProofs`). `Inv` adds to the types and to
`SingleExecution` one invariant per task (`TaskInv`: a task that is queued or
awaiting has every step, or none, and none that is running or failed; a completed
one is whole; no live execution belongs to a task in one of these statuses; a
sensitive step that ran was approved) and one per
execution (`ExecInv`: at each point of the loop, every step before the index is
completed, the ones it saw completed still are, those after it are untouched,
and the step at the index is in the state that point implies, running while its tool
runs). The three shapes
of an execution step, moving on, writing a step and ending, are lemmas used by
the lemmas of the single actions; one `...Safe` lemma per action gives the step
of the induction. `SingleExecution` rests on the fact that a task with a live
execution is never pending: `decide_approval` requeues only awaiting tasks, and
`HaltTask` is the last write of an execution.

`WorkflowKeepsThePlan` is the refinement of `ApprovedPlan`: the task row is the status, a
step row is its work (a step that waits or is planned is idle), and the approvals granted
are the requests whose newest row says so. A step of an execution that writes a row maps to
a step of the plan, everything else to a stutter; the guards of the plan follow from
`ExecInv`, which is why the point of the loop has to imply the state of the steps before it
and of the one at it. A step may fail before it was started and after it completed, which
is what an execution does whose task was swept away; the plan allows it. The refinement
implies that a completed task is whole, that no tool is started twice and that a terminal
task stays; the run checks the refinement, and three theorems state them on their own.
Theorems: `TypeCorrect`, `ExecutionsAreSingle`,
`SensitiveToolsAreApproved`, `CompletionsAreWhole`, `CompletionsAnnouncedTruly`,
`ToolsStartOnce`, `TerminalTasksStay`, `WorkflowKeepsThePlan`.

**Webhooks** (`WebhooksProofs`). `WebhooksInv` is the conjunction of an invariant
of the inbound rows and one of the outbound rows, since no action needs both.
For a single event (`EventInv`) and delivery (`DeliveryInv`) it says that a lease
token is carried exactly while the row is leased and equals the number of the
last attempt, that a row which is queued has a lease left, and that attempts not
yet drawn are untouched; this is what makes a late dispatcher harmless. `InFlightExact` needs
a lemma on how the set of open events changes when one row changes
(`Occupied`). `SendsBounded` is not inductive: the invariant bounds the sends
made plus the attempts that can still send (`Unsent`), which no reclaim raises.

Both tables implement `FencedLedger`: the token is the number of attempts, held means
leased, and the ledger has an entry for every attempt, read from the row alone (`Entry`:
the attempts before the newest are recovered, the newest is what the status says). A lease
is a grant, a mark by the holder ends the grant with its entry (`Conclude`), a reclaim
withdraws, and a late mark is a stutter. The lemmas `GrantedEntries`, `ConcludedEntries`
and `WithdrawnEntries` say for any table of rows what these do to the ledger; the two
refinements instantiate them. That they hold of the rows needs `EventInv` and
`DeliveryInv`: a row is leased under the number of its last attempt, so that whoever
compares tokens compares attempts. Theorems: `WebhookTypes`, `EventsAreAdmittedOnce`,
`CounterIsExact`, `DeadLettersAreLate`, `SendsAreBounded`, `StaleDispatchesAreRejected`,
`DeliveriesStay`, `InboundIsFenced`, `OutboundIsFenced`.

**Gateway** (`GatewayProofs`). `GatewayInv` adds to types and breakers (`Sound`, an
invariant of each operator of `CircuitBreaker`) `WalkInv`: a request has called
only what it tried, never more than its attempts, and while it walks its chain it
has an attempt and an untried candidate left. That a request that gives up has nobody left to try needs the next
candidate to exist, which is the well-foundedness of the ranks. Theorems:
`GatewayTypes`, `BreakersAreCoherent`, `AttemptsAreHonoured`.

**Automations** (`AutomationsProofs`). The types and `QuotaIsTasks` are inductive
together. The work is in the arithmetic (slots, keys and hours are quotients
of the clock) and in one lemma: the transaction that creates a task charges the
hour in which it runs, and no other step changes the tasks of an hour. The types bound an
hour by its `Ceiling`, the limit or the first run. `LeasesFence` is an action property of
the same invariant, one lemma for each way in which a live lease may end (`LeaseEnds`) and
one for the step that creates a task (`TaskCreated`). Theorems: `AutomationTypes`,
`QuotaCountsTasks`, `LeasesFence`.

**AgentMesh** (`AgentMeshProofs`). `MeshInv` has six parts: types; `ThreadInv`, the
shape of a thread at each of its points, and that the runs it holds were
created, a child it has drawn was not, and a created child is one level below
its caller; `ChildInv`, two threads never draw the same child; `RowsOK`, the
foreign key: a run goes with its parent, so that an execution whose row was purged leaves no
running row behind; `DelegationIsALevelDown`; and `RunningIsExecuted`, which holds
by itself only in steps of one thread and needs the others to see that a
row never becomes running without a frame of somebody. `EndedStaysWhenAlone` is
an action property: the rows a step may write (`Writable`) are those of which the
thread holds a copy. Theorems: `MeshTypes`, `RunsAreExecuted`,
`DelegationsAreALevelDown`, `EndedRunsStay`.

**Campaigns** (`CampaignsProofs`). `CampaignInv` has three parts. Types. `ThreadInv`: a
thread is at a phase where its point says so (`Placed`); an operator who compensates
has the engine's lock, so that nobody writes over `compensating` (`Locked`); and a
campaign that says it runs has a worker that will still write its status (`Driven`),
which a worker that only compensates after an exception will not; this is what makes
`RunningIsDriven` inductive. `SagaInv`: the steps in the log are distinct
(`LogDistinct`), one that was undone says so or is lost (`LogSettled`), what a
compensation still has to do was not undone and is listed once (`TodoSettled`), and
steps not yet recorded were not undone (`UndoneBound`). That needs a lemma on each
way in which the log changes: `Recorded` drops its head, `Updated` overwrites an entry or
appends one that was lost in the middle of its compensation.

`EffectsMatchPhases` has an invariant of its own, `EffectInv`, on top of that: while one
worker at a time executes the campaign and nobody compensates the whole (`Calm`), there
is one active worker (`Alone`); the phases it still has before it are pending and the one
it is in has not ended (`Tidy`), so that the pending copy which the milestone gate stores
covers nothing up; it has as many steps in force as goals behind it (`Progress`); a
compensation under way belongs to it, and leaves no step of a failed phase out
(`Undoing`); and every phase at rest is in order (`Kept`). The lemmas behind it say what
recording, undoing and forgetting a step does to the set `InForce` of each phase and to
its size. Once `overlap` or `withdrawn` is set it stays set, so that the invariant need
not be restored.

`PhasesInOrder` is not inductive either: the ready phases are found once, and taken up
after others of them failed, were healed, marked pending again or compensated. `OrderInv`
says that the phases queued by the one worker, and the one it is in, are due and not
completed (`Queued`); then no step takes a completed phase up again, so that what is due
stays due. Unlike `EffectInv` it holds through cancellations and rollbacks of the whole.
A step of the worker is one of three lemmas: it goes on in its phase (`OrderGoto`), leaves
it (`OrderProceed`), or, under both, changes at most the phase it is in or gets to
(`OrderStep`). It also gives `CampaignsCompletedStays`, that completed phases stay
completed while there is no overlap. Theorems: `CampaignsTypeCorrect`,
`CampaignsUndoneOnce`, `CampaignsRunningIsDriven`, `CampaignsEffectsMatch`,
`CampaignsPhasesInOrder`, `CampaignsCompletedStays`.

**Goals** (`GoalsProofs`). `GoalsInv` has six parts: types; `EvalInv`, an evaluation past
the tests of `Check` is of a goal whose dependencies are in `done`, with an evaluation
left to count; `DoneInv`, a goal that is completed now was completed once (which the
later overwriting of its status cannot take back, and is why `DependenciesFirst` speaks
of `done` and not of the present status); `RoomInv`, the supervisor evaluates only while
its batch has room; `SharedInv`, a goal that two threads evaluate is marked as shared; and
`HeldInv`, an evaluation that was granted its slot still has it, and still has its locks
unless one of its own leases ran out (`lapsed`), in either case unless its goal is shared.
`ExclusiveExecutions` follows from `HeldInv` (a slot per goal, one owner per resource), but
is not inductive: the scheduler frees slot and locks of its candidate at the end of every
step, evaluations free locks on their way out, also after their lease ran out and
another goal took the resource, and a plan that another thread runs keeps its own only
because that thread would have been evaluating the same goal at the same time, which
`SharedInv` records. `NoGoalIsForgotten` has an invariant of its own, `QueueInv`: users
evaluate only what they may execute directly, and the task of the supervisor's goal is
running; so the one step that takes a task out of the queue has just read the status
that the property is about. Theorems: `GoalsTypeSafe`, `DependenciesComeFirst`,
`ExecutionsAreExclusive`, `SlotsBoundExecutions`, `NoGoalIsLost`.

Ten theorems are not repeated by a run, although TLC checked each formula on the
instance of its module before it was proved: `LeasesReleasedByHolder`,
`StaleDispatchesAreRejected` and `DeliveriesStay` state what the predicate of a
statement protects; `SlotsBoundExecutions` needs more threads than the run has slots to
say something; `CompletionsAreWhole`, `ToolsStartOnce` and `TerminalTasksStay` (of
`TaskWorkflow`) follow from the refinement the run checks; `InboundIsFenced` and
`OutboundIsFenced` are refinements, and `CampaignsCompletedStays` is the action property
behind `PhasesInOrder`.

**Only model-checked.** The liveness properties `OrphanIsRecovered`, `RunningEnds`,
`DeliveryEnds` and `RequestEnds`: liveness under fairness is beyond the prover used.
Every other property of a passing run is a theorem.

## 6. Where code and documents disagree

Three runs end in a counterexample; `PROJECT.json` ("findings") quotes the lines.

1. `fleet_zombie`: the task status is written before the fencing token is
   verified, so that an execution that lost its lease completes the task its
   successor is running; M55-F05 says such a write updates no row.
2. `fleet_quota`: the tenant's counter is checked without a lock and incremented
   later; two claims exceed a ceiling the design calls hard.
3. `tasks_awaiting`: the approval request is visible before the task is
   awaiting; a quick decision is lost and the task waits for ever, as it does
   after a decision that comes past `expires_at`.

Seen while modelling, with no run of their own:

- Webhooks: `_dispatch_single_event` catches every exception of `create_task`
  (`dispatcher.py:82`) and `dispatch_batch` then marks the event processed, which is
  terminal, although `docs/m54_architecture_and_design.md:109-110` calls processed an event
  that has become a task and wants a failed dispatch retried.
- Campaigns: `cancel_campaign` and `rollback_campaign` do not stop a thread in
  `execute_campaign`, whose verdict then overwrites `cancelled` or `failed`
  (`campaign_engine.py:457`). `compensate_all` leaves the phases completed, so that
  executing a campaign again after a rollback ends in `completed` with all of its effects
  undone. A log of 256 steps forgets the oldest, which no compensation finds again
  (`saga_coordinator.py:39-41`). A step whose compensation failed keeps its status and is
  tried again by the next one, including those of its actions that had succeeded.
  `EffectsMatchPhases` leaves out campaigns that were compensated as a whole and phases of
  which the log has lost a step.

- Fleet: `active_task_count` of a worker row is counted up by every claim
  (`postgres_fleet.py:672`), counted down by nothing, and kept by a registration, so that a
  worker id claims nothing more after `concurrency_limit` claims in its whole life.
  M55-F08 is kept for that reason; `ClaimsAreSpent` states it as it is.
- Gateway: a probe that fails for a reason that is not transient is not recorded
  (`model_gateway.py:710-717`), so that the canary flag stays set and the provider
  is shut out for ever. `tests/unit/test_circuit_breaker.py:52` tests the flag
  only with recorded results. A result of a call admitted before the circuit opened, if it
  comes back while the circuit is half open, clears the flag of the probe in flight
  (`circuit_breaker.py:129`), and a second probe is let in beside it; `BreakerCoherent`
  is about the fields of the record and allows it.
- Automations: a slot skipped for its quota is still due for a later claim of the
  same slot, which then charges another hour (`postgres_automation.py:588, 633`,
  `scheduler.py:91`). An automation paused during the evaluation of its condition
  is active again when the condition fails (`scheduler.py:107`). The limit of runs per hour
  does not guard the first run of an hour (`postgres_automation.py:700-710`), so that a
  limit of 0 admits one. Nothing starts the scheduler loop (section 4).
- Agent mesh: an executor saves the copy it has held since its start over a run
  that was cancelled or paused meanwhile (`runtime.py:237`,
  `postgres_agent_mesh.py:87`), although M59-F04 lists terminal states as final.
  `EndedStaysWhenAlone` is what remains true. A child is stored before its delegation
  (`mesh.py:104`), so that a cancel of the parent in between misses it and it is executed
  although its parent was cancelled. After a save that the database loses, the row stays
  running for ever (`runtime.py:251`); `RunningIsExecuted` promises something only up to
  the first such fault.
- Goals: "Parent goals cannot complete until all sub-goals are completed"
  (`goal_engine.py:617`) is lost when a child is linked while the parent is being
  evaluated, because the parent's copy is written back without the link. Two
  evaluations of a goal at once undo each other's `evaluation_count`. The
  scheduler's clean-up frees the locks and the slot of a goal that a user is
  executing, and a direct execution never gives its slot back. A goal whose
  dependency failed is skipped by the scheduler for ever, and so is one that has
  used its quota of tool calls. The properties of `Goals` name these cases.
- Goals: the lease of a lock is 30 seconds by default (`resource_locks.py:40-59`), an
  execution may take 300 (`app/config.py:40`), and nothing renews a lease, so that two
  executions can use one exclusive resource; `ExclusiveExecutions` is what remains true.
  An exception in the middle of an evaluation leaves the goal evaluating or executing with
  a failed task (`goal_scheduler.py:234`), and a direct execution that does not bring its
  goal back to active leaves it to nobody, because the runtime schedules active goals only
  (`agentic_runtime.py:1255-1261`). Nothing starts the supervisor that steps the scheduler
  (section 4).

## 7. What is abstracted, and what is not modelled

Abstractions shared by all modules: payloads, titles, plans and errors are left
out; a transaction is atomic (row locks that matter are in the guards); a call
that raises has had no effect (a commit whose acknowledgement is lost is not
modelled); deadlines may pass at any moment.

- **Fleet.** A lease renewal is the delay of `LeaseRunsOut`. `timed_out` is
  counted as `failed`. Each start is a new process with a new incarnation;
  restarting a stopped worker object under its old token, and two processes
  with one `worker_id` (random unless configured), are not modelled, nor is
  `set_tenant_limits`. The verdict "cancelled" during a drain may come at any
  point, which covers more than the code does. The local headroom check on
  `_active_tasks` is modelled as the number of running executions; the counter
  in the row, which no code decrements, is the stronger limit. The deployment
  is the one in which the fleet alone claims tasks; of a `BackgroundTaskWorker`
  beside it (`app/server.py` enables both) only the startup
  `recover_stale_tasks` is included.
- **TaskWorkflow.** The thresholds of the sweeps are untimed, so that a task may
  be recovered while it is still being executed, as in the code (300 s against
  a task timeout of 600 s). Idempotency keys, subscribers' queues and the
  fleet's requeueing of a running task are left out.
- **Webhooks.** A batch lease is one lease per row. Requests are past
  authentication. Dead-letter rows are written in the transaction of the status
  and read only by replay, which is not modelled: its insert puts an event id
  into `subscription_id` and breaks the foreign key. Events that trigger
  automations are not modelled.
- **Gateway.** The scores of candidates are a fixed rank; capabilities select
  them. Streaming is left out. `ResilientModelRouter` and
  `ProviderHealthTracker` are not constructed by the application.
- **Automations.** One user, whose automations share the hourly quota. Event
  triggers are not modelled. `renew_lease` and `trigger_immediate` are called by
  tests only, the reconciliation of run statuses by nothing.
- **Goals.** Observations, triggers, sliding windows of calls and tokens, priorities
  and ages, shared locks, checkpoints and the file store are left out; pausing,
  resuming and cancelling are one step each. `ACTION_REQUIRED` is left out: a goal gets
  it only in an engine without an executor (`goal_engine.py:852-860`), and the
  runtime builds its engine with one (`agentic_runtime.py:587-590`).
- **Campaigns.** One campaign of one process. What goals, milestones, diagnoses, plans
  and compensating actions come to is a choice; a step is undone in one action,
  all of its compensating actions together. Artifacts and their routing, spans and
  streams, contingency phases (nothing injects one), the clearing of
  attempts and the history of other campaigns (which shares a bounded queue) are left
  out. `PAUSED` and `PhaseStatus.COMPENSATED`, `VERIFYING`, `SKIPPED` are never set.
- **AgentMesh.** Plans, events and audit records are left out, as is a parent named
  in the request of a creation (it records no delegation). `WAITING_APPROVAL` and
  `approve_step` are not reached: `validate_plan` refuses every step that needs a
  token.
- **In-memory repositories.** They implement the same interfaces under one lock
  with other transitions (for one, `InMemoryApprovalRepository` requeues a
  running task); not modelled yet.
- **Everything else** is listed in `PROJECT.json` with the reason: data without
  control, I/O, or a later candidate.

## 8. Plan

Done: `FencedLedger`, `Fleet` and its refinement, `ApprovedPlan`, `TaskWorkflow` and its
refinement, `Webhooks` and its two refinements, `CircuitBreaker` and `Gateway`,
`Automations`, `Goals`, `AgentMesh` and `Campaigns`, each with its proofs. Every safety
property and refinement that a passing run checks is a theorem.

Next, in this order:

1. Composition of `Fleet` and `TaskWorkflow`: requeueing by the sweeper of a
   task whose plan is half stored, and a `BackgroundTaskWorker` beside the
   fleet. `Fleet!Execute` is then the last step of an execution of
   `TaskWorkflow` instead of an arbitrary outcome.
2. The leases of the automations as another implementation of `FencedLedger`, where the
   token is the claim.
3. A progress measure of a request of the gateway: every call or skip lowers what is left
   of its chain, the part of `RequestEnds` that the prover can reach.
4. The in-memory repositories as variants of `Fleet` and `TaskWorkflow`.

Each new run replaces an instance that it subsumes where it can, to keep the
whole check within minutes.
