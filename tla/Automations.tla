---------------------------- MODULE Automations ----------------------------
(***************************************************************************)
(* Proactive automations (M53): schedules kept in PostgreSQL, claimed under *)
(* a lease by the scheduler of any server process, and dispatched as tasks  *)
(* by one fenced transaction.  Users create, pause, resume, trigger, patch  *)
(* and delete automations meanwhile.                                        *)
(*                                                                          *)
(* Every action that touches the automations, the runs, the tasks or the    *)
(* hourly usage is one database transaction; a node is a server process     *)
(* with one scheduler loop.  A lease token is a fresh random string, so all *)
(* that matters of it is who holds the token stored in the row: owner.      *)
(***************************************************************************)
EXTENDS Integers, FiniteSets

CONSTANTS
  Automations,     \* automations of one user
  Nodes,           \* server processes
  NoNode,          \* the NULL of lease_token
  Period,          \* ticks between two cron slots
  Second,          \* ticks in a second: the idempotency key takes int(slot)
  Hour,            \* ticks in an hour bucket
  MaxRunsPerHour,  \* max_runs_per_hour
  Horizon,         \* bound: the last tick
  MaxFaults        \* bound: crashes, exceptions and leases run over

ASSUME AutomationsAssumption ==
  /\ IsFiniteSet(Automations)
  /\ NoNode \notin Nodes
  /\ {Period, Second, Hour} \subseteq Nat \ {0}
  /\ {MaxRunsPerHour, Horizon, MaxFaults} \subseteq Nat

VARIABLES
  now,      \* the clock, of the database and of the nodes
  auto,     \* the row of every automation
  run,      \* automation_runs, by slot
  task,     \* the tasks of an automation, by idempotency key: when created
  used,     \* tenant_hourly_usage.run_count, by hour
  node,     \* the scheduler of every node
  faults    \* how many of them so far

vars == <<now, auto, run, task, used, node, faults>>

NoSlot == -1                              \* the NULL of next_fire_at
Slots  == 0..(Horizon + Period)
Hours  == 0..(Horizon \div Hour)
Keys   == 0..((Horizon + Period) \div Second)
Never  == -1                              \* no task with this key

NextCron(t) == Period * (t \div Period + 1)    \* calculate_next_fire
KeyOf(s)    == s \div Second
ThisHour    == now \div Hour

\* The row of an hour is inserted with its first run, which is therefore charged
\* whatever the limit; the limit guards the updates that follow.
Ceiling    == IF MaxRunsPerHour = 0 THEN 1 ELSE MaxRunsPerHour
Chargeable == used[ThisHour] = 0 \/ used[ThisHour] < MaxRunsPerHour

Row == [status  : {"absent", "active", "paused", "completed", "deleted"},
        trigger : {"recurring", "one_time"},   \* a recurring one has a cron expression
        fire    : Slots \cup {NoSlot},
        owner   : Nodes \cup {NoNode},
        expired : BOOLEAN]

Scheduler == [phase : {"idle", "ticking", "working", "dispatch", "advance", "release"},
              seen  : 0..Horizon,                       \* curr_time of the tick
              batch : SUBSET (Automations \X Slots),    \* claimed, not processed
              cur   : SUBSET (Automations \X Slots)]    \* the one being processed

Idle == [phase |-> "idle", seen |-> 0, batch |-> {}, cur |-> {}]

Unleased(row) == [row EXCEPT !.owner = NoNode, !.expired = FALSE]
Exists(a) == auto[a].status \notin {"absent", "deleted"}

Cron(a)   == auto[a].trigger = "recurring"

Due(a) ==
  /\ auto[a].status = "active"
  /\ auto[a].fire # NoSlot /\ auto[a].fire <= now
Claimable(a) == Due(a) /\ (auto[a].owner = NoNode \/ auto[a].expired)

-----------------------------------------------------------------------------
Init ==
  /\ now = 0
  /\ auto = [a \in Automations |-> [status |-> "absent", trigger |-> "one_time",
                                    fire |-> NoSlot, owner |-> NoNode,
                                    expired |-> FALSE]]
  /\ run = [a \in Automations |-> [s \in Slots |-> "none"]]
  /\ task = [a \in Automations |-> [k \in Keys |-> Never]]
  /\ used = [h \in Hours |-> 0]
  /\ node = [n \in Nodes |-> Idle]
  /\ faults = 0

Pass ==
  /\ now < Horizon
  /\ now' = now + 1
  /\ UNCHANGED <<auto, run, task, used, node, faults>>

\* The node that claimed the row still has it to process.
Underway(a) ==
  \E n \in Nodes : auto[a].owner = n /\ \E s \in Slots : <<a, s>> \in node[n].batch \cup node[n].cur

Lapse(a) ==
  /\ auto[a].owner # NoNode /\ ~auto[a].expired
  /\ auto' = [auto EXCEPT ![a].expired = TRUE]
  /\ UNCHANGED <<now, run, task, used, node>>

\* A lease outlives the process that took it for its time to live only; a live
\* scheduler that is slower than that (nothing renews a lease) is a fault.
Expire(a) == Lapse(a) /\ ~Underway(a) /\ UNCHANGED faults

ExpireUnderway(a) ==
  /\ Lapse(a) /\ Underway(a)
  /\ faults < MaxFaults /\ faults' = faults + 1

-----------------------------------------------------------------------------
(* The requests of the user (app/server.py).                               *)

Edit(a, row) ==
  /\ auto' = [auto EXCEPT ![a] = row]
  /\ UNCHANGED <<now, task, used, node, faults>>

\* Without a cron expression next_fire_at stays NULL until a trigger.
Create(a) ==
  /\ auto[a].status = "absent"
  /\ \E trigger \in {"recurring", "one_time"} :
       Edit(a, [auto[a] EXCEPT !.status = "active", !.trigger = trigger,
                               !.fire = IF trigger = "recurring" THEN NextCron(now) ELSE NoSlot])
  /\ UNCHANGED run

Pause(a) ==
  /\ Exists(a)
  /\ Edit(a, [Unleased(auto[a]) EXCEPT !.status = "paused", !.fire = NoSlot])
  /\ UNCHANGED run

Resume(a) ==
  /\ Exists(a)
  /\ Edit(a, [Unleased(auto[a]) EXCEPT !.status = "active",
                                       !.fire = IF Cron(a) THEN NextCron(now) ELSE @])
  /\ UNCHANGED run

\* Only next_fire_at is set; the next tick of a scheduler does the rest.
Trigger(a) ==
  /\ Exists(a)
  /\ Edit(a, [auto[a] EXCEPT !.fire = now])
  /\ UNCHANGED run

\* A new cron expression: the schedule moves, a lease stays.
Patch(a) ==
  /\ Exists(a) /\ Cron(a)
  /\ Edit(a, [auto[a] EXCEPT !.fire = NextCron(now)])
  /\ UNCHANGED run

\* The runs go with the automation, its tasks stay.
Delete(a) ==
  /\ Exists(a)
  /\ Edit(a, [Unleased(auto[a]) EXCEPT !.status = "deleted", !.fire = NoSlot])
  /\ run' = [run EXCEPT ![a] = [s \in Slots |-> "none"]]

-----------------------------------------------------------------------------
(* The scheduler: tick reads the clock, claims, then processes one claimed *)
(* automation after the other.                                             *)

Goto(n, phase) == node' = [node EXCEPT ![n].phase = phase]

Tick(n) ==
  /\ node[n].phase = "idle"
  /\ node' = [node EXCEPT ![n] = [Idle EXCEPT !.phase = "ticking", !.seen = now]]
  /\ UNCHANGED <<now, auto, run, task, used, faults>>

\* claim_due_automations: every due row without a live lease.
Claim(n) ==
  /\ node[n].phase = "ticking"
  /\ LET due == {a \in Automations : Claimable(a)} IN
     IF due = {}
     THEN node' = [node EXCEPT ![n] = Idle] /\ UNCHANGED auto
     ELSE /\ auto' = [a \in Automations |->
                        IF a \in due THEN [auto[a] EXCEPT !.owner = n, !.expired = FALSE]
                        ELSE auto[a]]
          /\ node' = [node EXCEPT ![n].phase = "working",
                                  ![n].batch = {<<a, auto[a].fire>> : a \in due}]
  /\ UNCHANGED <<now, run, task, used, faults>>

\* The condition is evaluated, by a model call if need be: it may take long.
Evaluate(n) ==
  /\ node[n].phase = "working"
  /\ \E c \in node[n].batch, verdict \in {"dispatch", "advance"} :
       node' = [node EXCEPT ![n].phase = verdict, ![n].cur = {c},
                            ![n].batch = @ \ {c}]
  /\ UNCHANGED <<now, auto, run, task, used, faults>>

\* The next slot is computed from the time the tick began, before the claim.
NextFire(n, a) == IF Cron(a) THEN NextCron(node[n].seen) ELSE NoSlot

\* The fence of execute_fenced_dispatch.
Holds(n, a) == auto[a].owner = n /\ ~auto[a].expired /\ auto[a].status = "active"

\* The claimed automation of the loop, and where the loop is with it.
Processing(n, phase, a, s) == node[n].phase = phase /\ <<a, s>> \in node[n].cur

Served(n) == node' = [node EXCEPT ![n].phase = "working", ![n].cur = {}]

AdvanceSchedule(n, a) ==
  auto' = [auto EXCEPT ![a] = [Unleased(@) EXCEPT !.fire = NextFire(n, a)]]

\* A run with a task exists for the slot: nothing is charged.
DispatchKnownRun(n) ==
  /\ \E a \in Automations, s \in Slots :
       /\ Processing(n, "dispatch", a, s) /\ Holds(n, a)
       /\ run[a][s] = "enqueued"
       /\ AdvanceSchedule(n, a)
  /\ Served(n)
  /\ UNCHANGED <<now, run, task, used, faults>>

\* A task with the key exists: a run row of the slot that has no task keeps
\* its status, a missing one is inserted.
DispatchKnownTask(n) ==
  /\ \E a \in Automations, s \in Slots :
       /\ Processing(n, "dispatch", a, s) /\ Holds(n, a)
       /\ run[a][s] # "enqueued"
       /\ task[a][KeyOf(s)] # Never
       /\ run' = [run EXCEPT ![a][s] = IF @ = "none" THEN "enqueued" ELSE @]
       /\ AdvanceSchedule(n, a)
  /\ Served(n)
  /\ UNCHANGED <<now, task, used, faults>>

DispatchOverQuota(n) ==
  /\ ~Chargeable
  /\ \E a \in Automations, s \in Slots :
       /\ Processing(n, "dispatch", a, s) /\ Holds(n, a)
       /\ run[a][s] # "enqueued" /\ task[a][KeyOf(s)] = Never
       /\ run' = [run EXCEPT ![a][s] = "skipped"]
       /\ AdvanceSchedule(n, a)
  /\ Served(n)
  /\ UNCHANGED <<now, task, used, faults>>

\* No update of the usage row when the hour is full, but a task all the same.
DispatchUnmetered(n) ==
  /\ used[ThisHour] <= MaxRunsPerHour
  /\ \E a \in Automations, s \in Slots :
       /\ Processing(n, "dispatch", a, s) /\ Holds(n, a)
       /\ run[a][s] # "enqueued" /\ task[a][KeyOf(s)] = Never
       /\ used' = [used EXCEPT ![ThisHour] = @ + 1]
       /\ task' = [task EXCEPT ![a][KeyOf(s)] = ThisHour]
       /\ run' = [run EXCEPT ![a][s] = IF @ = "none" THEN "enqueued" ELSE @]
       /\ AdvanceSchedule(n, a)
  /\ Served(n)
  /\ UNCHANGED <<now, faults>>

\* The task row is inserted ON CONFLICT DO UPDATE, after the charge.
DispatchKeyUnchecked(n) ==
  /\ Chargeable
  /\ \E a \in Automations, s \in Slots :
       /\ Processing(n, "dispatch", a, s) /\ Holds(n, a)
       /\ run[a][s] # "enqueued"
       /\ used' = [used EXCEPT ![ThisHour] = @ + 1]
       /\ task' = [task EXCEPT ![a][KeyOf(s)] = ThisHour]
       /\ run' = [run EXCEPT ![a][s] = IF @ = "none" THEN "enqueued" ELSE @]
       /\ AdvanceSchedule(n, a)
  /\ Served(n)
  /\ UNCHANGED <<now, faults>>

DispatchNewTask(n) ==
  /\ Chargeable
  /\ \E a \in Automations, s \in Slots :
       /\ Processing(n, "dispatch", a, s) /\ Holds(n, a)
       /\ run[a][s] # "enqueued" /\ task[a][KeyOf(s)] = Never
       /\ used' = [used EXCEPT ![ThisHour] = @ + 1]
       /\ task' = [task EXCEPT ![a][KeyOf(s)] = ThisHour]
       /\ run' = [run EXCEPT ![a][s] = IF @ = "none" THEN "enqueued" ELSE @]
       /\ AdvanceSchedule(n, a)
  /\ Served(n)
  /\ UNCHANGED <<now, faults>>

\* LeaseFencingError: the transaction is rolled back, tick releases the lease.
DispatchFenced(n) ==
  /\ \E a \in Automations, s \in Slots : Processing(n, "dispatch", a, s) /\ ~Holds(n, a)
  /\ Goto(n, "release")
  /\ UNCHANGED <<now, auto, run, task, used, faults>>

\* The condition failed: update_automation looks at no lease and no status.
Advance(n) ==
  /\ \E a \in Automations, s \in Slots :
       /\ Processing(n, "advance", a, s)
       /\ auto' = [auto EXCEPT ![a] =
                     IF Exists(a)
                     THEN [@ EXCEPT !.fire = NextFire(n, a),
                                    !.status = IF Cron(a) THEN "active" ELSE "completed"]
                     ELSE @]
  /\ Goto(n, "release")
  /\ UNCHANGED <<now, run, task, used, faults>>

\* Whoever claimed the row meanwhile loses it.
ReleaseUnchecked(n) ==
  /\ \E a \in Automations, s \in Slots :
       /\ Processing(n, "release", a, s)
       /\ auto' = [auto EXCEPT ![a] = Unleased(@)]
  /\ Served(n)
  /\ UNCHANGED <<now, run, task, used, faults>>

\* release_lease: of the row that still carries the token.
Release(n) ==
  /\ \E a \in Automations, s \in Slots :
       /\ Processing(n, "release", a, s)
       /\ auto' = [auto EXCEPT ![a] = IF @.owner = n THEN Unleased(@) ELSE @]
  /\ Served(n)
  /\ UNCHANGED <<now, run, task, used, faults>>

\* The evaluation or a transaction raises: tick releases the lease.
Raise(n) ==
  /\ node[n].phase \in {"dispatch", "advance"}
  /\ faults < MaxFaults /\ faults' = faults + 1
  /\ Goto(n, "release")
  /\ UNCHANGED <<now, auto, run, task, used>>

Done(n) ==
  /\ node[n].phase = "working" /\ node[n].batch = {}
  /\ node' = [node EXCEPT ![n] = Idle]
  /\ UNCHANGED <<now, auto, run, task, used, faults>>

\* The process dies with its claims and comes back without them.
Crash(n) ==
  /\ node[n].phase # "idle"
  /\ faults < MaxFaults /\ faults' = faults + 1
  /\ node' = [node EXCEPT ![n] = Idle]
  /\ UNCHANGED <<now, auto, run, task, used>>

\* The reconciler loop of any node.
RecoverStaleLeases ==
  /\ \E a \in Automations : auto[a].status = "active" /\ auto[a].expired
  /\ auto' = [a \in Automations |->
                IF auto[a].status = "active" /\ auto[a].expired THEN Unleased(auto[a])
                ELSE auto[a]]
  /\ UNCHANGED <<now, run, task, used, node, faults>>

User(a) ==
  Create(a) \/ Pause(a) \/ Resume(a) \/ Trigger(a) \/ Patch(a) \/ Delete(a)

Dispatch(n) ==
  \/ DispatchKnownRun(n) \/ DispatchKnownTask(n)
  \/ DispatchOverQuota(n) \/ DispatchNewTask(n) \/ DispatchFenced(n)

Loop(n) ==
  \/ Tick(n) \/ Claim(n) \/ Evaluate(n) \/ Dispatch(n)
  \/ Advance(n) \/ Release(n) \/ Done(n)

Next ==
  \/ Pass \/ RecoverStaleLeases
  \/ \E a \in Automations : User(a) \/ Expire(a) \/ ExpireUnderway(a)
  \/ \E n \in Nodes : Loop(n) \/ Raise(n) \/ Crash(n)

Spec == Init /\ [][Next]_vars

-----------------------------------------------------------------------------
TypeOK ==
  /\ now \in 0..Horizon
  /\ auto \in [Automations -> Row]
  /\ run \in [Automations -> [Slots -> {"none", "enqueued", "skipped"}]]
  /\ task \in [Automations -> [Keys -> Hours \cup {Never}]]
  /\ used \in [Hours -> 0..Ceiling]
  /\ node \in [Nodes -> Scheduler]
  /\ faults \in 0..MaxFaults

\* The three tables agree, whatever leases are lost, slots are claimed again or
\* automations are deleted meanwhile: the hour is charged exactly for the tasks
\* it created, and a run that says enqueued has its task.
CreatedIn(h) == {ak \in Automations \X Keys : task[ak[1]][ak[2]] = h}
QuotaIsTasks ==
  /\ \A h \in Hours : used[h] = Cardinality(CreatedIn(h))
  /\ \A a \in Automations, s \in Slots :
       run[a][s] = "enqueued" => task[a][KeyOf(s)] # Never

\* A lease that has not run out is ended by the scheduler that holds it or by the
\* user: not by a scheduler that is late with its claim, nor by the recovery of
\* another process.  And a task appears only under such a lease of an active
\* automation, by its holder, who gives it back: a dispatcher that is late, or whose
\* automation was paused and resumed in between, creates nothing.
LeaseFences ==
  [][\A a \in Automations :
       LET holder == auto[a].owner
           live   == holder # NoNode /\ ~auto[a].expired
       IN /\ live /\ auto'[a].owner # holder => node'[holder] # node[holder] \/ User(a)
          /\ task'[a] # task[a] =>
               /\ live /\ auto[a].status = "active"
               /\ node'[holder] # node[holder] /\ auto'[a].owner = NoNode]_vars

=============================================================================
