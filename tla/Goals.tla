------------------------------- MODULE Goals -------------------------------
(***************************************************************************)
(* Goals: the goal engine, the multi-goal scheduler, the resource budget,  *)
(* the resource locks and the clarification requests of one process.       *)
(*                                                                         *)
(* A goal is evaluated by the supervisor's thread, which steps the         *)
(* scheduler, and by the threads of the users who execute it directly      *)
(* (execute_goal).  An evaluation takes a copy of the goal, works on the   *)
(* copy, and writes the whole copy back several times; nothing keeps two   *)
(* evaluations of one goal apart.                                          *)
(*                                                                         *)
(* What the reasoner, the executor and the team answer is a choice; so is  *)
(* the order in which the scheduler looks at its candidates (priorities    *)
(* and ages).  The observations and the sliding windows of tool calls and  *)
(* tokens are left out; the per-goal quota of tool calls is modelled.      *)
(* Pausing, resuming and cancelling are one step each.  The lease of a     *)
(* lock may run out at any moment: nothing renews one.                     *)
(***************************************************************************)
EXTENDS Naturals, FiniteSets

CONSTANTS
  Goals,      \* goal ids
  Nothing,    \* no goal
  ParentOf,   \* parent_goal_id of each goal, or Nothing
  Deps,       \* depends_on_goal_ids of each goal
  Resources,  \* resource URIs
  NeedsOf,    \* required_resources of the plans of each goal
  TeamGoals,  \* goals with a team assigned
  MayExpire,  \* goals with an expires_at
  Steered,    \* goals an operator pauses, resumes and cancels, or an event schedules
  Direct,     \* goals that users execute directly
  Users,      \* threads that call create_goal and execute_goal
  Worker,     \* the supervisor's thread
  Slots,      \* max_concurrent_goals
  MaxEvals,   \* max_evaluations_per_goal
  MaxCalls    \* max_tool_calls of a goal's quota

ASSUME GoalsAssumption ==
  /\ IsFiniteSet(Goals) /\ Nothing \notin Goals
  /\ ParentOf \in [Goals -> Goals \cup {Nothing}]
  /\ Deps \in [Goals -> SUBSET Goals]
  /\ NeedsOf \in [Goals -> SUBSET Resources]
  /\ Steered \subseteq Goals /\ Direct \subseteq Goals
  /\ Worker \notin Users
  /\ Slots \in Nat \ {0} /\ MaxEvals \in Nat \ {0} /\ MaxCalls \in Nat \ {0}

VARIABLES
  goal,    \* the goal store
  asked,   \* goals with a pending clarification request
  task,    \* the scheduler's tasks
  batch,   \* candidates the running scheduler step has not looked at yet
  room,    \* results the running scheduler step may still collect
  active,  \* the budget's active goals
  calls,   \* tool calls charged to each goal, up to its quota
  owner,   \* owner of the exclusive lock of each resource
  eval,    \* what each thread is doing
  done,    \* history: goals that were completed at some time
  shared,  \* history: goals that two threads evaluated at the same time
  lapsed   \* history: goals of which a lock ran out since they last took theirs

vars == <<goal, asked, task, batch, room, active, calls, owner, eval, done, shared,
          lapsed>>

Threads == Users \cup {Worker}

Ended  == {"completed", "cancelled", "expired", "failed"}
Open   == {"evaluating", "executing", "progress_updated", "blocked"}
Status == Ended \cup Open \cup {"created", "active", "paused"}

PC == {"idle", "link", "check", "judge", "acquire", "lock", "run", "finish",
       "settle", "raised"}

TypeOK ==
  /\ goal \in [Goals -> [status : Status \cup {"none"}, evals : 0..MaxEvals,
                         subs : SUBSET Goals]]
  /\ asked \subseteq Goals
  /\ task \in [Goals -> {"none", "queued", "running", "completed", "paused", "failed"}]
  /\ batch \subseteq Goals /\ room \in 0..Slots
  /\ active \subseteq Goals /\ Cardinality(active) <= Slots
  /\ calls \in [Goals -> 0..MaxCalls]
  /\ owner \in [Resources -> Goals \cup {Nothing}]
  /\ eval \in [Threads -> [pc : PC, goal : Goals \cup {Nothing}, evals : 0..MaxEvals,
                           subs : SUBSET Goals, pending : BOOLEAN]]
  /\ done \subseteq Goals /\ shared \subseteq Goals /\ lapsed \subseteq Goals

Resting == [pc |-> "idle", goal |-> Nothing, evals |-> 0, subs |-> {}, pending |-> FALSE]

Init ==
  /\ goal = [g \in Goals |-> [status |-> "none", evals |-> 0, subs |-> {}]]
  /\ asked = {} /\ task = [g \in Goals |-> "none"] /\ batch = {} /\ room = 0
  /\ active = {} /\ calls = [g \in Goals |-> 0]
  /\ owner = [r \in Resources |-> Nothing]
  /\ eval = [t \in Threads |-> Resting]
  /\ done = {} /\ shared = {} /\ lapsed = {}

Exists(g) == goal[g].status # "none"
Evaluating(t) == eval[t].pc \notin {"idle", "link"}

-----------------------------------------------------------------------------
\* The goal store and the operator.

Store(g, record) ==
  /\ goal' = [goal EXCEPT ![g] = record]
  /\ done' = IF record.status = "completed" THEN done \cup {g} ELSE done

\* create_goal: a parent must not have ended, the dependencies must exist; the goal
\* is activated at once or by a later resume_goal.  The link in the parent's copy
\* is a second write.
CreateGoal(u, g) ==
  /\ eval[u].pc = "idle"
  /\ ~Exists(g) /\ \A d \in Deps[g] : Exists(d)
  /\ ParentOf[g] # Nothing => goal[ParentOf[g]].status \notin Ended \cup {"none"}
  /\ \E status \in {"active", "created"} :
       Store(g, [status |-> status, evals |-> 0, subs |-> {}])
  /\ eval' = IF ParentOf[g] = Nothing THEN eval
             ELSE [eval EXCEPT ![u].pc = "link", ![u].goal = g]
  /\ UNCHANGED <<asked, task, batch, room, active, calls, owner, lapsed, shared>>

LinkParent(u) ==
  /\ eval[u].pc = "link"
  /\ LET p == ParentOf[eval[u].goal]
     IN  Store(p, [goal[p] EXCEPT !.subs = @ \cup {eval[u].goal}])
  /\ eval' = [eval EXCEPT ![u] = Resting]
  /\ UNCHANGED <<asked, task, batch, room, active, calls, owner, lapsed, shared>>

SetStatus(g, status) ==
  /\ Store(g, [goal[g] EXCEPT !.status = status])
  /\ UNCHANGED <<asked, task, batch, room, active, calls, owner, lapsed, eval, shared>>

PauseGoal(g) == goal[g].status \notin Ended \cup {"none"} /\ SetStatus(g, "paused")

ResumeGoal(g) ==
  /\ goal[g].status \in {"paused", "created"}
  /\ \/ SetStatus(g, "active")
     \/ g \in MayExpire /\ SetStatus(g, "expired")

CancelGoal(g) == goal[g].status \notin Ended \cup {"none"} /\ SetStatus(g, "cancelled")

\* The request is answered, or timed out by the supervisor; the goal stays paused.
CloseClarification(g) ==
  /\ g \in asked /\ asked' = asked \ {g}
  /\ UNCHANGED <<goal, task, batch, room, active, calls, owner, lapsed, eval, done, shared>>

-----------------------------------------------------------------------------
\* The resource budget and the resource locks.

QuotaGranted(g) ==
  /\ g \in active \/ Cardinality(active) < Slots
  /\ calls[g] < MaxCalls

LocksGranted(g) == \A r \in NeedsOf[g] : owner[r] \in {g, Nothing}
Locked(g)       == [r \in Resources |-> IF r \in NeedsOf[g] THEN g ELSE owner[r]]

\* Mutant: the locks of a goal's resources are released whoever owns them.
UnlockedUnowned(g) == [r \in Resources |-> IF r \in NeedsOf[g] THEN Nothing ELSE owner[r]]

Unlocked(g) == [r \in Resources |-> IF owner[r] = g THEN Nothing ELSE owner[r]]

\* The lease of a lock has run out (30 seconds by default) and is pruned, whatever
\* its owner is doing.
LapseLock(r) ==
  /\ owner[r] # Nothing
  /\ owner' = [owner EXCEPT ![r] = Nothing]
  /\ lapsed' = lapsed \cup {owner[r]}
  /\ UNCHANGED <<goal, asked, task, batch, room, active, calls, eval, done, shared>>

-----------------------------------------------------------------------------
\* evaluate_goal, by any thread.

\* A thread returns: the supervisor's goes on in the scheduler.
Back(t, pc, g) ==
  IF t = Worker THEN [Resting EXCEPT !.pc = pc, !.goal = g] ELSE Resting

Return(t)    == eval' = [eval EXCEPT ![t] = Back(t, "settle", eval[t].goal)]
Raise(t)     == eval' = [eval EXCEPT ![t] = Back(t, "raised", eval[t].goal)]
Goto(t, pc)  == eval' = [eval EXCEPT ![t].pc = pc]

\* The copy of an evaluation is written back, with a status of its own.
Write(t, status, counted) ==
  Store(eval[t].goal, [status |-> status, evals |-> eval[t].evals + counted,
                       subs |-> eval[t].subs])

\* Mutant: a goal that has not failed counts as completed.
DepsNotFailed(g) == \A d \in Deps[g] : goal[d].status \notin Ended \ {"completed"}

DepsOpen(g)      == \E d \in Deps[g] : goal[d].status \notin Ended
DepsFailed(g)    == \E d \in Deps[g] : goal[d].status \in Ended \ {"completed"}
DepsCompleted(g) == \A d \in Deps[g] : goal[d].status = "completed"

\* The copy is taken; a goal that ended or is paused is left at once.
Start(t, g) ==
  /\ eval' = [eval EXCEPT ![t] =
       IF goal[g].status \in Ended \cup {"paused"}
       THEN Back(t, "settle", g)
       ELSE [pc |-> "check", goal |-> g, evals |-> goal[g].evals,
             subs |-> goal[g].subs, pending |-> FALSE]]
  /\ shared' = IF \E o \in Threads \ {t} : Evaluating(o) /\ eval[o].goal = g
               THEN shared \cup {g} ELSE shared

ExecuteGoal(u, g) ==
  /\ eval[u].pc = "idle" /\ goal[g].status \notin Ended \cup {"none", "paused"}
  /\ Start(u, g)
  /\ UNCHANGED <<goal, asked, task, batch, room, active, calls, owner, lapsed, done>>

\* Mutant: one evaluation too many.
SpentLate(t) == eval[t].evals > MaxEvals

Spent(t) == eval[t].evals >= MaxEvals

\* The dependencies are looked at in the order of their list: the first one that
\* is not completed decides.
Check(t) ==
  /\ eval[t].pc = "check"
  /\ LET g == eval[t].goal
     IN \/ g \in MayExpire /\ Write(t, "expired", 0) /\ Return(t)
        \/ Spent(t) /\ Write(t, "failed", 0) /\ Return(t)
        \/ /\ ~Spent(t)
           /\ \/ DepsFailed(g) /\ Write(t, "blocked", 0) /\ Return(t)
              \/ /\ DepsOpen(g) \/ (DepsCompleted(g) /\ g \in asked)
                 /\ UNCHANGED <<goal, done>> /\ Return(t)
              \/ /\ DepsCompleted(g) /\ g \notin asked
                 /\ Write(t, "evaluating", 0) /\ Goto(t, "judge")
  /\ UNCHANGED <<asked, task, batch, room, active, calls, owner, lapsed, shared>>

SubFailed(t)  == \E s \in eval[t].subs : goal[s].status \in {"failed", "cancelled"}
SubPending(t) == \E s \in eval[t].subs : goal[s].status \notin {"failed", "cancelled", "completed"}

\* The reasoner has answered.  The goal is given up when it stagnates or has used
\* its actions.
Judge(t) ==
  /\ eval[t].pc = "judge"
  /\ \/ Write(t, "failed", 1) /\ Return(t)
     \/ SubFailed(t) /\ Write(t, "blocked", 1) /\ Return(t)
     \/ /\ ~SubFailed(t)
        /\ \/ Write(t, IF SubPending(t) THEN "active" ELSE "completed", 1) /\ Return(t)
           \/ Write(t, "active", 1) /\ Return(t)
           \/ /\ eval' = [eval EXCEPT ![t].pc = "acquire", ![t].pending = SubPending(t)]
              /\ UNCHANGED <<goal, done>>
  /\ UNCHANGED <<asked, task, batch, room, active, calls, owner, lapsed, shared>>

\* The first step of the plan asks the user.
AskUser(t) ==
  /\ eval[t].pc = "acquire" /\ eval[t].goal \notin TeamGoals
  /\ asked' = asked \cup {eval[t].goal}
  /\ Write(t, "paused", 1) /\ Return(t)
  /\ UNCHANGED <<task, batch, room, active, calls, owner, lapsed, shared>>

AcquireQuota(t) ==
  /\ eval[t].pc = "acquire"
  /\ LET g == eval[t].goal
     IN \/ /\ ~QuotaGranted(g)
           /\ Write(t, "active", 1) /\ Return(t) /\ UNCHANGED active
        \/ /\ QuotaGranted(g)
           /\ active' = active \cup {g}
           /\ Write(t, "executing", 0)
           /\ Goto(t, IF g \in TeamGoals THEN "run" ELSE "lock")
  /\ UNCHANGED <<asked, task, batch, room, calls, owner, lapsed, shared>>

\* A conflict gives the quota back and keeps the slot.
AcquireLocks(t) ==
  /\ eval[t].pc = "lock"
  /\ LET g == eval[t].goal
     IN \/ /\ ~LocksGranted(g)
           /\ Write(t, "active", 1) /\ Return(t) /\ UNCHANGED <<owner, lapsed>>
        \/ /\ LocksGranted(g) /\ owner' = Locked(g) /\ lapsed' = lapsed \ {g}
           /\ Write(t, "executing", 0) /\ Goto(t, "run")
  /\ UNCHANGED <<asked, task, batch, room, active, calls, shared>>

\* The executor pauses the plan for an approval: neither locks nor slot are freed.
RunPauses(t) ==
  /\ eval[t].pc = "run" /\ eval[t].goal \notin TeamGoals
  /\ Write(t, "paused", 1) /\ Return(t)
  /\ UNCHANGED <<asked, task, batch, room, active, calls, owner, lapsed, shared>>

\* The plan has run.  Its observation is refused when the goal ended meanwhile, and
\* the evaluation with it; a team's observation is stored without that test.
RunEnds(t) ==
  /\ eval[t].pc = "run"
  /\ LET g == eval[t].goal
     IN /\ owner' = IF g \in TeamGoals \/ NeedsOf[g] = {} THEN owner ELSE Unlocked(g)
        /\ calls' = [calls EXCEPT ![g] = IF @ < MaxCalls THEN @ + 1 ELSE @]
        /\ IF g \notin TeamGoals /\ goal[g].status \in Ended
           THEN Raise(t) ELSE Goto(t, "finish")
  /\ UNCHANGED <<goal, asked, task, batch, room, active, lapsed, done, shared>>

\* The goal is abandoned after a failure, or judged again.
Finish(t) ==
  /\ eval[t].pc = "finish"
  /\ \E status \in {"failed", "progress_updated"}
                   \cup (IF eval[t].pending THEN {} ELSE {"completed"}) :
       Write(t, status, 1)
  /\ Return(t)
  /\ UNCHANGED <<asked, task, batch, room, active, calls, owner, lapsed, shared>>

\* The reasoner, the executor or the adapter raises: the goal keeps the status it was
\* last given, and a direct execution its slot and its locks.
EvaluationRaises(t) ==
  /\ \/ eval[t].pc \in {"judge", "finish"}
     \/ eval[t].pc = "run" /\ eval[t].goal \notin TeamGoals
  /\ Raise(t)
  /\ UNCHANGED <<goal, asked, task, batch, room, active, calls, owner, lapsed, done, shared>>

Evaluate(t) ==
  \/ Check(t) \/ Judge(t) \/ AskUser(t) \/ AcquireQuota(t) \/ AcquireLocks(t)
  \/ RunPauses(t) \/ RunEnds(t) \/ Finish(t) \/ EvaluationRaises(t)

-----------------------------------------------------------------------------
\* The scheduler, stepped by the supervisor.

\* schedule_goal keeps a running task.
Scheduled(g) == IF task[g] = "running" THEN "running" ELSE "queued"

\* An event schedules the goal that subscribed to it, whatever its status.
ScheduleOnEvent(g) ==
  /\ Exists(g) /\ eval[Worker].pc = "idle" /\ batch = {} /\ task[g] # Scheduled(g)
  /\ task' = [task EXCEPT ![g] = Scheduled(g)]
  /\ UNCHANGED <<goal, asked, batch, room, active, calls, owner, lapsed, eval, done, shared>>

\* step_scheduled_goals: the active goals are scheduled, the batch begins.
BeginBatch ==
  /\ eval[Worker].pc = "idle" /\ batch = {}
  /\ task' = [g \in Goals |-> IF goal[g].status = "active" THEN Scheduled(g) ELSE task[g]]
  /\ LET free == Slots - Cardinality({g \in Goals : task'[g] = "running"})
     IN /\ batch' = IF free > 0 THEN {g \in Goals : task'[g] = "queued"} ELSE {}
        /\ room' = IF batch' = {} THEN 0 ELSE free
  /\ UNCHANGED <<goal, asked, active, calls, owner, lapsed, eval, done, shared>>

\* A candidate is dropped, skipped or evaluated.
Candidate(g) ==
  /\ eval[Worker].pc = "idle" /\ g \in batch /\ room > 0
  /\ IF goal[g].status \notin Ended /\ DepsCompleted(g) /\ QuotaGranted(g)
     THEN /\ active' = active \cup {g}
          /\ task' = [task EXCEPT ![g] = "running"]
          /\ Start(Worker, g)
          /\ UNCHANGED batch
          /\ UNCHANGED room
     ELSE /\ batch' = batch \ {g}
          /\ room' = IF batch' = {} THEN 0 ELSE room
          /\ task' = IF goal[g].status \in Ended
                     THEN [task EXCEPT ![g] = "completed"] ELSE task
          /\ UNCHANGED <<active, eval, shared>>
  /\ UNCHANGED <<goal, asked, calls, owner, lapsed, done>>

EndBatch ==
  /\ eval[Worker].pc = "idle" /\ batch # {} /\ room = 0
  /\ batch' = {}
  /\ UNCHANGED <<goal, asked, task, room, active, calls, owner, lapsed, eval, done, shared>>

\* Mutant: only an active goal is queued again.
OutcomeOfActive(g) ==
  CASE goal[g].status = "active" -> "queued"
    [] goal[g].status = "paused" -> "paused"
    [] goal[g].status = "failed" \/ eval[Worker].pc = "raised" -> "failed"
    [] OTHER -> "completed"

\* The status decides what becomes of the task; an exception fails it.
Outcome(g) ==
  CASE eval[Worker].pc = "raised" -> "failed"
    [] goal[g].status \in {"completed", "paused", "failed"} -> goal[g].status
    [] OTHER -> "queued"

Settle ==
  /\ eval[Worker].pc \in {"settle", "raised"}
  /\ LET g == eval[Worker].goal
     IN /\ task' = [task EXCEPT ![g] = Outcome(g)]
        /\ owner' = Unlocked(g)
        /\ active' = active \ {g}
        /\ batch' = batch \ {g}
  /\ room' = IF batch' = {} THEN 0
             ELSE IF eval[Worker].pc = "raised" THEN room ELSE room - 1
  /\ eval' = [eval EXCEPT ![Worker] = Resting]
  /\ UNCHANGED <<goal, asked, calls, lapsed, done, shared>>

WorkerNext ==
  BeginBatch \/ (\E g \in Goals : Candidate(g)) \/ EndBatch \/ Evaluate(Worker) \/ Settle

-----------------------------------------------------------------------------
OperatorNext == \E g \in Steered : PauseGoal(g) \/ ResumeGoal(g) \/ CancelGoal(g)
                                 \/ ScheduleOnEvent(g)

UserNext(u) == LinkParent(u) \/ Evaluate(u)
               \/ (\E g \in Goals : CreateGoal(u, g)) \/ (\E g \in Direct : ExecuteGoal(u, g))

Next ==
  \/ WorkerNext
  \/ \E u \in Users : UserNext(u)
  \/ OperatorNext
  \/ \E g \in Goals : CloseClarification(g)
  \/ \E r \in Resources : LapseLock(r)

Spec == Init /\ [][Next]_vars

-----------------------------------------------------------------------------
Executing(t) == eval[t].pc = "run"

\* No plan of a goal runs, whoever executes it, before the goals it depends on were
\* completed: the scheduler and evaluate_goal look at statuses that other threads
\* are overwriting at that time.
DependenciesFirst ==
  \A t \in Threads : Executing(t) => Deps[eval[t].goal] \subseteq done

\* While a goal is evaluated by one thread at a time, it has one of the slots when it
\* executes; and no two of these goals use one resource as long as the leases of
\* their locks last: neither the scheduler's clean-up, nor an evaluation on its way
\* out, nor a goal whose own lease has run out frees what another goal holds.
ExclusiveExecutions ==
  LET running == {g \in Goals \ shared : \E t \in Threads : Executing(t) /\ eval[t].goal = g}
      leased  == running \ (TeamGoals \cup lapsed)
  IN /\ running \subseteq active
     /\ \A g, h \in leased : g # h => NeedsOf[g] \cap NeedsOf[h] = {}

\* A goal that only the supervisor evaluates and that is neither active nor ended nor
\* paused, and so is enqueued by nothing, is in the scheduler's queue or being
\* evaluated, whatever the operator did to it and whenever: unless an exception made
\* the scheduler give it up.
NoGoalIsForgotten ==
  \A g \in Goals \ Direct :
    goal[g].status \in Open => task[g] \in {"queued", "running", "failed"}
=============================================================================
