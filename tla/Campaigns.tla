----------------------------- MODULE Campaigns -----------------------------
(***************************************************************************)
(* Campaigns: a mission campaign of one process, executed phase by phase   *)
(* by one or more workers, with the saga that records what was done, the   *)
(* compensations that undo it, and the self-healing of failed phases.      *)
(*                                                                         *)
(* Three locks meet here: the engine's lock (statuses, cancel, rollback),  *)
(* the lock of the saga, held by whoever compensates, and the locks of the *)
(* graph and the log, each taken for one operation.                        *)
(*                                                                         *)
(* What a goal, a milestone, a compensating action and a diagnosis come to *)
(* is a choice, and so is the order in which the ready phases are taken    *)
(* (the order of registration).  Artifacts and their routing, tracing and  *)
(* streams are left out, and contingency phases, which nothing injects.    *)
(***************************************************************************)
EXTENDS Naturals, Sequences, FiniteSets

CONSTANTS
  Phases,      \* phase ids
  DependsOn,   \* depends_on_phase_ids of each phase
  GoalsOf,     \* how many goals each phase has
  Gated,       \* phases with milestones
  Workers,     \* threads that call execute_campaign
  Operators,   \* threads that call cancel_campaign and rollback_campaign
  OptionSets,  \* values of auto_heal_on_failure and auto_compensate_on_failure
  Nobody,      \* no thread, no phase
  MaxAttempts, \* max_healing_attempts_per_phase
  LogSize,     \* MAX_SAGA_STEPS
  MaxSteps,    \* bound: saga steps recorded in all
  MaxCalls     \* bound: calls of execute_campaign, cancel_campaign and rollback_campaign

ASSUME CampaignsAssumption ==
  /\ DependsOn \in [Phases -> SUBSET Phases]
  /\ GoalsOf \in [Phases -> Nat]
  /\ Gated \subseteq Phases
  /\ OptionSets \subseteq [heal : BOOLEAN, compensate : BOOLEAN]
  /\ Workers \cap Operators = {}
  /\ Nobody \notin Workers \cup Operators \cup Phases
  /\ LogSize \in Nat \ {0} /\ MaxAttempts \in Nat \ {0} /\ MaxSteps \in Nat
  /\ MaxCalls \in Nat

VARIABLES
  options,   \* auto_heal_on_failure and auto_compensate_on_failure
  status,    \* status of the campaign
  engine,    \* owner of the engine's lock, while held over several steps
  phase,     \* the mission graph: status of each phase
  log,       \* the saga's log
  recorded,  \* history: the phase of every step that was ever recorded
  undone,    \* history: how often all actions of a step were carried out
  undo,      \* the compensation under the saga's lock
  attempts,  \* healing attempts of each phase
  unhealed,  \* phases with a healing in the history that did not recover
  thread,    \* what each thread is doing
  calls,     \* how many calls there were
  overlap,   \* history: two workers were executing the campaign at once
  withdrawn  \* history: all steps of the campaign were compensated

vars == <<options, status, engine, phase, log, recorded, undone, undo, attempts,
          unhealed, thread, calls, overlap, withdrawn>>

Threads == Workers \cup Operators

Terminal       == {"completed", "failed", "cancelled"}
CampaignStatus == Terminal \cup {"scheduled", "running", "recovering", "compensating"}
PhaseStatus    == {"pending", "running", "healing", "completed", "failed"}
StepStatus     == {"forward_executed", "compensated", "compensation_failed"}

StepIds == 1..Len(recorded)

PC == {"idle", "next", "goals", "completed", "broken", "recovering", "heal", "diagnose",
       "rollback", "recovered", "resume", "failed", "compensate", "raised",
       "withdraw", "verdict", "cancel", "restore"}

SagaStep    == [id : StepIds, status : StepStatus]
ThreadState == [pc : PC, ready : SUBSET Phases, at : Phases \cup {Nobody}, goal : Nat,
                failed : BOOLEAN]

TypeOK ==
  /\ options \in [heal : BOOLEAN, compensate : BOOLEAN]
  /\ status \in CampaignStatus
  /\ engine \in Operators \cup {Nobody}
  /\ phase \in [Phases -> PhaseStatus]
  /\ recorded \in Seq(Phases) /\ Len(recorded) <= MaxSteps
  /\ undone \in [1..MaxSteps -> Nat]
  /\ log \in Seq(SagaStep)
  /\ undo \in [by : Threads \cup {Nobody}, todo : SUBSET [at : 1..Len(log), id : StepIds]]
  /\ attempts \in [Phases -> 0..MaxAttempts] /\ unhealed \subseteq Phases
  /\ thread \in [Threads -> ThreadState]
  /\ calls \in 0..MaxCalls /\ overlap \in BOOLEAN /\ withdrawn \in BOOLEAN

Resting == [pc |-> "idle", ready |-> {}, at |-> Nobody, goal |-> 0, failed |-> FALSE]

\* A campaign has been submitted.
Init ==
  /\ options \in OptionSets
  /\ status = "scheduled" /\ engine = Nobody
  /\ phase = [p \in Phases |-> "pending"]
  /\ log = <<>> /\ recorded = <<>> /\ undone = [i \in 1..MaxSteps |-> 0]
  /\ undo = [by |-> Nobody, todo |-> {}]
  /\ attempts = [p \in Phases |-> 0] /\ unhealed = {}
  /\ thread = [t \in Threads |-> Resting]
  /\ calls = 0 /\ overlap = FALSE /\ withdrawn = FALSE

Goto(t, pc) == thread' = [thread EXCEPT ![t].pc = pc]

\* A phase is left: the next one of the ready ones, or none of them any more.
Proceed(t, ready) ==
  thread' = [thread EXCEPT ![t] = [@ EXCEPT !.pc = "next", !.ready = ready, !.at = Nobody]]

Mark(p, s) == phase' = [phase EXCEPT ![p] = s]

-----------------------------------------------------------------------------
\* The mission graph.

\* Mutant: a prerequisite that has ended will do.
ReadyAfterEnd == {p \in Phases : /\ phase[p] = "pending"
                                 /\ \A d \in DependsOn[p] : phase[d] \in Terminal}

Ready == {p \in Phases : /\ phase[p] = "pending"
                         /\ \A d \in DependsOn[p] : phase[d] = "completed"}

IsSuccessful    == \A p \in Phases : phase[p] = "completed"
HasFailedPhases == \E p \in Phases : phase[p] = "failed"

-----------------------------------------------------------------------------
\* The saga: its log, and compensations under its lock.

\* record_step: a full log loses its oldest step.
Recorded(p) ==
  Append(IF Len(log) >= LogSize THEN Tail(log) ELSE log,
         [id |-> Len(recorded) + 1, status |-> "forward_executed"])

\* update_step: a step that is not in the log any more is appended.
Updated(id, s) ==
  IF \E i \in DOMAIN log : log[i].id = id
  THEN [i \in DOMAIN log |-> IF log[i].id = id THEN [log[i] EXCEPT !.status = s] ELSE log[i]]
  ELSE Append(log, [id |-> id, status |-> s])

\* Mutant: what was compensated before is not skipped.
ToUndoAgain(S) ==
  {[at |-> i, id |-> log[i].id] : i \in {n \in DOMAIN log : recorded[log[n].id] \in S}}

\* The steps of the phases in S that a compensation finds in the log and has to undo.
ToUndo(S) ==
  {[at |-> i, id |-> log[i].id] :
     i \in {n \in DOMAIN log : recorded[log[n].id] \in S /\ log[n].status # "compensated"}}

BeginUndo(t, S) ==
  /\ undo.by = Nobody
  /\ undo' = [by |-> t, todo |-> ToUndo(S)]

\* One step, the last one first: all its actions are carried out, or one of them fails.
\* That it is being compensated is seen by nobody who decides on it.
UndoStep(t) ==
  /\ undo.by = t
  /\ \E s \in undo.todo :
       /\ \A r \in undo.todo : r.at <= s.at
       /\ \/ log' = Updated(s.id, "compensated") /\ undone' = [undone EXCEPT ![s.id] = @ + 1]
          \/ log' = Updated(s.id, "compensation_failed") /\ UNCHANGED undone
       /\ undo' = [undo EXCEPT !.todo = @ \ {s}]
  /\ UNCHANGED <<options, status, engine, phase, recorded, attempts, unhealed, thread, calls,
                 overlap, withdrawn>>

EndUndo(t) ==
  /\ undo.by = t /\ undo.todo = {}
  /\ undo' = [by |-> Nobody, todo |-> {}]

-----------------------------------------------------------------------------
\* execute_campaign.

Active(t) == thread[t].pc # "idle"

\* A call of an idle thread gets the engine's lock.
Call(t) ==
  /\ ~Active(t) /\ engine = Nobody
  /\ calls < MaxCalls /\ calls' = calls + 1

Enter(t) ==
  /\ Call(t)
  /\ status' = "running"
  /\ thread' = [thread EXCEPT ![t] = [Resting EXCEPT !.pc = "next"]]
  /\ overlap' = (overlap \/ \E w \in Workers : Active(w))
  /\ UNCHANGED <<options, engine, phase, log, recorded, undone, undo, attempts, unhealed,
                 withdrawn>>

AtTop(t) == thread[t].pc = "next" /\ thread[t].ready = {}

Discover(t) ==
  /\ AtTop(t) /\ Ready # {}
  /\ Proceed(t, Ready)
  /\ UNCHANGED <<options, status, engine, phase, log, recorded, undone, undo, attempts,
                 unhealed, calls, overlap, withdrawn>>

\* The loop ends: every phase is terminal, one has failed and none is ready, or the
\* iterations are used up (as they are by waiting for another worker).
Leave(t) ==
  /\ AtTop(t) /\ Goto(t, "verdict")
  /\ UNCHANGED <<options, status, engine, phase, log, recorded, undone, undo, attempts,
                 unhealed, calls, overlap, withdrawn>>

\* The time of the campaign is up.
TimeOut(t) ==
  /\ AtTop(t) /\ Goto(t, "raised")
  /\ UNCHANGED <<options, status, engine, phase, log, recorded, undone, undo, attempts,
                 unhealed, calls, overlap, withdrawn>>

StartPhase(t) ==
  /\ thread[t].pc = "next"
  /\ \E p \in thread[t].ready :
       /\ Mark(p, "running")
       /\ thread' = [thread EXCEPT ![t] = [thread[t] EXCEPT
            !.pc = "goals", !.at = p, !.goal = 0, !.ready = thread[t].ready \ {p}]]
  /\ UNCHANGED <<options, status, engine, log, recorded, undone, undo, attempts,
                 unhealed, calls, overlap, withdrawn>>

\* The next goal of the phase succeeds, fails or raises.  Only success is recorded.
RunGoal(t) ==
  /\ thread[t].pc = "goals" /\ thread[t].goal < GoalsOf[thread[t].at]
  /\ \/ /\ Len(recorded) < MaxSteps
        /\ log' = Recorded(thread[t].at)
        /\ recorded' = Append(recorded, thread[t].at)
        /\ thread' = [thread EXCEPT ![t] = [thread[t] EXCEPT !.goal = thread[t].goal + 1]]
     \/ (Goto(t, "broken") \/ Goto(t, "raised")) /\ UNCHANGED <<log, recorded>>
  /\ UNCHANGED <<options, status, engine, phase, undone, undo, attempts, unhealed,
                 calls, overlap, withdrawn>>

GoalsDone(t) == thread[t].pc = "goals" /\ thread[t].goal >= GoalsOf[thread[t].at]

\* The milestones are verified.  The phase is stored as it was when it was found
\* ready: pending.
PassGate(t) ==
  /\ GoalsDone(t) /\ thread[t].at \in Gated
  /\ \/ Mark(thread[t].at, "pending") /\ (Goto(t, "completed") \/ Goto(t, "broken"))
     \/ UNCHANGED phase /\ Goto(t, "raised")
  /\ UNCHANGED <<options, status, engine, log, recorded, undone, undo, attempts,
                 unhealed, calls, overlap, withdrawn>>

CompletePhase(t) ==
  /\ thread[t].pc = "completed" \/ (GoalsDone(t) /\ thread[t].at \notin Gated)
  /\ Mark(thread[t].at, "completed")
  /\ Proceed(t, thread[t].ready)
  /\ UNCHANGED <<options, status, engine, log, recorded, undone, undo, attempts,
                 unhealed, calls, overlap, withdrawn>>

\* The phase has failed: the other ready ones are given up, the loop goes on.
FailPhase(t) ==
  /\ thread[t].pc = "failed" \/ (thread[t].pc = "broken" /\ ~options.heal)
  /\ Mark(thread[t].at, "failed")
  /\ thread' = [thread EXCEPT ![t] = [thread[t] EXCEPT
       !.failed = TRUE, !.ready = {},
       !.pc = IF options.compensate THEN "compensate" ELSE "next",
       !.at = IF options.compensate THEN thread[t].at ELSE Nobody]]
  /\ UNCHANGED <<options, status, engine, log, recorded, undone, undo, attempts,
                 unhealed, calls, overlap, withdrawn>>

\* compensate_phase, by a worker whose phase failed, or by its healing.
CompensatePhase(t) ==
  /\ thread[t].pc \in {"compensate", "rollback"} /\ BeginUndo(t, {thread[t].at})
  /\ UNCHANGED <<options, status, engine, phase, log, recorded, undone, attempts,
                 unhealed, thread, calls, overlap, withdrawn>>

PhaseCompensated(t) ==
  /\ thread[t].pc = "compensate" /\ EndUndo(t)
  /\ Proceed(t, {})
  /\ UNCHANGED <<options, status, engine, phase, log, recorded, undone, attempts,
                 unhealed, calls, overlap, withdrawn>>

Verdict(t) ==
  IF IsSuccessful THEN "completed"
  ELSE IF HasFailedPhases \/ thread[t].failed THEN "failed"
  ELSE "cancelled"

Conclude(t) ==
  /\ thread[t].pc = "verdict" /\ engine = Nobody
  /\ status' = Verdict(t)
  /\ thread' = [thread EXCEPT ![t] = Resting]
  /\ UNCHANGED <<options, engine, phase, log, recorded, undone, undo, attempts,
                 unhealed, calls, overlap, withdrawn>>

\* Mutant: the handler of an exception leaves the status as it is.
AbortSilently(t) ==
  /\ thread[t].pc = "raised" /\ engine = Nobody
  /\ thread' = [thread EXCEPT ![t] = IF options.compensate
                                     THEN [Resting EXCEPT !.pc = "withdraw"] ELSE Resting]
  /\ UNCHANGED <<options, status, engine, phase, log, recorded, undone, undo, attempts,
                 unhealed, calls, overlap, withdrawn>>

\* The handler of an exception: failed, and everything is compensated.
Abort(t) ==
  /\ thread[t].pc = "raised" /\ engine = Nobody
  /\ status' = "failed"
  /\ thread' = [thread EXCEPT ![t] = IF options.compensate
                                     THEN [Resting EXCEPT !.pc = "withdraw"] ELSE Resting]
  /\ UNCHANGED <<options, engine, phase, log, recorded, undone, undo, attempts, unhealed,
                 calls, overlap, withdrawn>>

CompensateAll(t) ==
  /\ thread[t].pc \in {"withdraw", "cancel", "restore"} /\ BeginUndo(t, Phases)
  /\ withdrawn' = TRUE
  /\ UNCHANGED <<options, status, engine, phase, log, recorded, undone, attempts,
                 unhealed, thread, calls, overlap>>

Withdrawn(t) ==
  /\ thread[t].pc = "withdraw" /\ EndUndo(t)
  /\ thread' = [thread EXCEPT ![t] = Resting]
  /\ UNCHANGED <<options, status, engine, phase, log, recorded, undone, attempts,
                 unhealed, calls, overlap, withdrawn>>

-----------------------------------------------------------------------------
\* The healing of a failed phase.

BeginHealing(t) ==
  /\ thread[t].pc = "broken" /\ options.heal
  /\ Mark(thread[t].at, "healing") /\ Goto(t, "recovering")
  /\ UNCHANGED <<options, status, engine, log, recorded, undone, undo, attempts,
                 unhealed, calls, overlap, withdrawn>>

SayRecovering(t) ==
  /\ thread[t].pc = "recovering" /\ engine = Nobody
  /\ status' = "recovering" /\ Goto(t, "heal")
  /\ UNCHANGED <<options, engine, phase, log, recorded, undone, undo, attempts, unhealed,
                 calls, overlap, withdrawn>>

\* A healing that ended is remembered; only a recovery brings the phase back.
Healed(t, recovered) ==
  /\ Goto(t, IF recovered THEN "recovered" ELSE "failed")
  /\ unhealed' = IF recovered THEN unhealed ELSE unhealed \cup {thread[t].at}

\* Mutant: one healing too many.
CountAttemptLate(t) ==
  /\ thread[t].pc = "heal"
  /\ LET p == thread[t].at
     IN \/ attempts[p] > MaxAttempts /\ Healed(t, FALSE) /\ UNCHANGED attempts
        \/ /\ attempts[p] <= MaxAttempts
           /\ attempts' = [attempts EXCEPT ![p] = @ + 1]
           /\ Goto(t, "diagnose") /\ UNCHANGED unhealed
  /\ UNCHANGED <<options, status, engine, phase, log, recorded, undone, undo, calls, overlap,
                 withdrawn>>

\* The attempt is counted, unless the budget of the phase is used up.
CountAttempt(t) ==
  /\ thread[t].pc = "heal"
  /\ LET p == thread[t].at
     IN \/ attempts[p] >= MaxAttempts /\ Healed(t, FALSE) /\ UNCHANGED attempts
        \/ /\ attempts[p] < MaxAttempts
           /\ attempts' = [attempts EXCEPT ![p] = @ + 1]
           /\ Goto(t, "diagnose") /\ UNCHANGED unhealed
  /\ UNCHANGED <<options, status, engine, phase, log, recorded, undone, undo, calls,
                 overlap, withdrawn>>

\* A phase that was not healed before is given up as a loop.
Repeated(p) == attempts[p] > 1 /\ p \in unhealed

\* The plan is carried out: it recovers the phase, fails or escalates, or starts with
\* a rollback of the phase.
Diagnose(t) ==
  /\ thread[t].pc = "diagnose"
  /\ \/ Healed(t, FALSE)
     \/ /\ ~Repeated(thread[t].at)
        /\ Healed(t, TRUE) \/ (Goto(t, "rollback") /\ UNCHANGED unhealed)
  /\ UNCHANGED <<options, status, engine, phase, log, recorded, undone, undo, attempts,
                 calls, overlap, withdrawn>>

\* After a rollback the plan escalates to the operator.
RolledBack(t) ==
  /\ thread[t].pc = "rollback" /\ EndUndo(t)
  /\ Healed(t, FALSE)
  /\ UNCHANGED <<options, status, engine, phase, log, recorded, undone, attempts,
                 calls, overlap, withdrawn>>

\* Mutant: a phase that recovered is taken for completed.
RetryNothing(t) ==
  /\ thread[t].pc = "recovered"
  /\ Mark(thread[t].at, "completed") /\ Goto(t, "resume")
  /\ UNCHANGED <<options, status, engine, log, recorded, undone, undo, attempts,
                 unhealed, calls, overlap, withdrawn>>

\* The phase is pending once more.
RetryPhase(t) ==
  /\ thread[t].pc = "recovered"
  /\ Mark(thread[t].at, "pending") /\ Goto(t, "resume")
  /\ UNCHANGED <<options, status, engine, log, recorded, undone, undo, attempts,
                 unhealed, calls, overlap, withdrawn>>

\* The other ready phases come first, then the loop finds the phase again.
ResumeCampaign(t) ==
  /\ thread[t].pc = "resume" /\ engine = Nobody
  /\ status' = "running"
  /\ Proceed(t, thread[t].ready)
  /\ UNCHANGED <<options, engine, phase, log, recorded, undone, undo, attempts, unhealed,
                 calls, overlap, withdrawn>>

-----------------------------------------------------------------------------
\* The operators.  Both keep the engine's lock while they compensate.

Cancel(t) ==
  /\ Call(t) /\ status \notin Terminal
  /\ status' = "cancelled"
  /\ IF options.compensate THEN engine' = t /\ Goto(t, "cancel")
     ELSE UNCHANGED <<engine, thread>>
  /\ UNCHANGED <<options, phase, log, recorded, undone, undo, attempts, unhealed,
                 overlap, withdrawn>>

Rollback(t) ==
  /\ Call(t)
  /\ status' = "compensating"
  /\ engine' = t /\ Goto(t, "restore")
  /\ UNCHANGED <<options, phase, log, recorded, undone, undo, attempts, unhealed,
                 overlap, withdrawn>>

OperatorDone(t) ==
  /\ thread[t].pc \in {"cancel", "restore"} /\ EndUndo(t)
  /\ status' = IF thread[t].pc = "restore" THEN "failed" ELSE status
  /\ engine' = Nobody /\ Goto(t, "idle")
  /\ UNCHANGED <<options, phase, log, recorded, undone, attempts, unhealed, calls,
                 overlap, withdrawn>>

-----------------------------------------------------------------------------
\* What a thread does once it has begun.
Undo(t) == UndoStep(t) \/ CompensatePhase(t) \/ CompensateAll(t)

Execute(t) ==
  \/ Discover(t) \/ Leave(t) \/ TimeOut(t) \/ StartPhase(t) \/ RunGoal(t) \/ PassGate(t)
  \/ CompletePhase(t) \/ FailPhase(t) \/ PhaseCompensated(t) \/ Conclude(t) \/ Abort(t)
  \/ Withdrawn(t)

Heal(t) ==
  \/ BeginHealing(t) \/ SayRecovering(t) \/ CountAttempt(t) \/ Diagnose(t)
  \/ RolledBack(t) \/ RetryPhase(t) \/ ResumeCampaign(t)

Next ==
  \/ \E w \in Workers : Enter(w) \/ Execute(w) \/ Heal(w)
  \/ \E o \in Operators : Cancel(o) \/ Rollback(o) \/ OperatorDone(o)
  \/ \E t \in Threads : Undo(t)

Spec == Init /\ [][Next]_vars

-----------------------------------------------------------------------------
\* Whoever compensates, a worker, its healing or an operator, and however often: the
\* actions of a step that were all carried out are not carried out again.
UndoneOnce == \A i \in StepIds : undone[i] <= 1

\* A campaign that says it is running or recovering is being executed, and one that
\* says it is compensating is being rolled back: with the last thread comes a final
\* status, whatever the others wrote in between.
RunningIsDriven ==
  /\ status \in {"running", "recovering"} => \E w \in Workers : Active(w)
  /\ status = "compensating" => \E o \in Operators : thread[o].pc = "restore"

Done == {p \in Phases : phase[p] = "completed"}

Due(p) == DependsOn[p] \subseteq Done

\* While one worker at a time executes the campaign, a phase that was ever begun, by its
\* status or by an effect in the saga, has all its prerequisites completed, although the
\* ready phases are found once and taken up after others failed, were healed or retried.
PhasesInOrder ==
  ~overlap => \A p \in Phases :
    phase[p] # "pending" \/ (\E i \in StepIds : recorded[i] = p) => Due(p)

StatusOf(i) == LET at == {n \in DOMAIN log : log[n].id = i}
               IN  IF at = {} THEN "lost" ELSE log[CHOOSE n \in at : TRUE].status

\* The steps of a phase whose effects nobody has tried to undo, or forgotten.
InForce(p) == {i \in StepIds : recorded[i] = p /\ undone[i] = 0
                               /\ StatusOf(i) = "forward_executed"}

\* The log lost none of the steps of p: what it loses is never undone.
Remembered(p) == \A i \in StepIds : recorded[i] = p => StatusOf(i) # "lost"

\* A campaign that one worker executes at a time, and that was never compensated as a
\* whole: a failed phase that its worker has left keeps no effects, and a completed one
\* keeps those of all its goals, through healings, retries and rollbacks, as long as the
\* log remembers the steps of the phase.
EffectsMatchPhases ==
  ~overlap /\ ~withdrawn => \A p \in Phases : Remembered(p) =>
    /\ phase[p] = "completed" => Cardinality(InForce(p)) >= GoalsOf[p]
    /\ phase[p] = "failed" /\ options.compensate /\ (\A w \in Workers : thread[w].at # p)
         => InForce(p) = {}
=============================================================================
