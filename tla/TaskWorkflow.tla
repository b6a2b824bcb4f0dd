---------------------------- MODULE TaskWorkflow ----------------------------
(***************************************************************************)
(* Background tasks and human approvals: BackgroundTaskWorker takes        *)
(* pending tasks, WorkflowOrchestrator.execute_task runs their steps one   *)
(* by one and halts a sensitive step until PostgresApprovalRepository has  *)
(* a decision on it.                                                       *)
(*                                                                         *)
(* One action is one repository call of the code, together with the event  *)
(* published right after it.  A call that raises has had no effect.  The   *)
(* thresholds of the sweeps (a running task untouched for 300 s, an        *)
(* approval past expires_at) may be reached at any moment.                 *)
(***************************************************************************)
EXTENDS Naturals, Sequences, FiniteSets

CONSTANTS
  Tasks,        \* task ids
  NSteps,       \* steps of a plan
  Sensitive,    \* the steps whose tool needs an approval
  MaxExec,      \* bound on the executions of one task
  Capacity      \* pool threads of all BackgroundTaskWorkers together

ASSUME WorkflowAssumption ==
  /\ NSteps \in Nat \ {0}
  /\ Sensitive \subseteq 1..NSteps
  /\ MaxExec \in Nat
  /\ Capacity \in Nat \ {0}

VARIABLES
  task,       \* tasks.status
  born,       \* task ids by created_at
  step,       \* task_steps.status
  approval,   \* status of the newest approval request of a step
  exec,       \* executions: [pc, idx, seen, token]
  announced   \* terminal events published for a task

vars == <<task, born, step, approval, exec, announced>>

Steps == 1..NSteps
Execs == 1..MaxExec

TaskStatus == {"absent", "pending", "running", "awaiting_approval",
               "completed", "failed", "cancelled", "timed_out"}
StepStatus == {"absent", "pending", "running", "awaiting_approval", "completed", "failed"}
ApprovalStatus == {"none", "pending", "approved", "rejected", "expired"}
PC == {"none", "load", "plan", "check", "gate", "request", "hold", "halt", "start",
       "tool", "record", "after", "broken", "interrupt", "refuse",
       "complete", "cancelling", "failing", "timing", "raised", "done"}

Terminal == {"completed", "failed", "cancelled", "timed_out"}

\* seen: the steps that were completed when the execution read the plan;
\* token: its CancellationToken has been set.
Exec == [pc : PC, idx : 0..NSteps + 1, seen : SUBSET Steps, token : BOOLEAN]

At(pc) == [pc |-> pc, idx |-> 0, seen |-> {}, token |-> FALSE]

TypeOK ==
  /\ task \in [Tasks -> TaskStatus]
  /\ born \in Seq(Tasks)
  /\ step \in [Tasks -> [Steps -> StepStatus]]
  /\ approval \in [Tasks -> [Steps -> ApprovalStatus]]
  /\ exec \in [Tasks -> [Execs -> Exec]]
  /\ announced \in [Tasks -> SUBSET Terminal]

Init ==
  /\ task = [t \in Tasks |-> "absent"]
  /\ born = <<>>
  /\ step = [t \in Tasks |-> [i \in Steps |-> "absent"]]
  /\ approval = [t \in Tasks |-> [i \in Steps |-> "none"]]
  /\ exec = [t \in Tasks |-> [e \in Execs |-> At("none")]]
  /\ announced = [t \in Tasks |-> {}]

Live(t, e) == exec[t][e].pc \notin {"none", "done"}

Running == {p \in Tasks \X Execs : Live(p[1], p[2])}

-----------------------------------------------------------------------------
(* The task repository.                                                    *)

Sources(status) ==
  CASE status = "awaiting_approval" -> {"running", "awaiting_approval"}
    [] status = "completed" -> {"pending", "running"}
    [] status = "cancelled" -> {"pending", "running", "awaiting_approval", "cancelled"}
    [] OTHER -> {"pending", "running", "awaiting_approval"}

\* update_task_status: a transition the table lacks changes nothing.
UpdateStatus(t, status) ==
  task' = [task EXCEPT ![t] = IF @ \in Sources(status) THEN status ELSE @]

Announce(t, event) == announced' = [announced EXCEPT ![t] = @ \cup {event}]

SetStep(t, i, status) == step' = [step EXCEPT ![t][i] = status]

Submit(t) ==
  /\ task[t] = "absent"
  /\ task' = [task EXCEPT ![t] = "pending"]
  /\ born' = Append(born, t)
  /\ UNCHANGED <<step, approval, exec, announced>>

\* acquire_next_pending_task: the oldest pending task, in one statement.
Acquire(t) ==
  /\ Cardinality(Running) < Capacity
  /\ \E n \in 1..Len(born) :
       /\ born[n] = t
       /\ task[t] = "pending"
       /\ \A m \in 1..(n - 1) : task[born[m]] # "pending"
  /\ \E e \in Execs :
       /\ exec[t][e].pc = "none"
       /\ \A d \in 1..(e - 1) : exec[t][d].pc # "none"
       /\ exec' = [exec EXCEPT ![t][e] = At("load")]
  /\ task' = [task EXCEPT ![t] = "running"]
  /\ UNCHANGED <<born, step, approval, announced>>

-----------------------------------------------------------------------------
(* execute_task.                                                           *)

Goto(t, e, from, to) ==
  /\ exec[t][e].pc = from
  /\ exec' = [exec EXCEPT ![t][e].pc = to]

End(t, e, from) ==
  /\ exec[t][e].pc = from
  /\ exec' = [exec EXCEPT ![t][e] = At("done")]

\* Mutant: what an earlier execution completed is not skipped.
LoadStepsUnseen(t, e) ==
  /\ exec[t][e].pc = "load"
  /\ exec' = [exec EXCEPT ![t][e].idx = 1,
                          ![t][e].pc = IF \A i \in Steps : step[t][i] = "absent"
                                         THEN "plan" ELSE "check"]
  /\ UNCHANGED <<task, born, step, approval, announced>>

\* get_steps; an empty answer is a task without a plan.
LoadSteps(t, e) ==
  /\ exec[t][e].pc = "load"
  /\ exec' = [exec EXCEPT ![t][e].idx = 1,
                          ![t][e].pc = IF \A i \in Steps : step[t][i] = "absent"
                                         THEN "plan" ELSE "check",
                          ![t][e].seen = {i \in Steps : step[t][i] = "completed"}]
  /\ UNCHANGED <<task, born, step, approval, announced>>

\* One step of the plan is stored; after the last one the plan is read back.
PlanStep(t, e) ==
  LET i == exec[t][e].idx
  IN
  /\ exec[t][e].pc = "plan"
  /\ SetStep(t, i, "pending")
  /\ exec' = IF i = NSteps
               THEN [exec EXCEPT ![t][e].pc = "check", ![t][e].idx = 1]
               ELSE [exec EXCEPT ![t][e].idx = i + 1]
  /\ UNCHANGED <<task, born, approval, announced>>

\* The plan is not valid, or planning raises.
PlanFails(t, e) ==
  /\ Goto(t, e, "plan", "failing")
  /\ UNCHANGED <<task, born, step, approval, announced>>

\* _is_task_cancelled reads the token and the row; a read that raises counts
\* as not cancelled.
Cancelled(t, e) == exec[t][e].token \/ task[t] = "cancelled"

NoticeCancel(t, e) ==
  /\ Cancelled(t, e)
  /\ \/ Goto(t, e, "check", "cancelling")
     \/ Goto(t, e, "after", "cancelling")
     \/ Goto(t, e, "broken", "interrupt")
  /\ UNCHANGED <<task, born, step, approval, announced>>

TimeOut(t, e) ==
  /\ ~exec[t][e].token
  /\ exec[t][e].idx \in Steps
  /\ Goto(t, e, "check", "timing")
  /\ UNCHANGED <<task, born, step, approval, announced>>

\* Mutant: the loop runs once past the last step.
NextStepPast(t, e) ==
  LET i == exec[t][e].idx
  IN
  /\ exec[t][e].pc = "check"
  /\ ~exec[t][e].token
  /\ exec' = IF i \in exec[t][e].seen
               THEN [exec EXCEPT ![t][e].idx = i + 1]
               ELSE [exec EXCEPT ![t][e].pc =
                       IF i = NSteps + 2 THEN "complete"
                       ELSE IF i \in Sensitive THEN "gate" ELSE "start"]
  /\ UNCHANGED <<task, born, step, approval, announced>>

\* The loop's next step: completed before, sensitive, or plain; past the
\* last one the task is completed.
NextStep(t, e) ==
  LET i == exec[t][e].idx
  IN
  /\ exec[t][e].pc = "check"
  /\ ~exec[t][e].token
  /\ exec' = IF i \in exec[t][e].seen
               THEN [exec EXCEPT ![t][e].idx = i + 1]
               ELSE [exec EXCEPT ![t][e].pc =
                       IF i = NSteps + 1 THEN "complete"
                       ELSE IF i \in Sensitive THEN "gate" ELSE "start"]
  /\ UNCHANGED <<task, born, step, approval, announced>>

\* The policy denies the tool.
Deny(t, e) ==
  /\ ~exec[t][e].token
  /\ exec[t][e].idx \in Steps \ exec[t][e].seen
  /\ Goto(t, e, "check", "refuse")
  /\ UNCHANGED <<task, born, step, approval, announced>>

\* What the newest approval of the step says.
Gate(status) ==
  CASE status = "approved" -> "start"
    [] status = "rejected" -> "refuse"
    [] status = "pending" -> "hold"
    [] OTHER -> "request"

CheckStepApproval(t, e) ==
  /\ Goto(t, e, "gate", Gate(approval[t][exec[t][e].idx]))
  /\ UNCHANGED <<task, born, step, approval, announced>>

CreateApproval(t, e) ==
  /\ Goto(t, e, "request", "hold")
  /\ approval' = [approval EXCEPT ![t][exec[t][e].idx] = "pending"]
  /\ UNCHANGED <<task, born, step, announced>>

HoldStep(t, e) ==
  /\ Goto(t, e, "hold", "halt")
  /\ SetStep(t, exec[t][e].idx, "awaiting_approval")
  /\ UNCHANGED <<task, born, approval, announced>>

HaltTask(t, e) ==
  /\ End(t, e, "halt")
  /\ UpdateStatus(t, "awaiting_approval")
  /\ UNCHANGED <<born, step, approval, announced>>

StartStep(t, e) ==
  /\ Goto(t, e, "start", "tool")
  /\ SetStep(t, exec[t][e].idx, "running")
  /\ UNCHANGED <<task, born, approval, announced>>

RunTool(t, e) ==
  /\ Goto(t, e, "tool", "record") \/ Goto(t, e, "tool", "broken")
  /\ UNCHANGED <<task, born, step, approval, announced>>

RecordStep(t, e) ==
  /\ Goto(t, e, "record", "after")
  /\ SetStep(t, exec[t][e].idx, "completed")
  /\ UNCHANGED <<task, born, approval, announced>>

\* No cancellation seen after the tool: on to the next step.
StepDone(t, e) ==
  /\ exec[t][e].pc = "after"
  /\ ~exec[t][e].token
  /\ exec' = [exec EXCEPT ![t][e].pc = "check", ![t][e].idx = @ + 1]
  /\ UNCHANGED <<task, born, step, approval, announced>>

\* The try block around the tool: its repository calls may raise, too.
StepRaises(t, e) ==
  /\ Goto(t, e, "record", "broken") \/ Goto(t, e, "after", "broken")
  /\ UNCHANGED <<task, born, step, approval, announced>>

\* The handler of that block, when it sees no cancellation.
StepBroken(t, e) ==
  /\ ~exec[t][e].token
  /\ Goto(t, e, "broken", "refuse")
  /\ UNCHANGED <<task, born, step, approval, announced>>

FailStep(t, e) ==
  /\ Goto(t, e, "refuse", "failing") \/ Goto(t, e, "interrupt", "cancelling")
  /\ SetStep(t, exec[t][e].idx, "failed")
  /\ UNCHANGED <<task, born, approval, announced>>

\* Mutant: the answer of update_task_status is not looked at.
CompleteUnchecked(t, e) ==
  /\ End(t, e, "complete")
  /\ UpdateStatus(t, "completed")
  /\ Announce(t, "completed")
  /\ UNCHANGED <<born, step, approval>>

\* A rejected completion announces the cancellation, if it was one.
Complete(t, e) ==
  /\ End(t, e, "complete")
  /\ UpdateStatus(t, "completed")
  /\ announced' = [announced EXCEPT ![t] =
       @ \cup (IF task[t] \in Sources("completed") THEN {"completed"}
               ELSE {task[t]} \cap {"cancelled"})]
  /\ UNCHANGED <<born, step, approval>>

\* The other outcomes are announced whether or not the write took effect.
GiveUp(t, e, from, status) ==
  /\ End(t, e, from)
  /\ UpdateStatus(t, status)
  /\ Announce(t, status)
  /\ UNCHANGED <<born, step, approval>>

\* A repository call outside the try blocks raises: _execute_single_task.
Raise(t, e) ==
  /\ exec[t][e].pc \in {"load", "gate", "request", "hold", "halt", "start", "interrupt",
                        "refuse", "complete", "cancelling", "failing", "timing"}
  /\ exec' = [exec EXCEPT ![t][e].pc = "raised"]
  /\ UNCHANGED <<task, born, step, approval, announced>>

\* Its handler leaves a cancelled task alone; its own write may raise.
ReportRaise(t, e) ==
  /\ End(t, e, "raised")
  /\ \/ ~exec[t][e].token /\ UpdateStatus(t, "failed")
     \/ UNCHANGED task
  /\ UNCHANGED <<born, step, approval, announced>>

\* The process dies, and the execution with it.
Crash(t, e) ==
  /\ Live(t, e)
  /\ exec' = [exec EXCEPT ![t][e] = At("done")]
  /\ UNCHANGED <<task, born, step, approval, announced>>

\* stop: the worker sets the token of every task it runs.
SetToken(t, e) ==
  /\ Live(t, e)
  /\ exec' = [exec EXCEPT ![t][e].token = TRUE]
  /\ UNCHANGED <<task, born, step, approval, announced>>

-----------------------------------------------------------------------------
(* The operator, and the sweeps of the worker's loop.                      *)

\* The cancel endpoint announces a cancellation whatever cancel_task said;
\* the token is set if this process runs the task.
CancelTask(t) ==
  /\ task[t] # "absent"
  /\ task' = [task EXCEPT ![t] =
                IF @ \in {"pending", "running", "awaiting_approval"} THEN "cancelled" ELSE @]
  /\ exec' \in {exec, [exec EXCEPT ![t] =
                  [e \in Execs |-> IF Live(t, e) THEN [exec[t][e] EXCEPT !.token = TRUE]
                                                 ELSE exec[t][e]]]}
  /\ Announce(t, "cancelled")
  /\ UNCHANGED <<born, step, approval>>

\* Mutant: approval requeues a running task (the table's sources of pending).
ResumedRunning(t, decision) ==
  CASE decision = "approved" /\ task[t] \in {"running", "awaiting_approval"} -> "pending"
    [] decision = "rejected" /\ task[t] = "awaiting_approval" -> "failed"
    [] OTHER -> task[t]

\* The task's status after a decision on one of its approvals.
Resumed(t, decision) ==
  CASE decision = "approved" /\ task[t] = "awaiting_approval" -> "pending"
    [] decision = "rejected" /\ task[t] = "awaiting_approval" -> "failed"
    [] OTHER -> task[t]

\* Mutant: a decision can be taken back.
DecideAgain(t, i, decision) ==
  /\ approval[t][i] # "none"
  /\ approval' = [approval EXCEPT ![t][i] = decision]
  /\ task' = [task EXCEPT ![t] = Resumed(t, decision)]
  /\ UNCHANGED <<born, step, exec, announced>>

DecideApproval(t, i, decision) ==
  /\ approval[t][i] = "pending"
  /\ approval' = [approval EXCEPT ![t][i] = decision]
  /\ task' = [task EXCEPT ![t] = Resumed(t, decision)]
  /\ UNCHANGED <<born, step, exec, announced>>

\* A decision after expires_at marks the approval, and leaves the task.
DecideTooLate(t, i) ==
  /\ approval[t][i] = "pending"
  /\ approval' = [approval EXCEPT ![t][i] = "expired"]
  /\ UNCHANGED <<task, born, step, exec, announced>>

ExpireStaleApproval(t, i) ==
  /\ approval[t][i] = "pending"
  /\ approval' = [approval EXCEPT ![t][i] = "expired"]
  /\ task' = [task EXCEPT ![t] = IF @ = "awaiting_approval" THEN "timed_out" ELSE @]
  /\ UNCHANGED <<born, step, exec, announced>>

\* Mutant: only a task that died inside a step is recovered.
RecoverRunningStep(t) ==
  /\ task[t] = "running"
  /\ \E i \in Steps : step[t][i] = "running"
  /\ task' = [task EXCEPT ![t] = "failed"]
  /\ UNCHANGED <<born, step, approval, exec, announced>>

\* recover_stale_tasks fails a task that has been running for too long,
\* also one that is still being executed.
RecoverStaleTask(t) ==
  /\ task[t] = "running"
  /\ task' = [task EXCEPT ![t] = "failed"]
  /\ UNCHANGED <<born, step, approval, exec, announced>>

-----------------------------------------------------------------------------
ExecNext(t, e) ==
  \/ LoadSteps(t, e) \/ PlanStep(t, e) \/ PlanFails(t, e)
  \/ NoticeCancel(t, e) \/ TimeOut(t, e) \/ NextStep(t, e) \/ Deny(t, e)
  \/ CheckStepApproval(t, e) \/ CreateApproval(t, e) \/ HoldStep(t, e) \/ HaltTask(t, e)
  \/ StartStep(t, e) \/ RunTool(t, e) \/ RecordStep(t, e) \/ StepDone(t, e)
  \/ StepRaises(t, e) \/ StepBroken(t, e) \/ FailStep(t, e) \/ Complete(t, e)
  \/ GiveUp(t, e, "cancelling", "cancelled")
  \/ GiveUp(t, e, "failing", "failed")
  \/ GiveUp(t, e, "timing", "timed_out")
  \/ Raise(t, e) \/ ReportRaise(t, e) \/ Crash(t, e) \/ SetToken(t, e)

ApprovalNext(t, i) ==
  \/ \E decision \in {"approved", "rejected"} : DecideApproval(t, i, decision)
  \/ DecideTooLate(t, i) \/ ExpireStaleApproval(t, i)

TaskNext(t) == Submit(t) \/ Acquire(t) \/ CancelTask(t) \/ RecoverStaleTask(t)

Next ==
  \E t \in Tasks :
    \/ TaskNext(t)
    \/ \E e \in Execs : ExecNext(t, e)
    \/ \E i \in Steps : ApprovalNext(t, i)

Spec == Init /\ [][Next]_vars

\* Some worker's loop runs its sweeps for ever, and time passes.
FairSpec ==
  /\ Spec
  /\ \A t \in Tasks : WF_vars(RecoverStaleTask(t))
  /\ \A t \in Tasks, i \in Steps : WF_vars(ExpireStaleApproval(t, i))

-----------------------------------------------------------------------------
(* Properties.                                                             *)

\* Two executions of one task never overlap, although a task is requeued by
\* decide_approval while the execution that halted it may still be running.
SingleExecution ==
  \A t \in Tasks, d, e \in Execs : Live(t, d) /\ Live(t, e) => d = e

\* The tool of a sensitive step runs only once an operator approved that
\* step; late, rejected and expired requests do not open the gate.
SensitiveToolApproved ==
  \A t \in Tasks, i \in Sensitive :
    step[t][i] \in {"running", "completed"} => approval[t][i] = "approved"

\* A completed task has every step of its plan completed, over all the
\* executions it took, and whatever cancellations and sweeps raced with them.
CompletedIsWhole ==
  \A t \in Tasks : task[t] = "completed" => \A i \in Steps : step[t][i] = "completed"

\* task_completed is published only for a task that is completed and stays so.
CompletionAnnouncedTruly ==
  \A t \in Tasks : "completed" \in announced[t] => task[t] = "completed"

\* The rows of tasks, task_steps and approval_requests together keep what is promised of
\* a plan: its steps run in order, each at most once and the sensitive ones only when
\* approved, no step runs for a task that is queued, halted or completed, only an
\* approval requeues, and only a whole plan completes.
WorkOf(status) == IF status \in {"running", "completed", "failed"} THEN status ELSE "idle"

Plan == INSTANCE ApprovedPlan WITH
  status  <- task,
  work    <- [t \in Tasks |-> [i \in Steps |-> WorkOf(step[t][i])]],
  granted <- [t \in Tasks |-> {i \in Steps : approval[t][i] = "approved"}]

PlanRefined == Plan!Spec

\* A step's tool is started at most once, however often the task is resumed.
ToolStartsOnce ==
  [][\A t \in Tasks, e \in Execs :
       exec[t][e].pc = "start" /\ exec'[t][e].pc = "tool" =>
         step[t][exec[t][e].idx] \in {"pending", "awaiting_approval"}]_vars

\* A decision, a sweep, a cancellation or a late execution never moves a
\* task out of a terminal status.
TerminalTaskStays ==
  [][\A t \in Tasks : task[t] \in Terminal => task'[t] = task[t]]_vars

\* A running task does not stay running, even if its worker died.
RunningEnds == \A t \in Tasks : task[t] = "running" ~> task[t] # "running"

\* A task does not wait for an approval for ever
\* (docs/SECURITY_AND_GOVERNANCE.md, section 5).
AwaitingEnds ==
  \A t \in Tasks : task[t] = "awaiting_approval" ~> task[t] # "awaiting_approval"

=============================================================================
