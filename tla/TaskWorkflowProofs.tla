------------------------- MODULE TaskWorkflowProofs -------------------------
(* Proofs about TaskWorkflow, for every plan and any number of tasks.      *)
EXTENDS TaskWorkflow, TLAPS

\* What a later execution can resume: no plan yet, or a whole one.
Untouched == {"pending", "awaiting_approval", "completed"}

Resumable(t) ==
  \/ \A i \in Steps : step[t][i] = "absent"
  \/ \A i \in Steps : step[t][i] \in Untouched

\* A task that is executed is neither queued nor halted nor completed; a
\* queued one can be resumed.
TaskInv(t) ==
  /\ task[t] = "absent" => \A i \in Steps : step[t][i] = "absent"
  /\ task[t] \in {"pending", "awaiting_approval"} => Resumable(t)
  /\ task[t] = "completed" => \A i \in Steps : step[t][i] = "completed"
  /\ "completed" \in announced[t] => task[t] = "completed"
  /\ \A i \in Sensitive :
       step[t][i] \in {"running", "completed"} => approval[t][i] = "approved"
  /\ \A e \in Execs : Live(t, e) =>
       task[t] \notin {"absent", "pending", "awaiting_approval", "completed"}

Before == {"check", "gate", "request", "hold", "halt", "start"}
Loop   == Before \cup {"tool", "record", "after", "complete"}
InStep == {"gate", "request", "hold", "halt", "start", "tool", "record", "after"}

\* An execution in the loop: the steps before its index are completed, those
\* after it untouched, and a completed one among them has been seen.
ExecInv(t, e) ==
  LET pc == exec[t][e].pc
      i  == exec[t][e].idx
      seen == exec[t][e].seen
  IN
  /\ pc = "load" => Resumable(t)
  /\ pc = "plan" =>
       /\ i \in Steps
       /\ seen = {}
       /\ \A j \in Steps : step[t][j] = IF j < i THEN "pending" ELSE "absent"
  /\ pc \in Loop =>
       /\ i \in 1..(NSteps + 1)
       /\ \A j \in Steps :
            /\ j < i => step[t][j] = "completed"
            /\ j > i => step[t][j] \in Untouched
            /\ j > i /\ step[t][j] = "completed" => j \in seen
            /\ j \in seen => step[t][j] = "completed"
  /\ pc \in Before /\ i \in Steps =>
       step[t][i] \in Untouched /\ (step[t][i] = "completed" => i \in seen)
  /\ pc \in InStep => i \in Steps \ seen
  /\ pc \in {"broken", "interrupt", "refuse"} => i \in Steps
  /\ pc = "complete" => i = NSteps + 1
  /\ pc \in {"tool", "record"} => step[t][i] = "running"
  /\ pc = "after" => step[t][i] = "completed"
  /\ pc \in {"start", "tool", "record"} /\ i \in Sensitive => approval[t][i] = "approved"
  /\ pc = "request" => approval[t][i] \in {"none", "expired"}

Inv ==
  /\ TypeOK
  /\ SingleExecution
  /\ \A t \in Tasks : TaskInv(t)
  /\ \A t \in Tasks, e \in Execs : ExecInv(t, e)

-----------------------------------------------------------------------------
(* One execution makes a step.                                             *)

\* Nothing changes but the task t and its execution e.
Only(t, e) ==
  /\ \A s \in Tasks \ {t} :
       /\ task'[s] = task[s]
       /\ step'[s] = step[s]
       /\ approval'[s] = approval[s]
       /\ exec'[s] = exec[s]
       /\ announced'[s] = announced[s]
  /\ \A d \in Execs \ {e} : exec'[t][d] = exec[t][d]

\* Execution e of task t becomes the record x.
Becomes(t, e, x) == exec' = [exec EXCEPT ![t] = [exec[t] EXCEPT ![e] = x]]

LEMMA ExecWritten ==
  ASSUME TypeOK, NEW t \in Tasks, NEW e \in Execs, NEW x \in Exec, Becomes(t, e, x)
  PROVE  /\ exec' \in [Tasks -> [Execs -> Exec]]
         /\ exec'[t][e] = x
         /\ \A s \in Tasks \ {t} : exec'[s] = exec[s]
         /\ \A d \in Execs \ {e} : exec'[t][d] = exec[t][d]
BY DEF TypeOK, Becomes

\* A step of a live execution preserves the invariant if it does so for its
\* task and for itself: the other executions of the task have ended.
LEMMA Frame ==
  ASSUME Inv, TypeOK', NEW t \in Tasks, NEW e \in Execs, Live(t, e), Only(t, e),
         TaskInv(t)', ExecInv(t, e)'
  PROVE  Inv'
<1>1. \A d \in Execs \ {e} : exec[t][d].pc \in {"none", "done"} /\ exec'[t][d] = exec[t][d]
  BY DEF Inv, SingleExecution, Live, Only
<1>2. SingleExecution'
  BY <1>1 DEF Inv, SingleExecution, Live, Only
<1>3. ASSUME NEW s \in Tasks PROVE TaskInv(s)'
  <2>1. CASE s = t
    BY <2>1
  <2>2. CASE s # t
    BY <2>2 DEF Inv, Only, TaskInv, Resumable, Live
  <2> QED BY <2>1, <2>2
<1>4. ASSUME NEW s \in Tasks, NEW d \in Execs PROVE ExecInv(s, d)'
  <2>1. CASE s = t /\ d = e
    BY <2>1
  <2>2. CASE s = t /\ d # e
    BY <1>1, <2>2 DEF ExecInv, Loop, Before, InStep
  <2>3. CASE s # t
    BY <2>3 DEF Inv, Only, ExecInv, Resumable
  <2> QED BY <2>1, <2>2, <2>3
<1> QED BY <1>2, <1>3, <1>4 DEF Inv

\* The three shapes of an execution's step: it moves on, it writes a step of
\* its plan, or it ends with a write of the task.
LEMMA Moved ==
  ASSUME Inv, NEW t \in Tasks, NEW e \in Execs, Live(t, e),
         NEW x \in Exec, Becomes(t, e, x),
         UNCHANGED <<task, born, step, approval, announced>>, ExecInv(t, e)'
  PROVE  Inv'
<1>1. TypeOK'
  BY ExecWritten DEF Inv, TypeOK
<1>2. Only(t, e)
  BY ExecWritten DEF Inv, Only
<1>3. TaskInv(t)'
  <2>1. TaskInv(t) /\ task[t] \notin {"absent", "pending", "awaiting_approval", "completed"}
    BY DEF Inv, TaskInv
  <2> QED BY <2>1 DEF TaskInv
<1> QED BY <1>1, <1>2, <1>3, Frame

LEMMA StepWritten ==
  ASSUME Inv, NEW t \in Tasks, NEW e \in Execs, Live(t, e),
         NEW x \in Exec, Becomes(t, e, x),
         NEW i \in Steps, NEW status \in StepStatus, SetStep(t, i, status),
         UNCHANGED <<task, born, approval, announced>>,
         i \in Sensitive /\ status \in {"running", "completed"} => approval[t][i] = "approved",
         ExecInv(t, e)'
  PROVE  Inv'
<1>1. TypeOK'
  BY ExecWritten DEF Inv, TypeOK, SetStep
<1>2. Only(t, e)
  BY ExecWritten DEF Inv, TypeOK, Only, SetStep
<1>3. TaskInv(t)'
  <2>1. TaskInv(t) /\ task[t] \notin {"absent", "pending", "awaiting_approval", "completed"}
    BY DEF Inv, TaskInv
  <2>2. \A j \in Steps : step'[t][j] = IF j = i THEN status ELSE step[t][j]
    BY DEF Inv, TypeOK, SetStep
  <2>3. \A j \in Sensitive :
          step'[t][j] \in {"running", "completed"} => approval'[t][j] = "approved"
    BY <2>1, <2>2, WorkflowAssumption DEF TaskInv, Steps
  <2> QED BY <2>1, <2>3 DEF TaskInv
<1> QED BY <1>1, <1>2, <1>3, Frame

LEMMA Ended ==
  ASSUME Inv, NEW t \in Tasks, NEW e \in Execs, Live(t, e), Becomes(t, e, At("done")),
         NEW status \in TaskStatus \ {"absent"}, task' = [task EXCEPT ![t] = status],
         NEW events \in SUBSET Terminal, announced' = [announced EXCEPT ![t] = events],
         UNCHANGED <<born, step, approval>>,
         status \in {"pending", "awaiting_approval"} => Resumable(t),
         status = "completed" => \A i \in Steps : step[t][i] = "completed",
         "completed" \in events => status = "completed"
  PROVE  Inv'
<1>1. At("done") \in Exec
  BY WorkflowAssumption DEF At, Exec, PC
<1>2. exec'[t][e] = At("done")
  BY <1>1, ExecWritten DEF Inv
<1>3. TypeOK'
  BY <1>1, ExecWritten DEF Inv, TypeOK
<1>4. Only(t, e)
  BY <1>1, ExecWritten DEF Inv, TypeOK, Only
<1>5. ExecInv(t, e)'
  BY <1>2 DEF ExecInv, At, Loop, Before, InStep
<1>6. TaskInv(t)'
  <2>1. \A d \in Execs : ~Live(t, d)'
    BY <1>2, <1>4 DEF Inv, SingleExecution, Live, Only, At
  <2>2. task'[t] = status /\ announced'[t] = events
    BY DEF Inv, TypeOK
  <2>3. Resumable(t) => Resumable(t)'
    BY DEF Resumable
  <2>4. TaskInv(t)
    BY DEF Inv
  <2> QED BY <2>1, <2>2, <2>3, <2>4 DEF TaskInv
<1> QED BY <1>3, <1>4, <1>5, <1>6, Frame

LEMMA LoadStepsSafe ==
  ASSUME Inv, NEW t \in Tasks, NEW e \in Execs, LoadSteps(t, e) PROVE Inv'
<1> USE WorkflowAssumption DEF Steps
<1>1. Live(t, e) /\ UNCHANGED <<task, born, step, approval, announced>>
  BY DEF LoadSteps, Goto, Live
<1>2. exec[t][e] \in Exec
  BY DEF Inv, TypeOK
<1>a. exec[t][e].pc = "load" /\ Resumable(t)
  BY DEF LoadSteps, Inv, ExecInv
<1>3. CASE \A i \in Steps : step[t][i] = "absent"
  <2> DEFINE x == [exec[t][e] EXCEPT !.pc = "plan", !.idx = 1, !.seen = {}]
  <2>a. 1 \in 0..NSteps + 1
    OBVIOUS
  <2>1. x \in Exec
    BY <1>2, <2>a DEF Exec, PC
  <2>2. Becomes(t, e, x)
    BY <1>3 DEF Becomes, LoadSteps, Goto
  <2>3. exec'[t][e] = x
    BY <2>1, <2>2, ExecWritten DEF Inv
  <2>4. ExecInv(t, e)'
    BY <1>1, <1>2, <1>3, <2>3 DEF Exec, ExecInv, Loop, Before, InStep
  <2> QED BY <1>1, <2>1, <2>2, <2>4, Moved
<1>4. CASE ~ \A i \in Steps : step[t][i] = "absent"
  <2> DEFINE x == [exec[t][e] EXCEPT !.pc = "check", !.idx = 1,
                                     !.seen = {i \in Steps : step[t][i] = "completed"}]
  <2>a. 1 \in 0..NSteps + 1
    OBVIOUS
  <2>1. x \in Exec
    BY <1>2, <2>a DEF Exec, PC
  <2>2. Becomes(t, e, x)
    BY <1>4 DEF Becomes, LoadSteps, Goto
  <2>3. exec'[t][e] = x
    BY <2>1, <2>2, ExecWritten DEF Inv
  <2>4. ExecInv(t, e)'
    BY <1>1, <1>2, <1>4, <1>a, <2>3 DEF Exec, ExecInv, Loop, Before, InStep, Resumable
  <2> QED BY <1>1, <2>1, <2>2, <2>4, Moved
<1> QED BY <1>3, <1>4 DEF LoadSteps, Goto

LEMMA PlanStepSafe ==
  ASSUME Inv, NEW t \in Tasks, NEW e \in Execs, PlanStep(t, e) PROVE Inv'
<1> USE WorkflowAssumption DEF Steps
<1>1. Live(t, e) /\ UNCHANGED <<task, born, approval, announced>>
  BY DEF PlanStep, Goto, Live
<1>2. exec[t][e] \in Exec
  BY DEF Inv, TypeOK
<1> DEFINE i == exec[t][e].idx
<1>3. CASE exec[t][e].idx = NSteps
  <2> DEFINE x == [exec[t][e] EXCEPT !.pc = "check", !.idx = 1]
  <2>a. 1 \in 0..NSteps + 1
    OBVIOUS
  <2>1. x \in Exec
    BY <1>2, <2>a DEF Exec, PC
  <2>2. Becomes(t, e, x)
    BY <1>3 DEF Becomes, PlanStep, Goto
  <2>3. exec'[t][e] = x
    BY <2>1, <2>2, ExecWritten DEF Inv
  <2>4. i \in Steps /\ SetStep(t, i, "pending")
    BY <1>2, <1>3 DEF Inv, TypeOK, ExecInv, Loop, Before, InStep, PlanStep, Goto
  <2>5. \A j \in Steps : step'[t][j] = IF j = i THEN "pending" ELSE step[t][j]
    BY <2>4 DEF Inv, TypeOK, SetStep
  <2>b. exec[t][e].pc = "plan" /\ exec[t][e].seen = {}
        /\ \A j \in Steps : step[t][j] = IF j < NSteps THEN "pending" ELSE "absent"
    BY <1>3 DEF Inv, ExecInv, PlanStep
  <2>c. \A j \in Steps : step'[t][j] = "pending"
    BY <1>3, <2>5, <2>b
  <2>d. exec'[t][e].pc = "check" /\ exec'[t][e].idx = 1 /\ exec'[t][e].seen = {}
    BY <1>2, <2>3, <2>b DEF Exec
  <2>6. ExecInv(t, e)'
    BY <2>c, <2>d DEF ExecInv, Loop, Before, InStep, Untouched
  <2>7. i \in Sensitive /\ "pending" \in {"running", "completed"} => approval[t][i] = "approved"
    BY <1>2, <1>3 DEF Inv, TypeOK, ExecInv, Loop, Before, InStep, PlanStep, Goto
  <2> QED BY <1>1, <2>1, <2>2, <2>4, <2>6, <2>7, StepWritten DEF StepStatus
<1>4. CASE exec[t][e].idx # NSteps
  <2> DEFINE x == [exec[t][e] EXCEPT !.idx = i + 1]
  <2>a. i + 1 \in 0..NSteps + 1
    BY <1>4 DEF Inv, ExecInv, PlanStep
  <2>1. x \in Exec
    BY <1>2, <2>a DEF Exec
  <2>2. Becomes(t, e, x)
    BY <1>4 DEF Becomes, PlanStep, Goto
  <2>3. exec'[t][e] = x
    BY <2>1, <2>2, ExecWritten DEF Inv
  <2>4. i \in Steps /\ SetStep(t, i, "pending")
    BY <1>2, <1>4 DEF Inv, TypeOK, ExecInv, Loop, Before, InStep, PlanStep, Goto
  <2>5. \A j \in Steps : step'[t][j] = IF j = i THEN "pending" ELSE step[t][j]
    BY <2>4 DEF Inv, TypeOK, SetStep
  <2>6. ExecInv(t, e)'
    BY <1>1, <1>2, <1>4, <2>3, <2>4, <2>5 DEF Inv, TypeOK, ExecInv, Loop, Before, InStep,
       Exec, PlanStep, Goto, Untouched
  <2>7. i \in Sensitive /\ "pending" \in {"running", "completed"} => approval[t][i] = "approved"
    BY <1>2, <1>4 DEF Inv, TypeOK, ExecInv, Loop, Before, InStep, PlanStep, Goto
  <2> QED BY <1>1, <2>1, <2>2, <2>4, <2>6, <2>7, StepWritten DEF StepStatus
<1> QED BY <1>3, <1>4 DEF PlanStep, Goto

LEMMA PlanFailsSafe ==
  ASSUME Inv, NEW t \in Tasks, NEW e \in Execs, PlanFails(t, e) PROVE Inv'
<1> USE WorkflowAssumption DEF Steps
<1>1. Live(t, e) /\ UNCHANGED <<task, born, step, approval, announced>>
  BY DEF PlanFails, Goto, Live
<1>2. exec[t][e] \in Exec
  BY DEF Inv, TypeOK
<1> DEFINE x == [exec[t][e] EXCEPT !.pc = "failing"]
<1>3. x \in Exec
  BY <1>2 DEF Exec, PC
<1>4. Becomes(t, e, x)
  BY DEF Becomes, PlanFails, Goto
<1>5. exec'[t][e] = x
  BY <1>3, <1>4, ExecWritten DEF Inv
<1>6. ExecInv(t, e)'
  BY <1>1, <1>2, <1>5 DEF Inv, TypeOK, ExecInv, Loop, Before, InStep, Exec, PlanFails, Goto,
     Resumable, Untouched
<1> QED BY <1>1, <1>3, <1>4, <1>6, Moved

LEMMA NoticeCancelSafe ==
  ASSUME Inv, NEW t \in Tasks, NEW e \in Execs, NoticeCancel(t, e) PROVE Inv'
<1> USE WorkflowAssumption DEF Steps
<1>1. Live(t, e) /\ UNCHANGED <<task, born, step, approval, announced>>
  BY DEF NoticeCancel, Goto, Live, Cancelled
<1>2. exec[t][e] \in Exec
  BY DEF Inv, TypeOK
<1>3. CASE Goto(t, e, "check", "cancelling")
  <2> DEFINE x == [exec[t][e] EXCEPT !.pc = "cancelling"]
  <2>1. x \in Exec
    BY <1>2 DEF Exec, PC
  <2>2. Becomes(t, e, x)
    BY <1>3 DEF Becomes, NoticeCancel, Goto
  <2>3. exec'[t][e] = x
    BY <2>1, <2>2, ExecWritten DEF Inv
  <2>4. ExecInv(t, e)'
    BY <1>1, <1>2, <1>3, <2>3 DEF Inv, TypeOK, ExecInv, Loop, Before, InStep, Exec,
       NoticeCancel, Goto, Resumable, Untouched
  <2> QED BY <1>1, <2>1, <2>2, <2>4, Moved
<1>4. CASE Goto(t, e, "after", "cancelling")
  <2> DEFINE x == [exec[t][e] EXCEPT !.pc = "cancelling"]
  <2>1. x \in Exec
    BY <1>2 DEF Exec, PC
  <2>2. Becomes(t, e, x)
    BY <1>4 DEF Becomes, NoticeCancel, Goto
  <2>3. exec'[t][e] = x
    BY <2>1, <2>2, ExecWritten DEF Inv
  <2>4. ExecInv(t, e)'
    BY <1>1, <1>2, <1>4, <2>3 DEF Inv, TypeOK, ExecInv, Loop, Before, InStep, Exec,
       NoticeCancel, Goto, Resumable, Untouched
  <2> QED BY <1>1, <2>1, <2>2, <2>4, Moved
<1>5. CASE Goto(t, e, "broken", "interrupt")
  <2> DEFINE x == [exec[t][e] EXCEPT !.pc = "interrupt"]
  <2>1. x \in Exec
    BY <1>2 DEF Exec, PC
  <2>2. Becomes(t, e, x)
    BY <1>5 DEF Becomes, NoticeCancel, Goto
  <2>3. exec'[t][e] = x
    BY <2>1, <2>2, ExecWritten DEF Inv
  <2>4. ExecInv(t, e)'
    BY <1>1, <1>2, <1>5, <2>3 DEF Inv, TypeOK, ExecInv, Loop, Before, InStep, Exec,
       NoticeCancel, Goto, Resumable, Untouched
  <2> QED BY <1>1, <2>1, <2>2, <2>4, Moved
<1> QED BY <1>3, <1>4, <1>5 DEF NoticeCancel, Goto

LEMMA TimeOutSafe ==
  ASSUME Inv, NEW t \in Tasks, NEW e \in Execs, TimeOut(t, e) PROVE Inv'
<1> USE WorkflowAssumption DEF Steps
<1>1. Live(t, e) /\ UNCHANGED <<task, born, step, approval, announced>>
  BY DEF TimeOut, Goto, Live
<1>2. exec[t][e] \in Exec
  BY DEF Inv, TypeOK
<1> DEFINE x == [exec[t][e] EXCEPT !.pc = "timing"]
<1>3. x \in Exec
  BY <1>2 DEF Exec, PC
<1>4. Becomes(t, e, x)
  BY DEF Becomes, TimeOut, Goto
<1>5. exec'[t][e] = x
  BY <1>3, <1>4, ExecWritten DEF Inv
<1>6. ExecInv(t, e)'
  BY <1>1, <1>2, <1>5 DEF Inv, TypeOK, ExecInv, Loop, Before, InStep, Exec, TimeOut, Goto,
     Resumable, Untouched
<1> QED BY <1>1, <1>3, <1>4, <1>6, Moved

LEMMA NextStepSafe ==
  ASSUME Inv, NEW t \in Tasks, NEW e \in Execs, NextStep(t, e) PROVE Inv'
<1> USE WorkflowAssumption DEF Steps
<1>1. Live(t, e) /\ UNCHANGED <<task, born, step, approval, announced>>
  BY DEF NextStep, Goto, Live
<1>2. exec[t][e] \in Exec
  BY DEF Inv, TypeOK
<1>3. CASE exec[t][e].idx \in exec[t][e].seen
  <2> DEFINE x == [exec[t][e] EXCEPT !.idx = exec[t][e].idx + 1]
  <2>a. exec[t][e].idx + 1 \in 0..NSteps + 1
    BY <1>2, <1>3 DEF Exec
  <2>1. x \in Exec
    BY <1>2, <2>a DEF Exec
  <2>2. Becomes(t, e, x)
    BY <1>3 DEF Becomes, NextStep, Goto
  <2>3. exec'[t][e] = x
    BY <2>1, <2>2, ExecWritten DEF Inv
  <2>4. ExecInv(t, e)'
    BY <1>1, <1>2, <1>3, <2>3 DEF Inv, TypeOK, ExecInv, Loop, Before, InStep, Exec, NextStep,
       Goto, Resumable, Untouched
  <2> QED BY <1>1, <2>1, <2>2, <2>4, Moved
<1>4. CASE exec[t][e].idx \notin exec[t][e].seen /\ exec[t][e].idx = NSteps + 1
  <2> DEFINE x == [exec[t][e] EXCEPT !.pc = "complete"]
  <2>1. x \in Exec
    BY <1>2 DEF Exec, PC
  <2>2. Becomes(t, e, x)
    BY <1>4 DEF Becomes, NextStep, Goto
  <2>3. exec'[t][e] = x
    BY <2>1, <2>2, ExecWritten DEF Inv
  <2>4. ExecInv(t, e)'
    BY <1>1, <1>2, <1>4, <2>3 DEF Inv, TypeOK, ExecInv, Loop, Before, InStep, Exec, NextStep,
       Goto, Resumable, Untouched
  <2> QED BY <1>1, <2>1, <2>2, <2>4, Moved
<1>5. CASE exec[t][e].idx \notin exec[t][e].seen /\ exec[t][e].idx # NSteps + 1 /\ exec[t][e].idx \in Sensitive
  <2> DEFINE x == [exec[t][e] EXCEPT !.pc = "gate"]
  <2>1. x \in Exec
    BY <1>2 DEF Exec, PC
  <2>2. Becomes(t, e, x)
    BY <1>5 DEF Becomes, NextStep, Goto
  <2>3. exec'[t][e] = x
    BY <2>1, <2>2, ExecWritten DEF Inv
  <2>4. ExecInv(t, e)'
    BY <1>1, <1>2, <1>5, <2>3 DEF Inv, TypeOK, ExecInv, Loop, Before, InStep, Exec, NextStep,
       Goto, Resumable, Untouched
  <2> QED BY <1>1, <2>1, <2>2, <2>4, Moved
<1>6. CASE exec[t][e].idx \notin exec[t][e].seen /\ exec[t][e].idx # NSteps + 1 /\ exec[t][e].idx \notin Sensitive
  <2> DEFINE x == [exec[t][e] EXCEPT !.pc = "start"]
  <2>1. x \in Exec
    BY <1>2 DEF Exec, PC
  <2>2. Becomes(t, e, x)
    BY <1>6 DEF Becomes, NextStep, Goto
  <2>3. exec'[t][e] = x
    BY <2>1, <2>2, ExecWritten DEF Inv
  <2>4. ExecInv(t, e)'
    BY <1>1, <1>2, <1>6, <2>3 DEF Inv, TypeOK, ExecInv, Loop, Before, InStep, Exec, NextStep,
       Goto, Resumable, Untouched
  <2> QED BY <1>1, <2>1, <2>2, <2>4, Moved
<1> QED BY <1>3, <1>4, <1>5, <1>6 DEF NextStep, Goto

LEMMA DenySafe ==
  ASSUME Inv, NEW t \in Tasks, NEW e \in Execs, Deny(t, e) PROVE Inv'
<1> USE WorkflowAssumption DEF Steps
<1>1. Live(t, e) /\ UNCHANGED <<task, born, step, approval, announced>>
  BY DEF Deny, Goto, Live
<1>2. exec[t][e] \in Exec
  BY DEF Inv, TypeOK
<1> DEFINE x == [exec[t][e] EXCEPT !.pc = "refuse"]
<1>3. x \in Exec
  BY <1>2 DEF Exec, PC
<1>4. Becomes(t, e, x)
  BY DEF Becomes, Deny, Goto
<1>5. exec'[t][e] = x
  BY <1>3, <1>4, ExecWritten DEF Inv
<1>6. ExecInv(t, e)'
  BY <1>1, <1>2, <1>5 DEF Inv, TypeOK, ExecInv, Loop, Before, InStep, Exec, Deny, Goto,
     Resumable, Untouched
<1> QED BY <1>1, <1>3, <1>4, <1>6, Moved

LEMMA CheckStepApprovalSafe ==
  ASSUME Inv, NEW t \in Tasks, NEW e \in Execs, CheckStepApproval(t, e) PROVE Inv'
<1> USE WorkflowAssumption DEF Steps
<1>1. Live(t, e) /\ UNCHANGED <<task, born, step, approval, announced>>
  BY DEF CheckStepApproval, Goto, Live
<1>2. exec[t][e] \in Exec
  BY DEF Inv, TypeOK
<1> DEFINE i == exec[t][e].idx
<1> DEFINE to == Gate(approval[t][i])
<1> DEFINE x == [exec[t][e] EXCEPT !.pc = to]
<1>a. ExecInv(t, e) /\ exec[t][e].pc = "gate" /\ i \in Steps
  BY DEF CheckStepApproval, Goto, Inv, ExecInv, InStep
<1>b. /\ to \in {"start", "refuse", "hold", "request"}
      /\ to = "start" => approval[t][i] = "approved"
      /\ to = "request" => approval[t][i] \in {"none", "expired"}
  BY <1>a DEF Inv, TypeOK, ApprovalStatus, Gate
<1> HIDE DEF to
<1>3. x \in Exec
  BY <1>2, <1>b DEF Exec, PC
<1>4. Becomes(t, e, x)
  BY DEF Becomes, CheckStepApproval, Goto, to
<1>5. exec'[t][e] = x
  BY <1>3, <1>4, ExecWritten DEF Inv
<1>6. ExecInv(t, e)'
  <2>1. exec'[t][e].pc = to /\ exec'[t][e].idx = i /\ exec'[t][e].seen = exec[t][e].seen
    BY <1>2, <1>5 DEF Exec
  <2> QED BY <1>1, <1>a, <1>b, <2>1 DEF ExecInv, Loop, Before, InStep
<1> QED BY <1>1, <1>3, <1>4, <1>6, Moved

LEMMA CreateApprovalSafe ==
  ASSUME Inv, NEW t \in Tasks, NEW e \in Execs, CreateApproval(t, e) PROVE Inv'
<1> USE WorkflowAssumption DEF Steps
<1>1. Live(t, e)
  BY DEF CreateApproval, Goto, Live
<1>2. exec[t][e] \in Exec
  BY DEF Inv, TypeOK
<1> DEFINE i == exec[t][e].idx
<1> DEFINE x == [exec[t][e] EXCEPT !.pc = "hold"]
<1>3. x \in Exec
  BY <1>2 DEF Exec, PC
<1>4. Becomes(t, e, x)
  BY DEF Becomes, CreateApproval, Goto
<1>5. exec'[t][e] = x
  BY <1>3, <1>4, ExecWritten DEF Inv
<1>a. ExecInv(t, e) /\ exec[t][e].pc = "request"
  BY DEF CreateApproval, Goto, Inv
<1>6. /\ i \in Steps
      /\ approval[t][i] \in {"none", "expired"}
      /\ step[t][i] \in Untouched \ {"completed"}
  BY <1>a DEF ExecInv, Before, InStep
<1>7. \A j \in Steps : approval'[t][j] = IF j = i THEN "pending" ELSE approval[t][j]
  BY <1>6 DEF Inv, TypeOK, CreateApproval
<1>8. ExecInv(t, e)'
  BY <1>2, <1>5, <1>6 DEF Inv, TypeOK, ExecInv, Loop, Before, InStep, Exec, CreateApproval,
     Goto, Untouched
<1>9. TypeOK'
  BY <1>3, <1>4, <1>6, ExecWritten DEF Inv, TypeOK, CreateApproval, ApprovalStatus
<1>10. Only(t, e)
  BY <1>3, <1>4, ExecWritten DEF Inv, TypeOK, Only, CreateApproval
<1>11. TaskInv(t)'
  <2>1. TaskInv(t) /\ task[t] \notin {"absent", "pending", "awaiting_approval", "completed"}
    BY <1>1 DEF Inv, TaskInv
  <2>2. \A j \in Sensitive :
          step'[t][j] \in {"running", "completed"} => approval'[t][j] = "approved"
    BY <2>1, <1>6, <1>7 DEF TaskInv, CreateApproval, Untouched
  <2> QED BY <2>1, <2>2 DEF TaskInv, CreateApproval
<1> QED BY <1>1, <1>8, <1>9, <1>10, <1>11, Frame

LEMMA HoldStepSafe ==
  ASSUME Inv, NEW t \in Tasks, NEW e \in Execs, HoldStep(t, e) PROVE Inv'
<1> USE WorkflowAssumption DEF Steps
<1>1. Live(t, e) /\ UNCHANGED <<task, born, approval, announced>>
  BY DEF HoldStep, Goto, Live
<1>2. exec[t][e] \in Exec
  BY DEF Inv, TypeOK
<1> DEFINE i == exec[t][e].idx
<1> DEFINE x == [exec[t][e] EXCEPT !.pc = "halt"]
<1>3. x \in Exec
  BY <1>2 DEF Exec, PC
<1>4. Becomes(t, e, x)
  BY DEF Becomes, HoldStep, Goto
<1>5. exec'[t][e] = x
  BY <1>3, <1>4, ExecWritten DEF Inv
<1>6. i \in Steps /\ SetStep(t, i, "awaiting_approval")
  BY <1>2 DEF Inv, TypeOK, ExecInv, Loop, Before, InStep, HoldStep, Goto
<1>7. \A j \in Steps : step'[t][j] = IF j = i THEN "awaiting_approval" ELSE step[t][j]
  BY <1>6 DEF Inv, TypeOK, SetStep
<1>8. ExecInv(t, e)'
  <2>1. /\ i \in 1..NSteps + 1 /\ i \in Steps \ exec[t][e].seen
        /\ \A j \in Steps :
             /\ j < i => step[t][j] = "completed"
             /\ j > i => step[t][j] \in Untouched
             /\ j > i /\ step[t][j] = "completed" => j \in exec[t][e].seen
             /\ j \in exec[t][e].seen => step[t][j] = "completed"
        /\ step[t][i] \in {"pending", "awaiting_approval"}
    BY <1>6 DEF Inv, ExecInv, Loop, Before, InStep, HoldStep, Goto, Untouched
  <2>2. exec'[t][e].idx = i /\ exec'[t][e].seen = exec[t][e].seen /\ exec'[t][e].pc = x.pc
    BY <1>2, <1>5 DEF Exec
  <2> QED BY <1>1, <1>2, <1>5, <1>6, <1>7, <2>1, <2>2 DEF Exec, ExecInv, Loop, Before, InStep, Untouched
<1>9. i \in Sensitive /\ "awaiting_approval" \in {"running", "completed"} => approval[t][i] = "approved"
  BY <1>2 DEF Inv, TypeOK, ExecInv, Loop, Before, InStep, HoldStep, Goto
<1> QED BY <1>1, <1>3, <1>4, <1>6, <1>8, <1>9, StepWritten DEF StepStatus

LEMMA StartStepSafe ==
  ASSUME Inv, NEW t \in Tasks, NEW e \in Execs, StartStep(t, e) PROVE Inv'
<1> USE WorkflowAssumption DEF Steps
<1>1. Live(t, e) /\ UNCHANGED <<task, born, approval, announced>>
  BY DEF StartStep, Goto, Live
<1>2. exec[t][e] \in Exec
  BY DEF Inv, TypeOK
<1> DEFINE i == exec[t][e].idx
<1> DEFINE x == [exec[t][e] EXCEPT !.pc = "tool"]
<1>3. x \in Exec
  BY <1>2 DEF Exec, PC
<1>4. Becomes(t, e, x)
  BY DEF Becomes, StartStep, Goto
<1>5. exec'[t][e] = x
  BY <1>3, <1>4, ExecWritten DEF Inv
<1>6. i \in Steps /\ SetStep(t, i, "running")
  BY <1>2 DEF Inv, TypeOK, ExecInv, Loop, Before, InStep, StartStep, Goto
<1>7. \A j \in Steps : step'[t][j] = IF j = i THEN "running" ELSE step[t][j]
  BY <1>6 DEF Inv, TypeOK, SetStep
<1>8. ExecInv(t, e)'
  <2>1. /\ i \in 1..NSteps + 1 /\ i \in Steps \ exec[t][e].seen
        /\ \A j \in Steps :
             /\ j < i => step[t][j] = "completed"
             /\ j > i => step[t][j] \in Untouched
             /\ j > i /\ step[t][j] = "completed" => j \in exec[t][e].seen
             /\ j \in exec[t][e].seen => step[t][j] = "completed"
        /\ step[t][i] \in {"pending", "awaiting_approval"}
        /\ i \in Sensitive => approval[t][i] = "approved"
    BY <1>6 DEF Inv, ExecInv, Loop, Before, InStep, StartStep, Goto, Untouched
  <2>2. exec'[t][e].idx = i /\ exec'[t][e].seen = exec[t][e].seen /\ exec'[t][e].pc = x.pc
    BY <1>2, <1>5 DEF Exec
  <2> QED BY <1>1, <1>2, <1>5, <1>6, <1>7, <2>1, <2>2 DEF Exec, ExecInv, Loop, Before, InStep, Untouched
<1>9. i \in Sensitive /\ "running" \in {"running", "completed"} => approval[t][i] = "approved"
  BY <1>2 DEF Inv, TypeOK, ExecInv, Loop, Before, InStep, StartStep, Goto
<1> QED BY <1>1, <1>3, <1>4, <1>6, <1>8, <1>9, StepWritten DEF StepStatus

LEMMA RunToolSafe ==
  ASSUME Inv, NEW t \in Tasks, NEW e \in Execs, RunTool(t, e) PROVE Inv'
<1> USE WorkflowAssumption DEF Steps
<1>1. Live(t, e) /\ UNCHANGED <<task, born, step, approval, announced>>
  BY DEF RunTool, Goto, Live
<1>2. exec[t][e] \in Exec
  BY DEF Inv, TypeOK
<1>3. CASE Goto(t, e, "tool", "record")
  <2> DEFINE x == [exec[t][e] EXCEPT !.pc = "record"]
  <2>1. x \in Exec
    BY <1>2 DEF Exec, PC
  <2>2. Becomes(t, e, x)
    BY <1>3 DEF Becomes, RunTool, Goto
  <2>3. exec'[t][e] = x
    BY <2>1, <2>2, ExecWritten DEF Inv
  <2>4. ExecInv(t, e)'
    BY <1>1, <1>2, <1>3, <2>3 DEF Inv, TypeOK, ExecInv, Loop, Before, InStep, Exec, RunTool,
       Goto, Resumable, Untouched
  <2> QED BY <1>1, <2>1, <2>2, <2>4, Moved
<1>4. CASE Goto(t, e, "tool", "broken")
  <2> DEFINE x == [exec[t][e] EXCEPT !.pc = "broken"]
  <2>1. x \in Exec
    BY <1>2 DEF Exec, PC
  <2>2. Becomes(t, e, x)
    BY <1>4 DEF Becomes, RunTool, Goto
  <2>3. exec'[t][e] = x
    BY <2>1, <2>2, ExecWritten DEF Inv
  <2>4. ExecInv(t, e)'
    BY <1>1, <1>2, <1>4, <2>3 DEF Inv, TypeOK, ExecInv, Loop, Before, InStep, Exec, RunTool,
       Goto, Resumable, Untouched
  <2> QED BY <1>1, <2>1, <2>2, <2>4, Moved
<1> QED BY <1>3, <1>4 DEF RunTool, Goto

LEMMA RecordStepSafe ==
  ASSUME Inv, NEW t \in Tasks, NEW e \in Execs, RecordStep(t, e) PROVE Inv'
<1> USE WorkflowAssumption DEF Steps
<1>1. Live(t, e) /\ UNCHANGED <<task, born, approval, announced>>
  BY DEF RecordStep, Goto, Live
<1>2. exec[t][e] \in Exec
  BY DEF Inv, TypeOK
<1> DEFINE i == exec[t][e].idx
<1> DEFINE x == [exec[t][e] EXCEPT !.pc = "after"]
<1>3. x \in Exec
  BY <1>2 DEF Exec, PC
<1>4. Becomes(t, e, x)
  BY DEF Becomes, RecordStep, Goto
<1>5. exec'[t][e] = x
  BY <1>3, <1>4, ExecWritten DEF Inv
<1>6. i \in Steps /\ SetStep(t, i, "completed")
  BY <1>2 DEF Inv, TypeOK, ExecInv, Loop, Before, InStep, RecordStep, Goto
<1>7. \A j \in Steps : step'[t][j] = IF j = i THEN "completed" ELSE step[t][j]
  BY <1>6 DEF Inv, TypeOK, SetStep
<1>8. ExecInv(t, e)'
  <2>1. /\ i \in 1..NSteps + 1 /\ i \in Steps \ exec[t][e].seen
        /\ \A j \in Steps :
             /\ j < i => step[t][j] = "completed"
             /\ j > i => step[t][j] \in Untouched
             /\ j > i /\ step[t][j] = "completed" => j \in exec[t][e].seen
             /\ j \in exec[t][e].seen => step[t][j] = "completed"
        /\ i \in Sensitive => approval[t][i] = "approved"
    BY <1>6 DEF Inv, ExecInv, Loop, Before, InStep, RecordStep, Goto, Untouched
  <2>2. exec'[t][e].idx = i /\ exec'[t][e].seen = exec[t][e].seen /\ exec'[t][e].pc = x.pc
    BY <1>2, <1>5 DEF Exec
  <2> QED BY <1>1, <1>2, <1>5, <1>6, <1>7, <2>1, <2>2 DEF Exec, ExecInv, Loop, Before, InStep, Untouched
<1>9. i \in Sensitive /\ "completed" \in {"running", "completed"} => approval[t][i] = "approved"
  BY <1>2 DEF Inv, TypeOK, ExecInv, Loop, Before, InStep, RecordStep, Goto
<1> QED BY <1>1, <1>3, <1>4, <1>6, <1>8, <1>9, StepWritten DEF StepStatus

LEMMA StepDoneSafe ==
  ASSUME Inv, NEW t \in Tasks, NEW e \in Execs, StepDone(t, e) PROVE Inv'
<1> USE WorkflowAssumption DEF Steps
<1>1. Live(t, e) /\ UNCHANGED <<task, born, step, approval, announced>>
  BY DEF StepDone, Goto, Live
<1>2. exec[t][e] \in Exec
  BY DEF Inv, TypeOK
<1> DEFINE x == [exec[t][e] EXCEPT !.pc = "check", !.idx = exec[t][e].idx + 1]
<1>a. exec[t][e].idx + 1 \in 0..NSteps + 1
  BY DEF StepDone, Inv, ExecInv, InStep
<1>3. x \in Exec
  BY <1>2, <1>a DEF Exec, PC
<1>4. Becomes(t, e, x)
  BY DEF Becomes, StepDone, Goto
<1>5. exec'[t][e] = x
  BY <1>3, <1>4, ExecWritten DEF Inv
<1>6. ExecInv(t, e)'
  BY <1>1, <1>2, <1>5 DEF Inv, TypeOK, ExecInv, Loop, Before, InStep, Exec, StepDone, Goto,
     Resumable, Untouched
<1> QED BY <1>1, <1>3, <1>4, <1>6, Moved

LEMMA StepRaisesSafe ==
  ASSUME Inv, NEW t \in Tasks, NEW e \in Execs, StepRaises(t, e) PROVE Inv'
<1> USE WorkflowAssumption DEF Steps
<1>1. Live(t, e) /\ UNCHANGED <<task, born, step, approval, announced>>
  BY DEF StepRaises, Goto, Live
<1>2. exec[t][e] \in Exec
  BY DEF Inv, TypeOK
<1>3. CASE Goto(t, e, "record", "broken")
  <2> DEFINE x == [exec[t][e] EXCEPT !.pc = "broken"]
  <2>1. x \in Exec
    BY <1>2 DEF Exec, PC
  <2>2. Becomes(t, e, x)
    BY <1>3 DEF Becomes, StepRaises, Goto
  <2>3. exec'[t][e] = x
    BY <2>1, <2>2, ExecWritten DEF Inv
  <2>4. ExecInv(t, e)'
    BY <1>1, <1>2, <1>3, <2>3 DEF Inv, TypeOK, ExecInv, Loop, Before, InStep, Exec,
       StepRaises, Goto, Resumable, Untouched
  <2> QED BY <1>1, <2>1, <2>2, <2>4, Moved
<1>4. CASE Goto(t, e, "after", "broken")
  <2> DEFINE x == [exec[t][e] EXCEPT !.pc = "broken"]
  <2>1. x \in Exec
    BY <1>2 DEF Exec, PC
  <2>2. Becomes(t, e, x)
    BY <1>4 DEF Becomes, StepRaises, Goto
  <2>3. exec'[t][e] = x
    BY <2>1, <2>2, ExecWritten DEF Inv
  <2>4. ExecInv(t, e)'
    BY <1>1, <1>2, <1>4, <2>3 DEF Inv, TypeOK, ExecInv, Loop, Before, InStep, Exec,
       StepRaises, Goto, Resumable, Untouched
  <2> QED BY <1>1, <2>1, <2>2, <2>4, Moved
<1> QED BY <1>3, <1>4 DEF StepRaises, Goto

LEMMA StepBrokenSafe ==
  ASSUME Inv, NEW t \in Tasks, NEW e \in Execs, StepBroken(t, e) PROVE Inv'
<1> USE WorkflowAssumption DEF Steps
<1>1. Live(t, e) /\ UNCHANGED <<task, born, step, approval, announced>>
  BY DEF StepBroken, Goto, Live
<1>2. exec[t][e] \in Exec
  BY DEF Inv, TypeOK
<1> DEFINE x == [exec[t][e] EXCEPT !.pc = "refuse"]
<1>3. x \in Exec
  BY <1>2 DEF Exec, PC
<1>4. Becomes(t, e, x)
  BY DEF Becomes, StepBroken, Goto
<1>5. exec'[t][e] = x
  BY <1>3, <1>4, ExecWritten DEF Inv
<1>6. ExecInv(t, e)'
  BY <1>1, <1>2, <1>5 DEF Inv, TypeOK, ExecInv, Loop, Before, InStep, Exec, StepBroken, Goto,
     Resumable, Untouched
<1> QED BY <1>1, <1>3, <1>4, <1>6, Moved

LEMMA FailStepSafe ==
  ASSUME Inv, NEW t \in Tasks, NEW e \in Execs, FailStep(t, e) PROVE Inv'
<1> USE WorkflowAssumption DEF Steps
<1>1. Live(t, e) /\ UNCHANGED <<task, born, approval, announced>>
  BY DEF FailStep, Goto, Live
<1>2. exec[t][e] \in Exec
  BY DEF Inv, TypeOK
<1> DEFINE i == exec[t][e].idx
<1>3. CASE Goto(t, e, "refuse", "failing")
  <2> DEFINE x == [exec[t][e] EXCEPT !.pc = "failing"]
  <2>1. x \in Exec
    BY <1>2 DEF Exec, PC
  <2>2. Becomes(t, e, x)
    BY <1>3 DEF Becomes, FailStep, Goto
  <2>3. exec'[t][e] = x
    BY <2>1, <2>2, ExecWritten DEF Inv
  <2>4. i \in Steps /\ SetStep(t, i, "failed")
    BY <1>2, <1>3 DEF Inv, TypeOK, ExecInv, Loop, Before, InStep, FailStep, Goto
  <2>5. \A j \in Steps : step'[t][j] = IF j = i THEN "failed" ELSE step[t][j]
    BY <2>4 DEF Inv, TypeOK, SetStep
  <2>6. ExecInv(t, e)'
    BY <1>1, <1>2, <1>3, <2>3, <2>4, <2>5 DEF Inv, TypeOK, ExecInv, Loop, Before, InStep,
       Exec, FailStep, Goto, Untouched
  <2>7. i \in Sensitive /\ "failed" \in {"running", "completed"} => approval[t][i] = "approved"
    BY <1>2, <1>3 DEF Inv, TypeOK, ExecInv, Loop, Before, InStep, FailStep, Goto
  <2> QED BY <1>1, <2>1, <2>2, <2>4, <2>6, <2>7, StepWritten DEF StepStatus
<1>4. CASE Goto(t, e, "interrupt", "cancelling")
  <2> DEFINE x == [exec[t][e] EXCEPT !.pc = "cancelling"]
  <2>1. x \in Exec
    BY <1>2 DEF Exec, PC
  <2>2. Becomes(t, e, x)
    BY <1>4 DEF Becomes, FailStep, Goto
  <2>3. exec'[t][e] = x
    BY <2>1, <2>2, ExecWritten DEF Inv
  <2>4. i \in Steps /\ SetStep(t, i, "failed")
    BY <1>2, <1>4 DEF Inv, TypeOK, ExecInv, Loop, Before, InStep, FailStep, Goto
  <2>5. \A j \in Steps : step'[t][j] = IF j = i THEN "failed" ELSE step[t][j]
    BY <2>4 DEF Inv, TypeOK, SetStep
  <2>6. ExecInv(t, e)'
    BY <1>1, <1>2, <1>4, <2>3, <2>4, <2>5 DEF Inv, TypeOK, ExecInv, Loop, Before, InStep,
       Exec, FailStep, Goto, Untouched
  <2>7. i \in Sensitive /\ "failed" \in {"running", "completed"} => approval[t][i] = "approved"
    BY <1>2, <1>4 DEF Inv, TypeOK, ExecInv, Loop, Before, InStep, FailStep, Goto
  <2> QED BY <1>1, <2>1, <2>2, <2>4, <2>6, <2>7, StepWritten DEF StepStatus
<1> QED BY <1>3, <1>4 DEF FailStep, Goto

LEMMA HaltTaskSafe ==
  ASSUME Inv, NEW t \in Tasks, NEW e \in Execs, HaltTask(t, e) PROVE Inv'
<1>1. Live(t, e) /\ Becomes(t, e, At("done")) /\ UNCHANGED <<born, step, approval>>
  BY DEF HaltTask, End, Live, Becomes
<1>2. /\ task[t] \in TaskStatus \ {"absent", "pending", "awaiting_approval", "completed"}
      /\ announced[t] \in SUBSET (Terminal \ {"completed"})
  BY <1>1 DEF Inv, TypeOK, TaskInv
<1>3. Resumable(t)
  BY WorkflowAssumption DEF Inv, TypeOK, ExecInv, Loop, Before, InStep, HaltTask, End,
     Resumable, Untouched, Exec, Steps
<1> DEFINE status == IF task[t] \in Sources("awaiting_approval") THEN "awaiting_approval" ELSE task[t]
<1> DEFINE events == announced[t]
<1>4. task' = [task EXCEPT ![t] = status] /\ announced' = [announced EXCEPT ![t] = events]
  BY DEF Inv, TypeOK, HaltTask, UpdateStatus, Announce
<1>5. status \in TaskStatus \ {"absent"} /\ events \in SUBSET Terminal
  BY <1>2 DEF TaskStatus, Terminal, Sources
<1>6. /\ status \in {"pending", "awaiting_approval"} => Resumable(t)
      /\ status = "completed" => \A i \in Steps : step[t][i] = "completed"
      /\ "completed" \in events => status = "completed"
  BY <1>2, <1>3 DEF Sources
<1> HIDE DEF status, events
<1> QED BY <1>1, <1>4, <1>5, <1>6, Ended

LEMMA CompleteSafe ==
  ASSUME Inv, NEW t \in Tasks, NEW e \in Execs, Complete(t, e) PROVE Inv'
<1>1. Live(t, e) /\ Becomes(t, e, At("done")) /\ UNCHANGED <<born, step, approval>>
  BY DEF Complete, End, Live, Becomes
<1>2. /\ task[t] \in TaskStatus \ {"absent", "pending", "awaiting_approval", "completed"}
      /\ announced[t] \in SUBSET (Terminal \ {"completed"})
  BY <1>1 DEF Inv, TypeOK, TaskInv
<1>3. \A i \in Steps : step[t][i] = "completed"
  BY WorkflowAssumption DEF Inv, TypeOK, ExecInv, Loop, Complete, End, Exec, Steps
<1> DEFINE status == IF task[t] \in Sources("completed") THEN "completed" ELSE task[t]
<1> DEFINE events == announced[t] \cup (IF task[t] \in Sources("completed") THEN {"completed"}
                                  ELSE {task[t]} \cap {"cancelled"})
<1>4. task' = [task EXCEPT ![t] = status] /\ announced' = [announced EXCEPT ![t] = events]
  BY DEF Inv, TypeOK, Complete, UpdateStatus, Announce
<1>5. status \in TaskStatus \ {"absent"} /\ events \in SUBSET Terminal
  BY <1>2 DEF TaskStatus, Terminal, Sources
<1>6. /\ status \in {"pending", "awaiting_approval"} => Resumable(t)
      /\ status = "completed" => \A i \in Steps : step[t][i] = "completed"
      /\ "completed" \in events => status = "completed"
  BY <1>2, <1>3 DEF Sources
<1> HIDE DEF status, events
<1> QED BY <1>1, <1>4, <1>5, <1>6, Ended

LEMMA GiveUpSafe ==
  ASSUME Inv, NEW t \in Tasks, NEW e \in Execs,
         NEW from \in {"cancelling", "failing", "timing"},
         NEW outcome \in {"cancelled", "failed", "timed_out"}, GiveUp(t, e, from, outcome)
  PROVE  Inv'
<1>1. Live(t, e) /\ Becomes(t, e, At("done")) /\ UNCHANGED <<born, step, approval>>
  BY DEF GiveUp, End, Live, Becomes
<1>2. /\ task[t] \in TaskStatus \ {"absent", "pending", "awaiting_approval", "completed"}
      /\ announced[t] \in SUBSET (Terminal \ {"completed"})
  BY <1>1 DEF Inv, TypeOK, TaskInv
<1> DEFINE status == IF task[t] \in Sources(outcome) THEN outcome ELSE task[t]
<1> DEFINE events == announced[t] \cup {outcome}
<1>4. task' = [task EXCEPT ![t] = status] /\ announced' = [announced EXCEPT ![t] = events]
  BY DEF Inv, TypeOK, GiveUp, UpdateStatus, Announce
<1>5. status \in TaskStatus \ {"absent"} /\ events \in SUBSET Terminal
  BY <1>2 DEF TaskStatus, Terminal, Sources
<1>6. /\ status \in {"pending", "awaiting_approval"} => Resumable(t)
      /\ status = "completed" => \A i \in Steps : step[t][i] = "completed"
      /\ "completed" \in events => status = "completed"
  BY <1>2 DEF Sources
<1> HIDE DEF status, events
<1> QED BY <1>1, <1>4, <1>5, <1>6, Ended

LEMMA ReportRaiseSafe ==
  ASSUME Inv, NEW t \in Tasks, NEW e \in Execs, ReportRaise(t, e) PROVE Inv'
<1>1. Live(t, e) /\ Becomes(t, e, At("done")) /\ UNCHANGED <<born, step, approval, announced>>
  BY DEF ReportRaise, End, Live, Becomes
<1>2. /\ task[t] \in TaskStatus \ {"absent", "pending", "awaiting_approval", "completed"}
      /\ announced[t] \in SUBSET (Terminal \ {"completed"})
  BY <1>1 DEF Inv, TypeOK, TaskInv
<1>3. PICK status \in {task[t], "failed"} : task' = [task EXCEPT ![t] = status]
  <2>1. CASE UNCHANGED task
    BY <2>1 DEF Inv, TypeOK
  <2>2. CASE UpdateStatus(t, "failed")
    <3>1. CASE task[t] \in Sources("failed")
      BY <2>2, <3>1 DEF UpdateStatus
    <3>2. CASE task[t] \notin Sources("failed")
      BY <2>2, <3>2 DEF Inv, TypeOK, UpdateStatus
    <3> QED BY <3>1, <3>2
  <2> QED BY <2>1, <2>2 DEF ReportRaise
<1>4. announced' = [announced EXCEPT ![t] = announced[t]]
  BY <1>1 DEF Inv, TypeOK
<1>5. status \in TaskStatus \ {"absent", "pending", "awaiting_approval", "completed"}
  BY <1>2, <1>3 DEF TaskStatus
<1> QED BY <1>1, <1>2, <1>3, <1>4, <1>5, Ended

LEMMA RaiseSafe ==
  ASSUME Inv, NEW t \in Tasks, NEW e \in Execs, Raise(t, e) PROVE Inv'
<1> USE WorkflowAssumption DEF Steps
<1>1. Live(t, e) /\ UNCHANGED <<task, born, step, approval, announced>>
  BY DEF Raise, Goto, Live
<1>2. exec[t][e] \in Exec
  BY DEF Inv, TypeOK
<1> DEFINE x == [exec[t][e] EXCEPT !.pc = "raised"]
<1>3. x \in Exec
  BY <1>2 DEF Exec, PC
<1>4. Becomes(t, e, x)
  BY DEF Becomes, Raise, Goto
<1>5. exec'[t][e] = x
  BY <1>3, <1>4, ExecWritten DEF Inv
<1>6. ExecInv(t, e)'
  BY <1>1, <1>2, <1>5 DEF Inv, TypeOK, ExecInv, Loop, Before, InStep, Exec, Raise, Goto,
     Resumable, Untouched
<1> QED BY <1>1, <1>3, <1>4, <1>6, Moved

LEMMA CrashSafe ==
  ASSUME Inv, NEW t \in Tasks, NEW e \in Execs, Crash(t, e) PROVE Inv'
<1> USE WorkflowAssumption DEF Steps
<1>1. Live(t, e) /\ UNCHANGED <<task, born, step, approval, announced>>
  BY DEF Crash, Goto, Live
<1>2. exec[t][e] \in Exec
  BY DEF Inv, TypeOK
<1> DEFINE x == At("done")
<1>3. x \in Exec
  BY DEF At, Exec, PC
<1>4. Becomes(t, e, x)
  BY DEF Becomes, Crash, Goto
<1>5. exec'[t][e] = x
  BY <1>3, <1>4, ExecWritten DEF Inv
<1>6. ExecInv(t, e)'
  BY <1>1, <1>2, <1>5 DEF Inv, TypeOK, ExecInv, Loop, Before, InStep, Exec, Crash, Goto,
     Resumable, Untouched, At
<1> QED BY <1>1, <1>3, <1>4, <1>6, Moved

LEMMA SetTokenSafe ==
  ASSUME Inv, NEW t \in Tasks, NEW e \in Execs, SetToken(t, e) PROVE Inv'
<1> USE WorkflowAssumption DEF Steps
<1>1. Live(t, e) /\ UNCHANGED <<task, born, step, approval, announced>>
  BY DEF SetToken, Goto, Live
<1>2. exec[t][e] \in Exec
  BY DEF Inv, TypeOK
<1> DEFINE x == [exec[t][e] EXCEPT !.token = TRUE]
<1>3. x \in Exec
  BY <1>2 DEF Exec, PC
<1>4. Becomes(t, e, x)
  BY DEF Becomes, SetToken, Goto
<1>5. exec'[t][e] = x
  BY <1>3, <1>4, ExecWritten DEF Inv
<1>6. ExecInv(t, e)'
  <2>1. /\ exec'[t][e].pc = exec[t][e].pc
        /\ exec'[t][e].idx = exec[t][e].idx
        /\ exec'[t][e].seen = exec[t][e].seen
    BY <1>2, <1>5 DEF Exec
  <2> QED BY <1>1, <2>1 DEF Inv, ExecInv, Resumable
<1> QED BY <1>1, <1>3, <1>4, <1>6, Moved

-----------------------------------------------------------------------------
(* The operator, the queue and the sweeps.                                 *)

LEMMA SubmitSafe ==
  ASSUME Inv, NEW t \in Tasks, Submit(t) PROVE Inv'
<1>1. \A s \in Tasks : task'[s] = IF s = t THEN "pending" ELSE task[s]
  BY DEF Inv, TypeOK, Submit
<1>2. TypeOK'
  BY DEF Inv, TypeOK, Submit, TaskStatus
<1>3. SingleExecution' /\ \A s \in Tasks, d \in Execs : ExecInv(s, d)'
  BY DEF Inv, Submit, SingleExecution, Live, ExecInv, Resumable
<1>4. ASSUME NEW s \in Tasks PROVE TaskInv(s)'
  <2>1. TaskInv(s) /\ (s = t => task[s] = "absent")
    BY DEF Inv, Submit
  <2>2. step' = step /\ approval' = approval /\ exec' = exec /\ announced' = announced
    BY DEF Submit
  <2> QED BY <1>1, <2>1, <2>2 DEF TaskInv, Resumable, Live
<1> QED BY <1>2, <1>3, <1>4 DEF Inv

LEMMA AcquireSafe ==
  ASSUME Inv, NEW t \in Tasks, Acquire(t) PROVE Inv'
<1>1. task[t] = "pending" /\ task' = [task EXCEPT ![t] = "running"]
      /\ UNCHANGED <<born, step, approval, announced>>
  BY DEF Acquire
<1>2. PICK e \in Execs : exec' = [exec EXCEPT ![t][e] = At("load")]
  BY DEF Acquire
<1>3. At("load") \in Exec /\ Becomes(t, e, At("load"))
  BY <1>2, WorkflowAssumption DEF At, Exec, PC, Becomes
<1>4. /\ exec' \in [Tasks -> [Execs -> Exec]]
      /\ exec'[t][e] = At("load")
      /\ \A s \in Tasks \ {t} : exec'[s] = exec[s]
      /\ \A d \in Execs \ {e} : exec'[t][d] = exec[t][d]
  BY <1>3, ExecWritten DEF Inv
<1>5. \A d \in Execs : ~Live(t, d)
  BY <1>1 DEF Inv, TaskInv
<1>6. TypeOK'
  BY <1>1, <1>4 DEF Inv, TypeOK, TaskStatus
<1>7. SingleExecution'
  BY <1>4, <1>5 DEF Inv, SingleExecution, Live
<1>8. ASSUME NEW s \in Tasks PROVE TaskInv(s)'
  <2>1. CASE s = t
    BY <1>1, <2>1 DEF Inv, TypeOK, TaskInv
  <2>2. CASE s # t
    BY <1>1, <1>4, <2>2 DEF Inv, TypeOK, TaskInv, Resumable, Live
  <2> QED BY <2>1, <2>2
<1>9. ASSUME NEW s \in Tasks, NEW d \in Execs PROVE ExecInv(s, d)'
  <2>1. CASE s = t /\ d = e
    <3>1. Resumable(t)
      BY <1>1 DEF Inv, TaskInv
    <3> QED BY <1>1, <1>4, <2>1, <3>1 DEF ExecInv, At, Loop, Before, InStep, Resumable
  <2>2. CASE s # t \/ d # e
    <3>1. exec'[s][d] = exec[s][d]
      BY <1>4, <2>2
    <3> QED BY <1>1, <3>1 DEF Inv, ExecInv, Resumable
  <2> QED BY <2>1, <2>2
<1> QED BY <1>6, <1>7, <1>8, <1>9 DEF Inv

LEMMA CancelTaskSafe ==
  ASSUME Inv, NEW t \in Tasks, CancelTask(t) PROVE Inv'
<1> DEFINE told == [d \in Execs |-> IF Live(t, d) THEN [exec[t][d] EXCEPT !.token = TRUE]
                                                 ELSE exec[t][d]]
<1>1. ASSUME NEW d \in Execs
      PROVE  /\ told[d] \in Exec
             /\ told[d].pc = exec[t][d].pc
             /\ told[d].idx = exec[t][d].idx
             /\ told[d].seen = exec[t][d].seen
  <2>1. exec[t][d] \in Exec
    BY DEF Inv, TypeOK
  <2> QED BY <2>1 DEF Exec
<1>a. exec' = exec \/ exec' = [exec EXCEPT ![t] = told]
  BY DEF CancelTask
<1> HIDE DEF told
<1>2. exec' \in [Tasks -> [Execs -> Exec]]
  <2>1. told \in [Execs -> Exec]
    BY <1>1 DEF told
  <2> QED BY <1>a, <2>1 DEF Inv, TypeOK
<1>b. \A s \in Tasks, d \in Execs :
        /\ exec'[s][d].pc = exec[s][d].pc
        /\ exec'[s][d].idx = exec[s][d].idx
        /\ exec'[s][d].seen = exec[s][d].seen
  BY <1>1, <1>a DEF Inv, TypeOK
<1>3. /\ UNCHANGED <<born, step, approval>>
      /\ \A s \in Tasks :
           /\ task'[s] = task[s] \/ (task'[s] = "cancelled" /\ task[s] # "completed")
           /\ announced'[s] = announced[s] \/ announced'[s] = announced[s] \cup {"cancelled"}
  BY DEF Inv, TypeOK, CancelTask, Announce
<1>4. TypeOK'
  BY <1>2 DEF Inv, TypeOK, CancelTask, Announce, TaskStatus, Terminal
<1>5. SingleExecution'
  BY <1>b DEF Inv, SingleExecution, Live
<1>6. ASSUME NEW s \in Tasks PROVE TaskInv(s)'
  BY <1>b, <1>3 DEF Inv, TaskInv, Resumable, Live
<1>7. ASSUME NEW s \in Tasks, NEW d \in Execs PROVE ExecInv(s, d)'
  BY <1>b, <1>3 DEF Inv, ExecInv, Resumable
<1> QED BY <1>4, <1>5, <1>6, <1>7 DEF Inv

LEMMA RecoverStaleTaskSafe ==
  ASSUME Inv, NEW t \in Tasks, RecoverStaleTask(t) PROVE Inv'
<1>1. /\ UNCHANGED <<born, step, approval, exec, announced>>
      /\ \A s \in Tasks : task'[s] = task[s] \/ (task'[s] = "failed" /\ task[s] = "running")
  BY DEF Inv, TypeOK, RecoverStaleTask
<1>2. TypeOK'
  BY DEF Inv, TypeOK, RecoverStaleTask, TaskStatus
<1>3. SingleExecution' /\ \A s \in Tasks, d \in Execs : ExecInv(s, d)'
  BY <1>1 DEF Inv, SingleExecution, Live, ExecInv, Resumable
<1>4. ASSUME NEW s \in Tasks PROVE TaskInv(s)'
  BY <1>1 DEF Inv, TaskInv, Resumable, Live
<1> QED BY <1>2, <1>3, <1>4 DEF Inv

\* A pending request is decided or expires: the gate of its step was closed,
\* and a halted task is requeued or ended.
LEMMA ApprovalSafe ==
  ASSUME Inv, NEW t \in Tasks, NEW i \in Steps, approval[t][i] = "pending",
         NEW decision \in ApprovalStatus \ {"none"}, approval' = [approval EXCEPT ![t][i] = decision],
         NEW status \in TaskStatus, task' = [task EXCEPT ![t] = status],
         \/ status = task[t]
         \/ task[t] = "awaiting_approval" /\ status \in {"pending", "failed", "timed_out"},
         UNCHANGED <<born, step, exec, announced>>
  PROVE  Inv'
<1>1. TypeOK'
  BY DEF Inv, TypeOK
<1>2. /\ \A s \in Tasks \ {t} : task'[s] = task[s] /\ approval'[s] = approval[s]
      /\ task'[t] = status
      /\ \A j \in Steps \ {i} : approval'[t][j] = approval[t][j]
  BY DEF Inv, TypeOK
<1>3. SingleExecution'
  BY DEF Inv, SingleExecution, Live
<1>4. ASSUME NEW s \in Tasks PROVE TaskInv(s)'
  <2>1. TaskInv(s)
    BY DEF Inv
  <2>2. \A j \in Sensitive :
          step[s][j] \in {"running", "completed"} => approval'[s][j] = "approved"
    BY <1>2, <2>1, WorkflowAssumption DEF TaskInv, Steps
  <2>3. \A e \in Execs : Live(s, e)' <=> Live(s, e)
    BY DEF Live
  <2> QED BY <1>2, <2>1, <2>2, <2>3 DEF TaskInv, Resumable
<1>5. ASSUME NEW s \in Tasks, NEW e \in Execs PROVE ExecInv(s, e)'
  <2>1. ExecInv(s, e)
    BY DEF Inv
  <2>2. CASE s # t \/ exec[s][e].idx # i
    BY <1>2, <2>1, <2>2, WorkflowAssumption DEF ExecInv, Resumable, InStep, Loop, Before, Steps
  <2>3. CASE s = t /\ exec[s][e].idx = i
    BY <1>2, <2>1, <2>3 DEF ExecInv, Resumable, InStep, Loop, Before
  <2> QED BY <2>2, <2>3
<1> QED BY <1>1, <1>3, <1>4, <1>5 DEF Inv

-----------------------------------------------------------------------------
(* The invariant.                                                          *)

LEMMA InvInit == Init => Inv
<1> SUFFICES ASSUME Init PROVE Inv
  OBVIOUS
<1>1. At("none") \in Exec
  BY WorkflowAssumption DEF At, Exec, PC
<1>2. TypeOK
  BY <1>1 DEF Init, TypeOK, TaskStatus, StepStatus, ApprovalStatus, Terminal
<1>3. \A t \in Tasks, e \in Execs : exec[t][e] = At("none")
  BY DEF Init
<1>4. SingleExecution /\ \A t \in Tasks, e \in Execs : ExecInv(t, e)
  BY <1>3 DEF SingleExecution, Live, ExecInv, At, Loop, Before, InStep
<1>5. ASSUME NEW t \in Tasks PROVE TaskInv(t)
  BY <1>3, WorkflowAssumption DEF Init, TaskInv, Live, At, Steps
<1> QED BY <1>2, <1>4, <1>5 DEF Inv

LEMMA InvExec ==
  ASSUME Inv, NEW t \in Tasks, NEW e \in Execs, ExecNext(t, e) PROVE Inv'
<1>1. CASE \/ GiveUp(t, e, "cancelling", "cancelled")
           \/ GiveUp(t, e, "failing", "failed")
           \/ GiveUp(t, e, "timing", "timed_out")
  BY <1>1, GiveUpSafe
<1> QED
  BY <1>1, LoadStepsSafe, PlanStepSafe, PlanFailsSafe, NoticeCancelSafe, TimeOutSafe,
     NextStepSafe,
     DenySafe, CheckStepApprovalSafe, CreateApprovalSafe, HoldStepSafe, HaltTaskSafe, StartStepSafe,
     RunToolSafe, RecordStepSafe, StepDoneSafe, StepRaisesSafe, StepBrokenSafe, FailStepSafe,
     CompleteSafe, RaiseSafe, ReportRaiseSafe, CrashSafe, SetTokenSafe
  DEF ExecNext

LEMMA InvApproval ==
  ASSUME Inv, NEW t \in Tasks, NEW i \in Steps, ApprovalNext(t, i) PROVE Inv'
<1>1. approval[t][i] = "pending" /\ UNCHANGED <<born, step, exec, announced>>
  BY DEF ApprovalNext, DecideApproval, DecideTooLate, ExpireStaleApproval
<1>2. task[t] \in TaskStatus
  BY DEF Inv, TypeOK
<1>3. CASE \E decision \in {"approved", "rejected"} : DecideApproval(t, i, decision)
  <2>1. PICK decision \in {"approved", "rejected"} : DecideApproval(t, i, decision)
    BY <1>3
  <2>2. decision \in ApprovalStatus \ {"none"}
    BY DEF ApprovalStatus
  <2>3. /\ Resumed(t, decision) \in TaskStatus
        /\ \/ Resumed(t, decision) = task[t]
           \/ task[t] = "awaiting_approval" /\ Resumed(t, decision) \in {"pending", "failed", "timed_out"}
    BY <1>2 DEF Resumed, TaskStatus
  <2> QED BY <1>1, <2>1, <2>2, <2>3, ApprovalSafe DEF DecideApproval
<1>4. CASE DecideTooLate(t, i)
  <2>1. task' = [task EXCEPT ![t] = task[t]] /\ approval' = [approval EXCEPT ![t][i] = "expired"]
    BY <1>4 DEF DecideTooLate, Inv, TypeOK
  <2> QED BY <1>1, <1>2, <2>1, ApprovalSafe DEF ApprovalStatus
<1>5. CASE ExpireStaleApproval(t, i)
  <2> DEFINE status == IF task[t] = "awaiting_approval" THEN "timed_out" ELSE task[t]
  <2>1. task' = [task EXCEPT ![t] = status] /\ approval' = [approval EXCEPT ![t][i] = "expired"]
    BY <1>5 DEF ExpireStaleApproval
  <2>2. status \in TaskStatus
        /\ (status # task[t] => task[t] = "awaiting_approval" /\ status \in {"pending", "failed", "timed_out"})
    BY <1>2 DEF TaskStatus
  <2> HIDE DEF status
  <2> QED BY <1>1, <2>1, <2>2, ApprovalSafe DEF ApprovalStatus
<1> QED BY <1>3, <1>4, <1>5 DEF ApprovalNext

LEMMA InvNext == Inv /\ [Next]_vars => Inv'
<1> SUFFICES ASSUME Inv, [Next]_vars PROVE Inv'
  OBVIOUS
<1>1. CASE UNCHANGED vars
  <2>1. TypeOK' /\ SingleExecution'
    BY <1>1 DEF vars, Inv, TypeOK, SingleExecution, Live
  <2>2. ASSUME NEW t \in Tasks PROVE TaskInv(t)'
    BY <1>1 DEF vars, Inv, TaskInv, Resumable, Live
  <2>3. ASSUME NEW t \in Tasks, NEW e \in Execs PROVE ExecInv(t, e)'
    BY <1>1 DEF vars, Inv, ExecInv, Resumable
  <2> QED BY <2>1, <2>2, <2>3 DEF Inv
<1>2. CASE Next
  <2>1. PICK t \in Tasks : \/ TaskNext(t)
                           \/ \E e \in Execs : ExecNext(t, e)
                           \/ \E i \in Steps : ApprovalNext(t, i)
    BY <1>2 DEF Next
  <2>2. CASE TaskNext(t)
    BY <2>2, SubmitSafe, AcquireSafe, CancelTaskSafe, RecoverStaleTaskSafe DEF TaskNext
  <2> QED BY <2>1, <2>2, InvExec, InvApproval
<1> QED BY <1>1, <1>2

\* The inductive invariant holds in every reachable state.
THEOREM WorkflowInvariant == Spec => []Inv
<1> QED BY InvInit, InvNext, PTL DEF Spec

\* Types, for every number of tasks, executions and steps.
THEOREM TypeCorrect == Spec => []TypeOK
<1>1. Inv => TypeOK
  BY DEF Inv
<1> QED BY <1>1, WorkflowInvariant, PTL

\* Two executions of one task never overlap.
THEOREM ExecutionsAreSingle == Spec => []SingleExecution
<1>1. Inv => SingleExecution
  BY DEF Inv
<1> QED BY <1>1, WorkflowInvariant, PTL

\* The tool of a sensitive step has an operator's approval.
THEOREM SensitiveToolsAreApproved == Spec => []SensitiveToolApproved
<1>1. Inv => SensitiveToolApproved
  BY DEF Inv, TaskInv, SensitiveToolApproved
<1> QED BY <1>1, WorkflowInvariant, PTL

\* A completed task has completed every step of its plan.
THEOREM CompletionsAreWhole == Spec => []CompletedIsWhole
<1>1. Inv => CompletedIsWhole
  BY DEF Inv, TaskInv, CompletedIsWhole
<1> QED BY <1>1, WorkflowInvariant, PTL

\* A published completion is true.
THEOREM CompletionsAnnouncedTruly == Spec => []CompletionAnnouncedTruly
<1>1. Inv => CompletionAnnouncedTruly
  BY DEF Inv, TaskInv, CompletionAnnouncedTruly
<1> QED BY <1>1, WorkflowInvariant, PTL

\* No tool is started a second time, over all executions of a task.
THEOREM ToolsStartOnce == Spec => ToolStartsOnce
<1>1. ASSUME Inv, NEW t \in Tasks, NEW e \in Execs, exec[t][e].pc = "start"
      PROVE  step[t][exec[t][e].idx] \in {"pending", "awaiting_approval"}
  BY <1>1 DEF Inv, ExecInv, Before, InStep, Untouched
<1>2. Inv => [\A t \in Tasks, e \in Execs :
                exec[t][e].pc = "start" /\ exec'[t][e].pc = "tool" =>
                  step[t][exec[t][e].idx] \in {"pending", "awaiting_approval"}]_vars
  BY <1>1
<1> QED BY <1>2, WorkflowInvariant, PTL DEF ToolStartsOnce

\* No decision, sweep, cancellation or late execution changes a terminal task.
THEOREM TerminalTasksStay == Spec => TerminalTaskStays
<1>1. ASSUME NEW t \in Tasks, NEW s \in Tasks, NEW status \in TaskStatus,
             TypeOK, UpdateStatus(t, status), task[s] \in Terminal, status # "absent"
      PROVE  task'[s] = task[s]
  BY <1>1 DEF TypeOK, UpdateStatus, Sources, Terminal
<1>2. ASSUME TypeOK, Next, NEW s \in Tasks, task[s] \in Terminal PROVE task'[s] = task[s]
  <2>1. PICK t \in Tasks : \/ TaskNext(t)
                           \/ \E e \in Execs : ExecNext(t, e)
                           \/ \E i \in Steps : ApprovalNext(t, i)
    BY <1>2 DEF Next
  <2>2. CASE TaskNext(t)
    BY <1>2, <2>2 DEF TypeOK, TaskNext, Submit, Acquire, CancelTask, RecoverStaleTask, Terminal
  <2>3. ASSUME NEW e \in Execs, ExecNext(t, e) PROVE task'[s] = task[s]
    <3>1. \/ UNCHANGED task
          \/ \E status \in TaskStatus \ {"absent"} : UpdateStatus(t, status)
      <4>1. CASE HaltTask(t, e) \/ Complete(t, e) \/ ReportRaise(t, e)
        BY <4>1 DEF HaltTask, Complete, ReportRaise, TaskStatus
      <4>2. CASE \/ GiveUp(t, e, "cancelling", "cancelled")
                 \/ GiveUp(t, e, "failing", "failed")
                 \/ GiveUp(t, e, "timing", "timed_out")
        BY <4>2 DEF GiveUp, TaskStatus
      <4> QED
        BY <2>3, <4>1, <4>2 DEF ExecNext, LoadSteps, PlanStep, PlanFails, NoticeCancel, TimeOut,
           NextStep, Deny, CheckStepApproval, CreateApproval, HoldStep, StartStep, RunTool,
           RecordStep, StepDone, StepRaises, StepBroken, FailStep, Raise, Crash, SetToken
    <3> QED BY <1>1, <1>2, <3>1
  <2>4. ASSUME NEW i \in Steps, ApprovalNext(t, i) PROVE task'[s] = task[s]
    BY <1>2, <2>4 DEF TypeOK, ApprovalNext, DecideApproval, DecideTooLate, ExpireStaleApproval,
       Resumed, Terminal
  <2> QED BY <2>1, <2>2, <2>3, <2>4
<1>3. Inv /\ [Next]_vars =>
        [\A t \in Tasks : task[t] \in Terminal => task'[t] = task[t]]_vars
  BY <1>2 DEF Inv
<1> QED BY <1>3, WorkflowInvariant, PTL DEF Spec, TerminalTaskStays


-----------------------------------------------------------------------------
(* Refinement of ApprovedPlan.                                             *)

\* The refinement mapping, as TaskWorkflow's Plan instance substitutes it.
WorkAt    == [t \in Tasks |-> [i \in Steps |-> WorkOf(step[t][i])]]
GrantedAt == [t \in Tasks |-> {i \in Steps : approval[t][i] = "approved"}]

LEMMA PlanSteps == Plan!Steps = Steps
BY DEF Plan!Steps, Steps

LEMMA PlanStutter ==
  ASSUME task' = task, WorkAt' = WorkAt, GrantedAt' = GrantedAt
  PROVE  UNCHANGED Plan!vars
BY DEF WorkAt, GrantedAt, Plan!vars

\* One row of task_steps is one entry of the work.
LEMMA WorkWritten ==
  ASSUME TypeOK, NEW t \in Tasks, NEW i \in Steps, NEW status, SetStep(t, i, status)
  PROVE  WorkAt' = [WorkAt EXCEPT ![t] = [WorkAt[t] EXCEPT ![i] = WorkOf(status)]]
<1> DEFINE row(s) == [j \in Steps |-> WorkOf(step'[s][j])]
<1>1. \A s \in Tasks, j \in Steps :
        step'[s][j] = IF s = t /\ j = i THEN status ELSE step[s][j]
  BY DEF TypeOK, SetStep
<1>2. ASSUME NEW s \in Tasks
      PROVE  row(s) = IF s = t THEN [WorkAt[t] EXCEPT ![i] = WorkOf(status)] ELSE WorkAt[s]
  <2>1. CASE s = t
    <3>1. WorkAt[t] = [j \in Steps |-> WorkOf(step[t][j])]
      BY DEF WorkAt
    <3>2. \A j \in Steps : WorkOf(step'[s][j]) = IF j = i THEN WorkOf(status) ELSE WorkOf(step[t][j])
      BY <1>1, <2>1
    <3>3. row(s) = [j \in Steps |-> IF j = i THEN WorkOf(status) ELSE WorkOf(step[t][j])]
      BY <3>2
    <3>4. QED
      BY <2>1, <3>1, <3>3
  <2>2. CASE s # t
    BY <1>1, <2>2 DEF WorkAt
  <2>3. QED
    BY <2>1, <2>2
<1>3. WorkAt' = [s \in Tasks |-> row(s)]
  BY DEF WorkAt
<1>4. WorkAt = [s \in Tasks |-> WorkAt[s]]
  BY DEF WorkAt
<1> HIDE DEF row
<1>5. QED
  BY <1>2, <1>3, <1>4

LEMMA WorkRead ==
  ASSUME NEW t \in Tasks, NEW i \in Steps
  PROVE  WorkAt[t][i] = WorkOf(step[t][i])
BY DEF WorkAt

\* A row rewritten with a status that shows no work is no step of the plan.
LEMMA WorkKept ==
  ASSUME TypeOK, NEW t \in Tasks, NEW i \in Steps, NEW status, SetStep(t, i, status),
         WorkOf(status) = WorkOf(step[t][i])
  PROVE  WorkAt' = WorkAt
<1>1. \A s \in Tasks, j \in Steps : WorkOf(step'[s][j]) = WorkOf(step[s][j])
  <2>1. \A s \in Tasks, j \in Steps :
          step'[s][j] = IF s = t /\ j = i THEN status ELSE step[s][j]
    BY DEF TypeOK, SetStep
  <2>2. QED
    BY <2>1
<1>2. QED
  BY <1>1 DEF WorkAt

\* The task is in hand while an execution of it is alive.
LEMMA InHand ==
  ASSUME Inv, NEW t \in Tasks, NEW e \in Execs, Live(t, e)
  PROVE  Plan!InHand(t)
BY DEF Inv, TaskInv, Plan!InHand

\* The task's row goes where the promise lets it go, or stays.
LEMMA TaskMoves ==
  ASSUME TypeOK, NEW t \in Tasks, NEW s, task' = [task EXCEPT ![t] = s],
         s = task[t] \/ s \in Plan!After(task[t]), UNCHANGED <<step, approval>>
  PROVE  [Plan!Next]_Plan!vars
<1>1. WorkAt' = WorkAt /\ GrantedAt' = GrantedAt
  BY DEF WorkAt, GrantedAt
<1>2. CASE s = task[t]
  <2>1. task' = task
    BY <1>2 DEF TypeOK
  <2>2. QED
    BY <1>1, <2>1, PlanStutter
<1>3. CASE s \in Plan!After(task[t])
  <2>1. s \in {"pending", "running", "awaiting_approval", "failed", "cancelled", "timed_out"}
    BY <1>3 DEF Plan!After
  <2>2. Plan!Move(t, s)
    BY <1>1, <1>3 DEF Plan!Move, WorkAt, GrantedAt
  <2>3. QED
    BY <2>1, <2>2 DEF Plan!Next
<1>4. QED
  BY <1>2, <1>3

LEMMA StartIsStart ==
  ASSUME Inv, NEW t \in Tasks, NEW e \in Execs, StartStep(t, e)
  PROVE  Plan!Next
<1> DEFINE n == exec[t][e].idx
<1>1. Live(t, e) /\ ExecInv(t, e) /\ exec[t][e].pc = "start" /\ TypeOK
  BY DEF StartStep, Goto, Live, Inv
<1>2. /\ n \in Steps /\ step[t][n] \in {"pending", "awaiting_approval"}
      /\ \A j \in Steps : j < n => step[t][j] = "completed"
      /\ n \in Sensitive => approval[t][n] = "approved"
  BY <1>1 DEF ExecInv, Loop, Before, InStep, Untouched
<1>3. SetStep(t, n, "running") /\ task' = task /\ GrantedAt' = GrantedAt
  BY DEF StartStep, GrantedAt
<1>4. ASSUME NEW i \in Steps, i = n
      PROVE  Plan!Start(t, i)
  <2>1. WorkAt' = [WorkAt EXCEPT ![t] = [WorkAt[t] EXCEPT ![i] = "running"]]
    BY <1>1, <1>3, <1>4, WorkWritten DEF WorkOf
  <2>2. WorkAt[t][i] = "idle" /\ \A j \in Steps : j < i => WorkAt[t][j] = "completed"
    BY <1>2, <1>4, WorkRead DEF WorkOf
  <2>3. i \in Sensitive => i \in GrantedAt[t]
    BY <1>2, <1>4 DEF GrantedAt
  <2>4. Plan!InHand(t)
    BY <1>1, InHand
  <2>5. QED
    BY <1>3, <2>1, <2>2, <2>3, <2>4, PlanSteps DEF Plan!Start, Plan!Set, WorkAt, GrantedAt
<1>5. \E i \in Plan!Steps : Plan!Start(t, i)
  BY <1>2, <1>4, PlanSteps
<1>6. QED
  BY <1>5 DEF Plan!Next

LEMMA RecordIsFinish ==
  ASSUME Inv, NEW t \in Tasks, NEW e \in Execs, RecordStep(t, e)
  PROVE  Plan!Next
<1> DEFINE n == exec[t][e].idx
<1>1. Live(t, e) /\ ExecInv(t, e) /\ exec[t][e].pc = "record" /\ TypeOK
  BY DEF RecordStep, Goto, Live, Inv
<1>2. n \in Steps /\ step[t][n] = "running"
  BY <1>1 DEF ExecInv, InStep
<1>3. SetStep(t, n, "completed") /\ task' = task /\ GrantedAt' = GrantedAt
  BY DEF RecordStep, GrantedAt
<1>4. ASSUME NEW i \in Steps, i = n
      PROVE  Plan!Finish(t, i)
  <2>1. WorkAt' = [WorkAt EXCEPT ![t] = [WorkAt[t] EXCEPT ![i] = "completed"]]
    BY <1>1, <1>3, <1>4, WorkWritten DEF WorkOf
  <2>2. WorkAt[t][i] = "running"
    BY <1>2, <1>4, WorkRead DEF WorkOf
  <2>3. Plan!InHand(t)
    BY <1>1, InHand
  <2>4. QED
    BY <1>3, <2>1, <2>2, <2>3 DEF Plan!Finish, Plan!Set, WorkAt, GrantedAt
<1>5. \E i \in Plan!Steps : Plan!Finish(t, i)
  BY <1>2, <1>4, PlanSteps
<1>6. QED
  BY <1>5 DEF Plan!Next

LEMMA FailIsFail ==
  ASSUME Inv, NEW t \in Tasks, NEW e \in Execs, FailStep(t, e)
  PROVE  Plan!Next
<1> DEFINE n == exec[t][e].idx
<1>1. Live(t, e) /\ ExecInv(t, e) /\ exec[t][e].pc \in {"interrupt", "refuse"} /\ TypeOK
  BY DEF FailStep, Goto, Live, Inv
<1>2. n \in Steps
  BY <1>1 DEF ExecInv
<1>3. SetStep(t, n, "failed") /\ task' = task /\ GrantedAt' = GrantedAt
  BY DEF FailStep, GrantedAt
<1>4. ASSUME NEW i \in Steps, i = n
      PROVE  Plan!Fail(t, i)
  <2>1. WorkAt' = [WorkAt EXCEPT ![t] = [WorkAt[t] EXCEPT ![i] = "failed"]]
    BY <1>1, <1>3, <1>4, WorkWritten DEF WorkOf
  <2>2. Plan!InHand(t)
    BY <1>1, InHand
  <2>3. QED
    BY <1>3, <2>1, <2>2 DEF Plan!Fail, Plan!Set, WorkAt, GrantedAt
<1>5. \E i \in Plan!Steps : Plan!Fail(t, i)
  BY <1>2, <1>4, PlanSteps
<1>6. QED
  BY <1>5 DEF Plan!Next

\* Storing the plan and holding a step show nothing: the step has not been started.
LEMMA IdleWritten ==
  ASSUME Inv, NEW t \in Tasks, NEW e \in Execs, PlanStep(t, e) \/ HoldStep(t, e)
  PROVE  UNCHANGED Plan!vars
<1> DEFINE n == exec[t][e].idx
<1>1. TypeOK /\ ExecInv(t, e)
  BY DEF Inv
<1>2. task' = task /\ GrantedAt' = GrantedAt
  BY DEF PlanStep, HoldStep, GrantedAt
<1>3. CASE PlanStep(t, e)
  <2>1. n \in Steps /\ step[t][n] = "absent" /\ SetStep(t, n, "pending")
    BY <1>1, <1>3 DEF PlanStep, ExecInv, Steps
  <2>2. WorkAt' = WorkAt
    BY <1>1, <2>1, WorkKept DEF WorkOf
  <2>3. QED
    BY <1>2, <2>2, PlanStutter
<1>4. CASE HoldStep(t, e)
  <2>1. n \in Steps /\ step[t][n] \in {"pending", "awaiting_approval"}
        /\ SetStep(t, n, "awaiting_approval")
    BY <1>1, <1>4 DEF HoldStep, Goto, ExecInv, Before, InStep, Untouched
  <2>2. WorkAt' = WorkAt
    BY <1>1, <2>1, WorkKept DEF WorkOf
  <2>3. QED
    BY <1>2, <2>2, PlanStutter
<1>5. QED
  BY <1>3, <1>4

LEMMA RequestGrantsNothing ==
  ASSUME Inv, NEW t \in Tasks, NEW e \in Execs, CreateApproval(t, e)
  PROVE  UNCHANGED Plan!vars
<1> DEFINE n == exec[t][e].idx
<1>1. n \in Steps /\ approval[t][n] \in {"none", "expired"}
  BY DEF Inv, CreateApproval, Goto, ExecInv, InStep
<1>2. \A s \in Tasks, j \in Steps :
        approval'[s][j] = IF s = t /\ j = n THEN "pending" ELSE approval[s][j]
  BY <1>1 DEF Inv, TypeOK, CreateApproval
<1>3. \A s \in Tasks, j \in Steps : approval'[s][j] = "approved" <=> approval[s][j] = "approved"
  BY <1>1, <1>2
<1>4. GrantedAt' = GrantedAt
  BY <1>3 DEF GrantedAt
<1>5. task' = task /\ WorkAt' = WorkAt
  BY DEF CreateApproval, WorkAt
<1>6. QED
  BY <1>4, <1>5, PlanStutter

\* An execution that ends writes the task's row; completed only as a whole.
LEMMA EndRefines ==
  ASSUME Inv, NEW t \in Tasks, NEW e \in Execs, Live(t, e),
         NEW s \in {"awaiting_approval", "failed", "cancelled", "timed_out"},
         UpdateStatus(t, s), UNCHANGED <<step, approval>>
  PROVE  [Plan!Next]_Plan!vars
<1> DEFINE to == IF task[t] \in Sources(s) THEN s ELSE task[t]
<1>1. TypeOK /\ task[t] \in TaskStatus
          /\ task[t] \notin {"absent", "pending", "awaiting_approval", "completed"}
  BY DEF Inv, TypeOK, TaskInv
<1>2. to = task[t] \/ to \in Plan!After(task[t])
  BY <1>1 DEF Sources, Plan!After, TaskStatus
<1>3. task' = [task EXCEPT ![t] = to]
  BY DEF UpdateStatus
<1> HIDE DEF to
<1>4. QED
  BY <1>1, <1>2, <1>3, TaskMoves

LEMMA CompleteRefines ==
  ASSUME Inv, NEW t \in Tasks, NEW e \in Execs, Complete(t, e)
  PROVE  [Plan!Next]_Plan!vars
<1>1. Live(t, e) /\ ExecInv(t, e) /\ exec[t][e].pc = "complete" /\ TypeOK
  BY DEF Complete, End, Live, Inv
<1>2. \A i \in Steps : step[t][i] = "completed"
  BY <1>1, WorkflowAssumption DEF ExecInv, Loop, Steps
<1>3. task[t] \in TaskStatus \ {"absent", "pending", "awaiting_approval", "completed"}
  BY <1>1 DEF Inv, TypeOK, TaskInv
<1>4. UpdateStatus(t, "completed") /\ WorkAt' = WorkAt /\ GrantedAt' = GrantedAt
  BY DEF Complete, WorkAt, GrantedAt
<1>5. CASE task[t] = "running"
  <2>1. task' = [task EXCEPT ![t] = "completed"]
    BY <1>4, <1>5 DEF UpdateStatus, Sources
  <2>2. \A i \in Steps : WorkAt[t][i] = "completed"
    BY <1>2, WorkRead DEF WorkOf
  <2>3. Plan!Complete(t)
    BY <1>4, <1>5, <2>1, <2>2, PlanSteps DEF Plan!Complete, WorkAt, GrantedAt
  <2>4. QED
    BY <2>3 DEF Plan!Next
<1>6. CASE task[t] # "running"
  <2>1. task[t] \notin Sources("completed")
    BY <1>3, <1>6 DEF Sources
  <2>2. task' = task
    BY <1>1, <1>4, <2>1 DEF UpdateStatus, TypeOK
  <2>3. QED
    BY <1>4, <2>2, PlanStutter
<1>7. QED
  BY <1>5, <1>6

LEMMA ExecRefines ==
  ASSUME Inv, NEW t \in Tasks, NEW e \in Execs, ExecNext(t, e)
  PROVE  [Plan!Next]_Plan!vars
<1>1. CASE task' = task /\ step' = step /\ approval' = approval
  BY <1>1, PlanStutter DEF WorkAt, GrantedAt
<1>2. CASE PlanStep(t, e) \/ HoldStep(t, e) \/ CreateApproval(t, e)
  BY <1>2, IdleWritten, RequestGrantsNothing
<1>3. CASE StartStep(t, e) \/ RecordStep(t, e) \/ FailStep(t, e)
  BY <1>3, StartIsStart, RecordIsFinish, FailIsFail
<1>4. CASE Complete(t, e)
  BY <1>4, CompleteRefines
<1>5. CASE HaltTask(t, e) \/ ReportRaise(t, e)
  <2>1. Live(t, e) /\ UNCHANGED <<step, approval>>
    BY <1>5 DEF HaltTask, ReportRaise, End, Live
  <2>2. \/ UpdateStatus(t, "awaiting_approval") \/ UpdateStatus(t, "failed") \/ task' = task
    BY <1>5 DEF HaltTask, ReportRaise
  <2>3. QED
    BY <1>1, <2>1, <2>2, EndRefines
<1>6. CASE \/ GiveUp(t, e, "cancelling", "cancelled")
           \/ GiveUp(t, e, "failing", "failed")
           \/ GiveUp(t, e, "timing", "timed_out")
  <2>1. Live(t, e) /\ UNCHANGED <<step, approval>>
    BY <1>6 DEF GiveUp, End, Live
  <2>2. UpdateStatus(t, "cancelled") \/ UpdateStatus(t, "failed") \/ UpdateStatus(t, "timed_out")
    BY <1>6 DEF GiveUp
  <2>3. QED
    BY <2>1, <2>2, EndRefines
<1>7. QED
  BY <1>1, <1>2, <1>3, <1>4, <1>5, <1>6 DEF ExecNext, LoadSteps, PlanFails, NoticeCancel,
     TimeOut, NextStep, Deny, CheckStepApproval, RunTool, StepDone, StepRaises, StepBroken,
     Raise, Crash, SetToken

LEMMA TaskRefines ==
  ASSUME Inv, NEW t \in Tasks, TaskNext(t)
  PROVE  [Plan!Next]_Plan!vars
<1>1. TypeOK /\ task[t] \in TaskStatus /\ UNCHANGED <<step, approval>>
  BY DEF Inv, TypeOK, TaskNext, Submit, Acquire, CancelTask, RecoverStaleTask
<1>2. CASE Submit(t)
  BY <1>1, <1>2, TaskMoves DEF Submit, Plan!After
<1>3. CASE Acquire(t)
  BY <1>1, <1>3, TaskMoves DEF Acquire, Plan!After
<1>4. CASE CancelTask(t)
  <2>1. CASE task[t] \in {"pending", "running", "awaiting_approval"}
    <3>1. "cancelled" \in Plan!After(task[t]) /\ task' = [task EXCEPT ![t] = "cancelled"]
      BY <1>4, <2>1 DEF CancelTask, Plan!After
    <3>2. QED
      BY <1>1, <3>1, TaskMoves
  <2>2. CASE task[t] \notin {"pending", "running", "awaiting_approval"}
    <3>1. task' = [task EXCEPT ![t] = task[t]]
      BY <1>4, <2>2 DEF CancelTask
    <3>2. QED
      BY <1>1, <3>1, TaskMoves
  <2>3. QED
    BY <2>1, <2>2
<1>5. CASE RecoverStaleTask(t)
  BY <1>1, <1>5, TaskMoves DEF RecoverStaleTask, Plan!After
<1>6. QED
  BY <1>2, <1>3, <1>4, <1>5 DEF TaskNext

\* An approval is a grant, with the requeueing it causes; what rejects or expires a
\* request moves a halted task, or nothing.
LEMMA ApprovalRefines ==
  ASSUME Inv, NEW t \in Tasks, NEW i \in Steps, ApprovalNext(t, i)
  PROVE  [Plan!Next]_Plan!vars
<1>1. TypeOK /\ task[t] \in TaskStatus
      /\ approval[t][i] = "pending" /\ UNCHANGED step
  BY DEF Inv, TypeOK, ApprovalNext, DecideApproval, DecideTooLate, ExpireStaleApproval
<1>2. WorkAt' = WorkAt
  BY <1>1 DEF WorkAt
<1>3. CASE DecideApproval(t, i, "approved")
  <2>1. \A s \in Tasks, j \in Steps :
          approval'[s][j] = IF s = t /\ j = i THEN "approved" ELSE approval[s][j]
    BY <1>1, <1>3 DEF TypeOK, DecideApproval
  <2>2. GrantedAt' = [GrantedAt EXCEPT ![t] = GrantedAt[t] \cup {i}]
    <3>1. ASSUME NEW s \in Tasks
          PROVE  {j \in Steps : approval'[s][j] = "approved"} =
                   IF s = t THEN GrantedAt[t] \cup {i} ELSE GrantedAt[s]
      BY <2>1 DEF GrantedAt
    <3>2. GrantedAt' = [s \in Tasks |-> IF s = t THEN GrantedAt[t] \cup {i} ELSE GrantedAt[s]]
      BY <3>1 DEF GrantedAt
    <3>3. QED
      BY <3>2 DEF GrantedAt
  <2>3. i \notin GrantedAt[t]
    BY <1>1 DEF GrantedAt
  <2>4. task' = [task EXCEPT ![t] = IF task[t] = "awaiting_approval" THEN "pending" ELSE task[t]]
    BY <1>3 DEF DecideApproval, Resumed
  <2>5. Plan!Grant(t, i)
    BY <1>2, <2>2, <2>3, <2>4 DEF Plan!Grant, WorkAt, GrantedAt
  <2>6. QED
    BY <2>5, PlanSteps DEF Plan!Next
<1>4. ASSUME NEW decision \in {"rejected", "expired"},
             approval' = [approval EXCEPT ![t][i] = decision],
             NEW s \in {"failed", "timed_out", task[t]},
             task' = [task EXCEPT ![t] = s], s = task[t] \/ task[t] = "awaiting_approval"
      PROVE  [Plan!Next]_Plan!vars
  <2>1. \A u \in Tasks, j \in Steps :
          approval'[u][j] = IF u = t /\ j = i THEN decision ELSE approval[u][j]
    BY <1>1, <1>4 DEF TypeOK
  <2>2. \A u \in Tasks, j \in Steps : approval'[u][j] = "approved" <=> approval[u][j] = "approved"
    BY <1>1, <2>1
  <2>3. GrantedAt' = GrantedAt
    BY <2>2 DEF GrantedAt
  <2>4. CASE s = task[t]
    <3>1. task' = task
      BY <1>1, <1>4, <2>4 DEF TypeOK
    <3>2. QED
      BY <1>2, <2>3, <3>1, PlanStutter
  <2>5. CASE s # task[t]
    <3>1. s \in {"failed", "timed_out"} /\ s \in Plan!After(task[t])
      BY <1>4, <2>5 DEF Plan!After
    <3>2. Plan!Move(t, s)
      BY <1>2, <1>4, <2>3, <3>1 DEF Plan!Move, WorkAt, GrantedAt
    <3>3. QED
      BY <3>1, <3>2 DEF Plan!Next
  <2>6. QED
    BY <2>4, <2>5
<1>5. CASE DecideApproval(t, i, "rejected")
  BY <1>4, <1>5 DEF DecideApproval, Resumed
<1>6. CASE DecideTooLate(t, i)
  <2>1. task' = [task EXCEPT ![t] = task[t]]
    BY <1>1, <1>6 DEF DecideTooLate, TypeOK
  <2>2. QED
    BY <1>4, <1>6, <2>1 DEF DecideTooLate
<1>7. CASE ExpireStaleApproval(t, i)
  BY <1>4, <1>7 DEF ExpireStaleApproval
<1>8. QED
  BY <1>3, <1>5, <1>6, <1>7 DEF ApprovalNext

LEMMA PlanInit == Init => Plan!Init
<1> SUFFICES ASSUME Init PROVE Plan!Init
  OBVIOUS
<1>1. WorkAt = [t \in Tasks |-> [i \in Steps |-> "idle"]]
  BY DEF Init, WorkAt, WorkOf
<1>2. GrantedAt = [t \in Tasks |-> {}]
  BY DEF Init, GrantedAt
<1>3. QED
  BY <1>1, <1>2, PlanSteps DEF Init, Plan!Init, WorkAt, GrantedAt

\* The rows of a task keep what is promised of a plan: each step runs at most once, in
\* its turn, the sensitive ones when approved, none for a queued or halted task; only an
\* approval requeues and only a whole plan completes (execute_task, decide_approval,
\* acquire_next_pending_task and the sweeps).
THEOREM WorkflowKeepsThePlan == Spec => PlanRefined
<1>1. Init => Plan!Init
  BY PlanInit
<1>2. Inv /\ [Next]_vars => [Plan!Next]_Plan!vars
  <2> SUFFICES ASSUME Inv, [Next]_vars PROVE [Plan!Next]_Plan!vars
    OBVIOUS
  <2>1. CASE UNCHANGED vars
    BY <2>1, PlanStutter DEF vars, WorkAt, GrantedAt
  <2>2. CASE Next
    BY <2>2, ExecRefines, TaskRefines, ApprovalRefines DEF Next
  <2>3. QED
    BY <2>1, <2>2
<1>3. QED
  BY <1>1, <1>2, WorkflowInvariant, PTL DEF Spec, Plan!Spec, PlanRefined
=============================================================================
