---------------------------- MODULE ApprovedPlan ----------------------------
(***************************************************************************)
(* What a background task promises to its user, with no executions, queue, *)
(* sweeps or approval requests in it.  The steps of the plan are worked    *)
(* through in their order, each of them is started once, a sensitive one   *)
(* only after an operator approved it; work goes on only while the task is *)
(* neither queued nor halted; it is completed only as a whole, and what    *)
(* has ended stays as it ended.                                            *)
(***************************************************************************)
EXTENDS Naturals

CONSTANTS
  Tasks,
  NSteps,      \* the steps of the plan of every task
  Sensitive    \* those that need an approval

VARIABLES
  status,      \* [Tasks -> Status]
  work,        \* [Tasks -> [Steps -> Work]]: what became of each step
  granted      \* [Tasks -> SUBSET Steps]: the steps an operator approved

vars == <<status, work, granted>>

Steps == 1..NSteps
Work  == {"idle", "running", "completed", "failed"}

\* Where a task may go from a status, other than by a grant or as a whole.
After(s) ==
  CASE s = "absent"            -> {"pending"}
    [] s = "pending"           -> {"running", "cancelled"}
    [] s = "running"           -> {"awaiting_approval", "failed", "cancelled", "timed_out"}
    [] s = "awaiting_approval" -> {"failed", "cancelled", "timed_out"}
    [] OTHER                   -> {}

\* The task was handed to an execution, and has not been handed back.
InHand(t) == status[t] \notin {"absent", "pending", "awaiting_approval", "completed"}

Init ==
  /\ status  = [t \in Tasks |-> "absent"]
  /\ work    = [t \in Tasks |-> [i \in Steps |-> "idle"]]
  /\ granted = [t \in Tasks |-> {}]

Move(t, s) ==
  /\ s \in After(status[t])
  /\ status' = [status EXCEPT ![t] = s]
  /\ UNCHANGED <<work, granted>>

\* An approval is given once; it returns a halted task to the queue.
Grant(t, i) ==
  /\ i \notin granted[t]
  /\ granted' = [granted EXCEPT ![t] = @ \cup {i}]
  /\ status'  = [status EXCEPT ![t] = IF @ = "awaiting_approval" THEN "pending" ELSE @]
  /\ UNCHANGED work

Set(t, i, w) == work' = [work EXCEPT ![t] = [@ EXCEPT ![i] = w]]

Start(t, i) ==
  /\ InHand(t)
  /\ work[t][i] = "idle"
  /\ \A j \in Steps : j < i => work[t][j] = "completed"
  /\ i \in Sensitive => i \in granted[t]
  /\ Set(t, i, "running")
  /\ UNCHANGED <<status, granted>>

Finish(t, i) ==
  /\ InHand(t)
  /\ work[t][i] = "running"
  /\ Set(t, i, "completed")
  /\ UNCHANGED <<status, granted>>

\* A step may fail before it is started, and after it is finished.
Fail(t, i) ==
  /\ InHand(t)
  /\ Set(t, i, "failed")
  /\ UNCHANGED <<status, granted>>

Complete(t) ==
  /\ status[t] = "running"
  /\ \A i \in Steps : work[t][i] = "completed"
  /\ status' = [status EXCEPT ![t] = "completed"]
  /\ UNCHANGED <<work, granted>>

Next ==
  \E t \in Tasks :
    \/ \E s \in {"pending", "running", "awaiting_approval", "failed", "cancelled",
                 "timed_out"} : Move(t, s)
    \/ Complete(t)
    \/ \E i \in Steps : Grant(t, i) \/ Start(t, i) \/ Finish(t, i) \/ Fail(t, i)

Spec == Init /\ [][Next]_vars
=============================================================================
