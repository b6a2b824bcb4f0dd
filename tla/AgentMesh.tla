----------------------------- MODULE AgentMesh -----------------------------
(***************************************************************************)
(* The unified agent runtime (M59): agent runs kept in PostgreSQL, executed *)
(* from beginning to end inside the HTTP request that creates or resumes    *)
(* them, and children delegated to and executed by the same thread.         *)
(*                                                                          *)
(* Every statement of the repository is a transaction of its own.  A        *)
(* handler reads a run into an object, changes its copy, and writes the     *)
(* whole copy back: save_run is an upsert without a condition.  The         *)
(* database refuses only a row whose parent (or run) does not exist.        *)
(*                                                                          *)
(* A step that requires approval is refused by validate_plan, which looks   *)
(* at every step without a token: the run fails, WAITING_APPROVAL is never  *)
(* entered, and approve_step never finds a run to approve.  Neither         *)
(* WAITING_EXTERNAL nor UNKNOWN is ever assigned.                           *)
(***************************************************************************)
EXTENDS Integers, FiniteSets, Sequences

CONSTANTS
  Runs,           \* run ids, all of one tenant
  NoRun,          \* the NULL of parent_run_id
  Threads,        \* threads of the HTTP server
  MaxDepth,       \* max_depth of the coordinator
  MaxFanOut,      \* max_fan_out of the coordinator
  MaxIterations,  \* max_iterations of every budget
  MaxSteps,       \* bound: steps of a plan
  MaxFaults       \* bound: crashes and database errors

ASSUME MeshAssumption ==
  /\ IsFiniteSet(Runs) /\ NoRun \notin Runs
  /\ {MaxDepth, MaxFanOut, MaxIterations, MaxFaults} \subseteq Nat
  /\ MaxSteps \in Nat \ {0}

VARIABLES
  row,        \* agent_runs
  delegated,  \* agent_delegations: pairs of parent and child
  thread,     \* the requests being served
  faults

vars == <<row, delegated, thread, faults>>

Terminal == {"completed", "failed", "timed_out", "cancelled"}
Status   == {"pending", "running", "paused"} \cup Terminal
Gone     == {"none", "purged"}          \* not created yet, or deleted

\* parent_run_id and depth never change after the creation.
Row == [status : Status \cup Gone, parent : Runs \cup {NoRun}, depth : 0..MaxDepth]

\* VALID_RUN_TRANSITIONS, for the states that are reached.
Targets(status) ==
  CASE status = "pending" -> {"running", "paused", "cancelled", "failed"}
    [] status = "running" -> {"paused"} \cup Terminal
    [] status = "paused"  -> {"running", "cancelled"}
    [] OTHER              -> {}

\* transition_to answers silently when nothing changes.
CanBecome(status, target) == target = status \/ target \in Targets(status)

\* What a thread holds of a run: the status of its copy, and for an execution
\* its iterations and the steps left.  iteration_count is written back with a
\* terminal status only, so every execution starts from 0.
Frame == [run : Runs, status : Status, iters : 0..MaxIterations, left : 0..MaxSteps]

Copy(r, status) == [run |-> r, status |-> status, iters |-> 0, left |-> 0]

Thread == [op    : {"none", "execute", "cancel", "pause", "resume"},
           pc    : {"idle", "read", "write", "list", "begin", "plan", "step",
                    "spawn", "record", "raised"},
           stack : Seq(Frame),      \* the innermost execution first
           todo  : SUBSET Runs,     \* runs still to be cancelled
           child : Runs \cup {NoRun}]

Idle == [op |-> "none", pc |-> "idle", stack |-> <<>>, todo |-> {}, child |-> NoRun]

Exists(r) == row[r].status \notin Gone
Children(r) == {c \in Runs : <<r, c>> \in delegated}

Top(t) == thread[t].stack[1]

-----------------------------------------------------------------------------
Init ==
  /\ row = [r \in Runs |-> [status |-> "none", parent |-> NoRun, depth |-> 0]]
  /\ delegated = {}
  /\ thread = [t \in Threads |-> Idle]
  /\ faults = 0

\* The foreign key of parent_run_id.
Storable(r) == row[r].parent # NoRun => Exists(row[r].parent)

\* save_run: an upsert, whatever the row says by now.
SaveRun(r, status) == Storable(r) /\ row' = [row EXCEPT ![r].status = status]

Goto(t, pc) == thread' = [thread EXCEPT ![t].pc = pc]
Answer(t)   == thread' = [thread EXCEPT ![t] = Idle]

\* An exception leaves execute_run: it answers the request, or fails the step
\* of the run that delegated.
Unwound(th) == IF Len(th.stack) = 1 THEN Idle
               ELSE [th EXCEPT !.stack = Tail(@), !.pc = "raised"]

\* execute_run returns: to the request, or into the step that delegated, whose
\* record refers to the run of that step.
Returned(th) ==
  IF Len(th.stack) = 1 THEN Idle
  ELSE LET callers == Tail(th.stack) IN
       IF Exists(callers[1].run)
       THEN [th EXCEPT !.stack = [callers EXCEPT ![1].left = @ - 1], !.pc = "step"]
       ELSE [th EXCEPT !.stack = callers, !.pc = "raised"]

\* Mutant: the run is given back as timed out, but not saved.
ConcludeUnsaved(t, status) ==
  /\ status \in Targets(Top(t).status)
  /\ IF status = "timed_out" THEN UNCHANGED row ELSE SaveRun(Top(t).run, status)
  /\ thread' = [thread EXCEPT ![t] = Returned(@)]

\* The run is saved with its last status and given back.
Conclude(t, status) ==
  /\ status \in Targets(Top(t).status)
  /\ SaveRun(Top(t).run, status)
  /\ thread' = [thread EXCEPT ![t] = Returned(@)]

-----------------------------------------------------------------------------
(* Requests.                                                               *)

\* Ids that no run has had; the id of a child is drawn before it is saved.
Fresh == {r \in Runs : row[r].status = "none" /\ \A t \in Threads : thread[t].child # r}

\* POST /v1/agent/runs, with and without auto_execute.
Create(t) ==
  /\ thread[t] = Idle
  /\ \E r \in Fresh, auto \in BOOLEAN :
       /\ SaveRun(r, "pending")
       /\ thread' = IF auto
                    THEN [thread EXCEPT ![t].op = "execute", ![t].pc = "begin",
                                        ![t].stack = <<Copy(r, "pending")>>]
                    ELSE thread
  /\ UNCHANGED <<delegated, faults>>

\* POST /v1/agent/runs/{id}/cancel, /pause, /resume: the run is read.
Request(t) ==
  /\ thread[t] = Idle
  /\ \E r \in Runs, op \in {"cancel", "pause", "resume"} :
       /\ Exists(r)
       /\ thread' = [thread EXCEPT ![t].op = op, ![t].pc = "read", ![t].todo = {r}]
  /\ UNCHANGED <<row, delegated, faults>>

\* Mutant: delegations without ON DELETE CASCADE.
PurgeRunsOnly ==
  /\ \E r \in Runs : Exists(r)
  /\ row' = [r \in Runs |-> IF Exists(r) THEN [row[r] EXCEPT !.status = "purged"] ELSE row[r]]
  /\ UNCHANGED <<delegated, thread, faults>>

\* DELETE /v1/agent/tenants/{id}/purge; the delegations go with the runs.
Purge ==
  /\ \E r \in Runs : Exists(r)
  /\ row' = [r \in Runs |-> IF Exists(r) THEN [row[r] EXCEPT !.status = "purged"] ELSE row[r]]
  /\ delegated' = {}
  /\ UNCHANGED <<thread, faults>>

-----------------------------------------------------------------------------
(* Cancel, pause and resume.                                               *)

Hold(t, r, pc) ==
  thread' = [thread EXCEPT ![t].pc = pc,
                           ![t].stack = <<Copy(r, row[r].status)>>]

\* A run that has gone in the meantime: not found, or a warning in the cascade.
CancelRead(t) ==
  /\ thread[t].op = "cancel" /\ thread[t].pc = "read"
  /\ IF thread[t].todo = {} THEN Answer(t)
     ELSE \E r \in thread[t].todo :
            IF ~Exists(r) THEN thread' = [thread EXCEPT ![t].todo = @ \ {r}]
            ELSE Hold(t, r, IF row[r].status \in Terminal THEN "list" ELSE "write")
  /\ UNCHANGED <<row, delegated, faults>>

CancelWrite(t) ==
  /\ thread[t].op = "cancel" /\ thread[t].pc = "write"
  /\ IF Storable(Top(t).run)
     THEN SaveRun(Top(t).run, "cancelled") /\ Goto(t, "list")
     ELSE /\ thread' = [thread EXCEPT ![t].pc = "read", ![t].todo = @ \ {Top(t).run}]
          /\ UNCHANGED row
  /\ UNCHANGED <<delegated, faults>>

\* The children, of a run that was terminal already too.
CancelList(t) ==
  /\ thread[t].op = "cancel" /\ thread[t].pc = "list"
  /\ thread' = [thread EXCEPT ![t].pc = "read",
                              ![t].todo = (@ \ {Top(t).run}) \cup Children(Top(t).run)]
  /\ UNCHANGED <<row, delegated, faults>>

\* Mutant: pause writes over whatever it has read.
ReadAnything(t, op, target) ==
  /\ thread[t].op = op /\ thread[t].pc = "read"
  /\ \E r \in thread[t].todo : IF Exists(r) THEN Hold(t, r, "write") ELSE Answer(t)
  /\ UNCHANGED <<row, delegated, faults>>

ReadFor(t, op, target) ==
  /\ thread[t].op = op /\ thread[t].pc = "read"
  /\ \E r \in thread[t].todo :
       IF /\ Exists(r) /\ CanBecome(row[r].status, target)
          /\ op = "resume" => row[r].status = "paused"
       THEN Hold(t, r, "write") ELSE Answer(t)
  /\ UNCHANGED <<row, delegated, faults>>

PauseRead(t)  == ReadFor(t, "pause", "paused")
ResumeRead(t) == ReadFor(t, "resume", "running")

PauseWrite(t) ==
  /\ thread[t].op = "pause" /\ thread[t].pc = "write"
  /\ IF Storable(Top(t).run) THEN SaveRun(Top(t).run, "paused")
     ELSE UNCHANGED row
  /\ Answer(t)
  /\ UNCHANGED <<delegated, faults>>

\* The resumed run is planned and executed again from its beginning.
ResumeWrite(t) ==
  /\ thread[t].op = "resume" /\ thread[t].pc = "write"
  /\ IF Storable(Top(t).run)
     THEN /\ SaveRun(Top(t).run, "running")
          /\ thread' = [thread EXCEPT ![t].op = "execute", ![t].pc = "plan", ![t].todo = {},
                                      ![t].stack[1].status = "running"]
     ELSE Answer(t) /\ UNCHANGED row
  /\ UNCHANGED <<delegated, faults>>

-----------------------------------------------------------------------------
(* execute_run.                                                            *)

At(t, pc) == thread[t].op = "execute" /\ thread[t].pc = pc

\* Only here an error of save_run is outside the try.
Begin(t) ==
  /\ At(t, "begin")
  /\ IF Storable(Top(t).run)
     THEN /\ SaveRun(Top(t).run, "running")
          /\ thread' = [thread EXCEPT ![t].pc = "plan", ![t].stack[1].status = "running"]
     ELSE thread' = [thread EXCEPT ![t] = Unwound(@)] /\ UNCHANGED row
  /\ UNCHANGED <<delegated, faults>>

\* Planning always yields a plan; the validator may refuse it.
Plan(t) ==
  /\ At(t, "plan")
  /\ \/ \E n \in 1..MaxSteps :
          thread' = [thread EXCEPT ![t].pc = "step", ![t].stack[1].left = n]
     \/ Goto(t, "raised")
  /\ UNCHANGED <<row, delegated, faults>>

\* Out of time or iterations (the last one, refused, is not counted here; its
\* count decides nothing any more).  Where the row cannot be stored any more the
\* handler of the exception finds a terminal copy, and raises again.
TimeOut(t) ==
  /\ At(t, "step") /\ Top(t).left > 0
  /\ \/ Conclude(t, "timed_out")
     \/ /\ ~Storable(Top(t).run)
        /\ thread' = [thread EXCEPT ![t] = Unwound(@)]
        /\ UNCHANGED row
  /\ UNCHANGED <<delegated, faults>>

Iterated(t) ==
  /\ At(t, "step") /\ Top(t).left > 0
  /\ Top(t).iters < MaxIterations

\* A tool, device, memory or response step.  Whether it is verified, fails or
\* is inconclusive the loop goes on, unless dispatch raises, the step cannot be
\* recorded, or the reflection aborts.
Act(t) ==
  /\ Iterated(t)
  /\ \/ /\ Exists(Top(t).run)
        /\ thread' = [thread EXCEPT ![t].stack[1] = [Top(t) EXCEPT !.left = @ - 1,
                                                                   !.iters = @ + 1]]
     \/ thread' = [thread EXCEPT ![t].pc = "raised", ![t].stack[1].iters = @ + 1]
  /\ UNCHANGED <<row, delegated, faults>>

\* Mutant: the depth is not looked at.
MayDelegateDeeper(r) ==
  /\ Exists(r) /\ row[r].status \notin Terminal
  /\ Cardinality(Children(r)) < MaxFanOut

\* delegate_task: the checks read the row of the parent, not the copy.
MayDelegate(r) ==
  /\ Exists(r) /\ row[r].status \notin Terminal
  /\ row[r].depth + 1 <= MaxDepth
  /\ Cardinality(Children(r)) < MaxFanOut

Delegate(t) ==
  /\ Iterated(t)
  /\ \E c \in Fresh :
       thread' = IF MayDelegate(Top(t).run)
                 THEN [thread EXCEPT ![t].stack[1].iters = @ + 1,
                                     ![t].pc = "spawn", ![t].child = c]
                 ELSE [thread EXCEPT ![t].stack[1].iters = @ + 1, ![t].pc = "raised"]
  /\ UNCHANGED <<row, delegated, faults>>

Spawn(t) ==
  /\ At(t, "spawn")
  /\ LET p == Top(t).run IN
     IF Exists(p)
     THEN /\ row' = [row EXCEPT ![thread[t].child] =
                       [status |-> "pending", parent |-> p, depth |-> row[p].depth + 1]]
          /\ Goto(t, "record")
     ELSE /\ thread' = [thread EXCEPT ![t].pc = "raised", ![t].child = NoRun]
          /\ UNCHANGED row
  /\ UNCHANGED <<delegated, faults>>

\* save_delegation, then the child is executed by the same thread.
Record(t) ==
  /\ At(t, "record")
  /\ LET p == Top(t).run
         c == thread[t].child IN
     IF Exists(p) /\ Exists(c)
     THEN /\ delegated' = delegated \cup {<<p, c>>}
          /\ thread' = [thread EXCEPT ![t].pc = "begin", ![t].child = NoRun,
                                      ![t].stack = <<Copy(c, "pending")>> \o @]
     ELSE /\ thread' = [thread EXCEPT ![t].pc = "raised", ![t].child = NoRun]
          /\ UNCHANGED delegated
  /\ UNCHANGED <<row, faults>>

\* Completed, whatever the outcome of the single steps was.
Finish(t) ==
  /\ At(t, "step") /\ Top(t).left = 0
  /\ \/ Conclude(t, "completed")
     \/ /\ ~Storable(Top(t).run)
        /\ thread' = [thread EXCEPT ![t] = Unwound(@)]
        /\ UNCHANGED row
  /\ UNCHANGED <<delegated, faults>>

\* The exception handlers of execute_run.
Fail(t) ==
  /\ At(t, "raised")
  /\ \/ Conclude(t, "failed")
     \/ /\ ~Storable(Top(t).run)
        /\ thread' = [thread EXCEPT ![t] = Unwound(@)]
        /\ UNCHANGED row
  /\ UNCHANGED <<delegated, faults>>

Execute(t) ==
  \/ Begin(t) \/ Plan(t) \/ TimeOut(t) \/ Act(t) \/ Delegate(t)
  \/ Spawn(t) \/ Record(t) \/ Finish(t) \/ Fail(t)

Serve(t) ==
  \/ Execute(t)
  \/ CancelRead(t) \/ CancelWrite(t) \/ CancelList(t)
  \/ PauseRead(t) \/ PauseWrite(t) \/ ResumeRead(t) \/ ResumeWrite(t)

-----------------------------------------------------------------------------
(* Faults.                                                                 *)

Fault == faults < MaxFaults /\ faults' = faults + 1

\* A statement of the repository fails.  Inside the try the run is failed, if
\* its copy is not terminal by then.
DatabaseError(t) ==
  /\ Fault
  /\ thread[t].pc # "idle"
  /\ \/ thread[t].op = "execute" /\ thread' = [thread EXCEPT ![t] = Unwound([@ EXCEPT !.child = NoRun])]
     \/ thread[t].op # "execute" /\ Answer(t)
     \/ /\ \E pc \in {"plan", "step", "spawn", "record"} : At(t, pc)
        /\ thread' = [thread EXCEPT ![t].pc = "raised", ![t].child = NoRun]
  /\ UNCHANGED <<row, delegated>>

\* The server dies and comes back; nothing picks up the runs it was executing.
Crash ==
  /\ Fault
  /\ \E t \in Threads : thread[t] # Idle
  /\ thread' = [t \in Threads |-> Idle]
  /\ UNCHANGED <<row, delegated>>

Next ==
  \/ \E t \in Threads : Create(t) \/ Request(t) \/ Serve(t) \/ DatabaseError(t)
  \/ Purge \/ Crash

Spec == Init /\ [][Next]_vars
-----------------------------------------------------------------------------
TypeOK ==
  /\ row \in [Runs -> Row]
  /\ delegated \subseteq Runs \X Runs
  /\ thread \in [Threads -> Thread]
  /\ faults \in 0..MaxFaults

\* A thread that executes the run, or is about to.
Executing(r) ==
  \E t \in Threads :
    /\ thread[t].op = "execute"
    /\ thread[t].child = r \/ \E i \in DOMAIN thread[t].stack : thread[t].stack[i].run = r

\* As long as nothing fails, a run that says running is executed by somebody,
\* and a child never stays behind as pending: whatever requests race for it,
\* nobody waits for a run that stands still.
RunningIsExecuted ==
  faults = 0 =>
    \A r \in Runs :
      row[r].status = "running" \/ (row[r].status = "pending" /\ row[r].parent # NoRun) =>
        Executing(r)

\* A thread holds a copy of the run that it may still write back.
HeldCopy(r) ==
  \E t \in Threads :
    /\ thread[t].pc # "list"
    /\ \E i \in DOMAIN thread[t].stack :
         /\ thread[t].stack[i].run = r
         /\ thread[t].stack[i].status \notin Terminal

\* Once no thread holds a copy from before, a run that has ended (or was
\* purged) stays so: no request starts, pauses or finishes it again.
EndedStaysWhenAlone ==
  [][\A r \in Runs :
       row[r].status \in Terminal \cup {"purged"} /\ ~HeldCopy(r) =>
         row'[r].status \in {row[r].status, "purged"}]_vars

\* M59-F32 and M59-F35: a delegation leads from an existing run to an existing
\* one exactly one level below it, and never below the depth limit.
DelegationIsALevelDown ==
  \A p, c \in Runs :
    <<p, c>> \in delegated =>
      /\ Exists(p) /\ Exists(c)
      /\ row[c].parent = p /\ row[c].depth = row[p].depth + 1
      /\ row[c].depth <= MaxDepth
=============================================================================
