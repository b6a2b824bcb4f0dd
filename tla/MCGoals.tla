------------------------------ MODULE MCGoals ------------------------------
(* Three goals: b depends on a, c is a child of a.                          *)
EXTENDS Goals

CONSTANTS a, b, c, r

TheParent == [g \in Goals |-> IF g = c THEN a ELSE Nothing]
TheDeps   == [g \in Goals |-> IF g = b THEN {a} ELSE {}]
TheNeeds  == [g \in Goals |-> IF g = b THEN {} ELSE {r}]

\* A step of the scheduler, of a thread, or one that concerns other goals than c.
OfAThread ==
  \/ eval' # eval \/ batch' # batch \/ ~Exists(c)
  \/ UNCHANGED <<goal, task, asked>>

\* a and b are created active before anything runs, c while a is evaluated.  c is
\* steered, and its requests are closed, while the supervisor works on it or nobody
\* works on another goal; only c asks its user.  b is evaluated before c exists or
\* after it ended.  A user executes a before its evaluations are counted, and does not
\* come back after overlapping with the supervisor.  The locks of one goal lapse, while
\* it executes or when nobody evaluates it.
InTurn ==
  /\ \/ \A g \in {a, b} : Exists(g)
     \/ \E g \in {a, b} : ~Exists(g) /\ goal'[g].status = "active"
  /\ (~Exists(c) /\ goal'[c].status # "none") => \E t \in Threads : eval[t].goal = a
  /\ ~OfAThread => \/ eval[Worker].goal = c
                   \/ \A t \in Threads : eval[t].goal \in {c, Nothing}
  /\ asked' \subseteq {c}
  /\ (eval[Worker].goal # b /\ eval'[Worker].goal = b)
       => goal[c].status \in {"none"} \cup Ended
  /\ (\E u \in Users : eval[u].pc = "idle" /\ eval'[u].pc = "check")
       => goal[a].evals = 0 /\ shared = {}
  /\ lapsed' \in {{}, {a}, {c}}
  /\ \A g \in lapsed' \ lapsed, t \in Threads : eval[t].goal = g => Executing(t)
=============================================================================
