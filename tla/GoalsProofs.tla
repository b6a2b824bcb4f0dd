----------------------------- MODULE GoalsProofs -----------------------------
(***************************************************************************)
(* The safety of Goals for every set of goals and users, every dependency  *)
(* graph and every bound.  The inductive invariant GoalsInv adds to the    *)
(* properties what an evaluation knows about the goal it took a copy of:   *)
(* that its dependencies were completed, and, as long as no other thread   *)
(* evaluates the goal too, that its slot is still its own, and its locks   *)
(* unless one has lapsed.  QueueInv adds where the supervisor's goals are. *)
(***************************************************************************)
EXTENDS Goals, FiniteSetTheorems, TLAPS

GoalRecord == [status : Status \cup {"none"}, evals : 0..MaxEvals, subs : SUBSET Goals]

EvalRecord == [pc : PC, goal : Goals \cup {Nothing}, evals : 0..MaxEvals,
               subs : SUBSET Goals, pending : BOOLEAN]

\* The stages after the tests of Check.
Past == {"judge", "acquire", "lock", "run", "finish"}

\* What a thread is doing names a goal; past the tests of Check the goal's
\* dependencies were completed and its copy may be counted once more.
EvalAt(t) ==
  /\ eval[t].pc # "idle" => eval[t].goal \in Goals
  /\ eval[t].pc = "link" => t \in Users /\ ParentOf[eval[t].goal] \in Goals
  /\ eval[t].pc \in {"settle", "raised"} => t = Worker
  /\ eval[t].pc \in Past => eval[t].evals < MaxEvals /\ Deps[eval[t].goal] \subseteq done

EvalInv == \A t \in Threads : EvalAt(t)

DoneInv == \A g \in Goals : goal[g].status = "completed" => g \in done

\* The supervisor evaluates a candidate only while the step may collect a result.
RoomInv == eval[Worker].pc # "idle" => room > 0

SharedInv ==
  \A t, o \in Threads :
    t # o /\ Evaluating(t) /\ Evaluating(o) /\ eval[t].goal = eval[o].goal
      => eval[t].goal \in shared

\* An undisturbed evaluation that was granted its slot, and then its locks, has them;
\* the locks as long as no lease has run out.
HeldAt(t) ==
  eval[t].goal \notin shared =>
    /\ eval[t].pc \in {"lock", "run"} => eval[t].goal \in active
    /\ eval[t].pc = "run" /\ eval[t].goal \notin TeamGoals /\ eval[t].goal \notin lapsed =>
         \A r \in NeedsOf[eval[t].goal] : owner[r] = eval[t].goal

HeldInv == \A t \in Threads : HeldAt(t)

GoalsInv == TypeOK /\ EvalInv /\ DoneInv /\ RoomInv /\ SharedInv /\ HeldInv

-----------------------------------------------------------------------------
(* Writing the store.                                                      *)

LEMMA GoalType ==
  ASSUME TypeOK, NEW g \in Goals
  PROVE  /\ goal[g] \in GoalRecord
         /\ goal[g].status \in Status \cup {"none"}
         /\ goal[g].evals \in 0..MaxEvals /\ goal[g].subs \subseteq Goals
BY DEF TypeOK, GoalRecord

LEMMA EvalType ==
  ASSUME TypeOK, NEW t \in Threads
  PROVE  /\ eval[t] \in EvalRecord /\ eval[t].pc \in PC
         /\ eval[t].goal \in Goals \cup {Nothing}
         /\ eval[t].evals \in 0..MaxEvals /\ eval[t].subs \subseteq Goals
BY DEF TypeOK, EvalRecord

\* A write keeps the store's type, and completed goals are remembered.
LEMMA StoreKeeps ==
  ASSUME TypeOK, DoneInv, NEW g \in Goals, NEW record \in GoalRecord,
         goal' = [goal EXCEPT ![g] = record],
         done' = IF record.status = "completed" THEN done \cup {g} ELSE done
  PROVE  goal' \in [Goals -> GoalRecord] /\ done' \subseteq Goals /\ done \subseteq done' /\ DoneInv'
<1>1. goal \in [Goals -> GoalRecord] /\ done \subseteq Goals
  BY DEF TypeOK, GoalRecord
<1>2. goal' \in [Goals -> GoalRecord] /\ done' \subseteq Goals /\ done \subseteq done'
  BY <1>1
<1>3. ASSUME NEW h \in Goals, goal'[h].status = "completed" PROVE h \in done'
  <2>1. CASE h = g
    BY <1>1, <1>3, <2>1
  <2>2. CASE h # g
    BY <1>1, <1>2, <1>3, <2>2 DEF DoneInv
  <2>3. QED
    BY <2>1, <2>2
<1>4. QED
  BY <1>2, <1>3 DEF DoneInv

\* The same for a whole copy that an evaluation writes back.
LEMMA WriteKeeps ==
  ASSUME TypeOK, EvalInv, DoneInv, NEW t \in Threads, Evaluating(t),
         NEW status \in Status, NEW counted \in {0, 1},
         counted = 1 => eval[t].pc \in Past,
         Write(t, status, counted)
  PROVE  goal' \in [Goals -> GoalRecord] /\ done' \subseteq Goals /\ done \subseteq done' /\ DoneInv'
<1> DEFINE record == [status |-> status, evals |-> eval[t].evals + counted,
                      subs |-> eval[t].subs]
<1>1. eval[t].goal \in Goals /\ eval[t].evals \in 0..MaxEvals /\ eval[t].subs \subseteq Goals
  BY EvalType DEF EvalInv, EvalAt, Evaluating
<1>2. eval[t].evals + counted \in 0..MaxEvals
  <2>1. counted = 1 => eval[t].evals < MaxEvals
    BY DEF EvalInv, EvalAt
  <2>2. QED
    BY <1>1, <2>1, GoalsAssumption
<1>3. record \in GoalRecord
  BY <1>1, <1>2 DEF GoalRecord
<1>4. record.status = status
  OBVIOUS
<1>5. /\ goal' = [goal EXCEPT ![eval[t].goal] = record]
      /\ done' = IF record.status = "completed" THEN done \cup {eval[t].goal} ELSE done
  BY DEF Write, Store
<1> HIDE DEF record
<1>6. QED
  <2>1. ASSUME NEW g \in Goals, g = eval[t].goal, NEW e \in GoalRecord, e = record
        PROVE  goal' \in [Goals -> GoalRecord] /\ done' \subseteq Goals /\ done \subseteq done' /\ DoneInv'
    BY <1>5, <2>1, StoreKeeps
  <2>2. QED
    BY <1>1, <1>3, <2>1

-----------------------------------------------------------------------------
(* The invariants of the threads, for a step of one of them.               *)

\* A step of other components.
LEMMA ThreadsUntouched ==
  ASSUME GoalsInv, eval' = eval, done \subseteq done', shared' = shared,
         active' = active, owner' = owner, lapsed' = lapsed, room' = room
  PROVE  EvalInv' /\ RoomInv' /\ SharedInv' /\ HeldInv'
BY DEF GoalsInv, EvalInv, EvalAt, RoomInv, SharedInv, HeldInv, HeldAt, Evaluating

LEMMA EvalKept ==
  ASSUME EvalInv, NEW t \in Threads, \A o \in Threads \ {t} : eval'[o] = eval[o],
         done \subseteq done', EvalAt(t)'
  PROVE  EvalInv'
<1>1. ASSUME NEW o \in Threads, o # t PROVE EvalAt(o)'
  BY <1>1 DEF EvalInv, EvalAt
<1>2. QED
  BY <1>1 DEF EvalInv

\* A thread that was evaluating goes on with its goal, or leaves.
LEMMA SharedKept ==
  ASSUME SharedInv, NEW t \in Threads, \A o \in Threads \ {t} : eval'[o] = eval[o],
         shared' = shared, Evaluating(t)' => Evaluating(t) /\ eval'[t].goal = eval[t].goal
  PROVE  SharedInv'
BY DEF SharedInv, Evaluating

\* What another undisturbed evaluation holds is not taken away by a thread that
\* only frees what its own goal holds, and forgets lapses of its own goal only.
LEMMA HeldKept ==
  ASSUME TypeOK, EvalInv, SharedInv, HeldInv, NEW t \in Threads,
         \A o \in Threads \ {t} : eval'[o] = eval[o], shared \subseteq shared',
         Evaluating(t) \/ (owner' = owner /\ active \subseteq active' /\ lapsed \subseteq lapsed'),
         lapsed \ {eval[t].goal} \subseteq lapsed',
         \A r \in Resources : owner[r] \notin {Nothing, eval[t].goal} => owner'[r] = owner[r],
         active \ {eval[t].goal} \subseteq active',
         HeldAt(t)'
  PROVE  HeldInv'
<1>1. ASSUME NEW o \in Threads, o # t, eval[o].goal \notin shared, eval[o].pc \in {"lock", "run"}
      PROVE  /\ eval[o].goal \in active'
             /\ eval[o].pc = "run" /\ eval[o].goal \notin TeamGoals /\ eval[o].goal \notin lapsed' =>
                  \A r \in NeedsOf[eval[o].goal] : owner'[r] = eval[o].goal
  <2>1. Evaluating(o) /\ eval[o].goal \in Goals
    BY <1>1 DEF EvalInv, EvalAt, Evaluating
  <2>2. Evaluating(t) => eval[t].goal # eval[o].goal
    BY <1>1, <2>1 DEF SharedInv
  <2>3. eval[o].goal \in active
    BY <1>1 DEF HeldInv, HeldAt
  <2>4. eval[o].goal \in active'
    BY <2>2, <2>3
  <2>5. ASSUME eval[o].pc = "run", eval[o].goal \notin TeamGoals, eval[o].goal \notin lapsed',
               NEW r \in NeedsOf[eval[o].goal]
        PROVE  owner'[r] = eval[o].goal
    <3>0. eval[o].goal \notin lapsed
      BY <2>2, <2>5
    <3>1. owner[r] = eval[o].goal
      BY <1>1, <2>5, <3>0 DEF HeldInv, HeldAt
    <3>2. r \in Resources /\ eval[o].goal # Nothing
      BY <2>1, <2>5, GoalsAssumption
    <3>3. QED
      BY <2>2, <3>1, <3>2
  <2>6. QED
    BY <2>4, <2>5
<1>2. ASSUME NEW o \in Threads, o # t PROVE HeldAt(o)'
  BY <1>1, <1>2 DEF HeldAt
<1>3. QED
  BY <1>2 DEF HeldInv

\* A step of a thread that is evaluating a goal.
LEMMA MoveKeeps ==
  ASSUME GoalsInv, NEW t \in Threads, Evaluating(t),
         \A o \in Threads \ {t} : eval'[o] = eval[o],
         eval'[t].goal = eval[t].goal \/ eval'[t].pc = "idle",
         done \subseteq done', shared' = shared, room' = room,
         \A r \in Resources : owner[r] \notin {Nothing, eval[t].goal} => owner'[r] = owner[r],
         active \ {eval[t].goal} \subseteq active', lapsed \ {eval[t].goal} \subseteq lapsed',
         EvalAt(t)', HeldAt(t)'
  PROVE  EvalInv' /\ RoomInv' /\ SharedInv' /\ HeldInv'
<1>1. TypeOK /\ EvalInv /\ RoomInv /\ SharedInv /\ HeldInv
  BY DEF GoalsInv
<1>2. EvalInv'
  BY <1>1, EvalKept
<1>3. SharedInv'
  BY <1>1, SharedKept DEF Evaluating
<1>4. HeldInv'
  BY <1>1, HeldKept
<1>5. RoomInv'
  BY <1>1 DEF RoomInv, Evaluating, Threads
<1>6. QED
  BY <1>2, <1>3, <1>4, <1>5

LEMMA BackType ==
  ASSUME NEW t \in Threads, NEW g \in Goals, NEW pc \in {"settle", "raised"}
  PROVE  /\ Back(t, pc, g) \in EvalRecord
         /\ Back(t, pc, g).pc \in {"idle", pc}
         /\ Back(t, pc, g).pc = pc => t = Worker /\ Back(t, pc, g).goal = g
<1>1. Resting \in EvalRecord /\ Resting.pc = "idle"
  BY GoalsAssumption DEF Resting, EvalRecord, PC
<1>2. CASE t = Worker
  <2>1. Back(t, pc, g) = [pc |-> pc, goal |-> g, evals |-> 0, subs |-> {}, pending |-> FALSE]
    BY <1>2 DEF Back, Resting
  <2>2. QED
    BY <1>2, <2>1, GoalsAssumption DEF EvalRecord, PC
<1>3. CASE t # Worker
  BY <1>1, <1>3 DEF Back, Resting
<1>4. QED
  BY <1>2, <1>3

\* An evaluation is left.
LEMMA ReturnKeeps ==
  ASSUME GoalsInv, NEW t \in Threads, Evaluating(t), Return(t) \/ Raise(t),
         done \subseteq done', shared' = shared, room' = room,
         \A r \in Resources : owner[r] \notin {Nothing, eval[t].goal} => owner'[r] = owner[r],
         active \subseteq active', lapsed' = lapsed
  PROVE  /\ eval' \in [Threads -> EvalRecord]
         /\ EvalInv' /\ RoomInv' /\ SharedInv' /\ HeldInv'
<1>1. eval \in [Threads -> EvalRecord] /\ eval[t].goal \in Goals
  BY DEF GoalsInv, TypeOK, EvalRecord, EvalInv, EvalAt, Evaluating
<1>2. PICK pc \in {"settle", "raised"} : eval' = [eval EXCEPT ![t] = Back(t, pc, eval[t].goal)]
  BY DEF Return, Raise
<1>3. /\ Back(t, pc, eval[t].goal) \in EvalRecord
      /\ Back(t, pc, eval[t].goal).pc \in {"idle", pc}
      /\ Back(t, pc, eval[t].goal).pc = pc => t = Worker /\ Back(t, pc, eval[t].goal).goal = eval[t].goal
  BY <1>1, BackType
<1>4. /\ eval' \in [Threads -> EvalRecord] /\ \A o \in Threads \ {t} : eval'[o] = eval[o]
      /\ eval'[t] = Back(t, pc, eval[t].goal)
  BY <1>1, <1>2, <1>3
<1>5. /\ eval'[t].pc \in {"idle", "settle", "raised"}
      /\ eval'[t].pc # "idle" => t = Worker /\ eval'[t].goal = eval[t].goal
  BY <1>3, <1>4
<1>6. EvalAt(t)' /\ HeldAt(t)'
  BY <1>1, <1>5 DEF EvalAt, HeldAt, Past
<1>7. EvalInv' /\ RoomInv' /\ SharedInv' /\ HeldInv'
  BY <1>4, <1>5, <1>6, MoveKeeps
<1>8. QED
  BY <1>4, <1>7

\* An evaluation goes on, and still knows what the next stage relies on.
LEMMA GotoKeeps ==
  ASSUME GoalsInv, NEW t \in Threads, Evaluating(t), NEW pc \in Past, Goto(t, pc),
         done \subseteq done', shared' = shared, room' = room,
         \A r \in Resources : owner[r] \notin {Nothing, eval[t].goal} => owner'[r] = owner[r],
         active \subseteq active', lapsed \ {eval[t].goal} \subseteq lapsed',
         eval[t].evals < MaxEvals, Deps[eval[t].goal] \subseteq done',
         eval[t].goal \notin shared =>
           /\ pc \in {"lock", "run"} => eval[t].goal \in active'
           /\ pc = "run" /\ eval[t].goal \notin TeamGoals /\ eval[t].goal \notin lapsed' =>
                \A r \in NeedsOf[eval[t].goal] : owner'[r] = eval[t].goal
  PROVE  /\ eval' \in [Threads -> EvalRecord]
         /\ EvalInv' /\ RoomInv' /\ SharedInv' /\ HeldInv'
<1>1. eval \in [Threads -> EvalRecord] /\ eval[t].goal \in Goals
  BY DEF GoalsInv, TypeOK, EvalRecord, EvalInv, EvalAt, Evaluating
<1>2. eval' = [eval EXCEPT ![t] = [eval[t] EXCEPT !.pc = pc]]
  BY <1>1 DEF Goto
<1>3. /\ eval' \in [Threads -> EvalRecord] /\ \A o \in Threads \ {t} : eval'[o] = eval[o]
      /\ eval'[t].pc = pc /\ eval'[t].goal = eval[t].goal /\ eval'[t].evals = eval[t].evals
  BY <1>1, <1>2 DEF EvalRecord, Past, PC
<1>4. EvalAt(t)' /\ HeldAt(t)'
  BY <1>1, <1>3 DEF EvalAt, HeldAt, Past
<1>5. EvalInv' /\ RoomInv' /\ SharedInv' /\ HeldInv'
  BY <1>3, <1>4, MoveKeeps
<1>6. QED
  BY <1>3, <1>5

\* A thread takes its copy of a goal.
LEMMA StartKeeps ==
  ASSUME GoalsInv, NEW t \in Threads, NEW g \in Goals, eval[t].pc = "idle", Start(t, g),
         done' = done, owner' = owner, lapsed' = lapsed, active \subseteq active', room' = room,
         t = Worker => room > 0
  PROVE  /\ eval' \in [Threads -> EvalRecord] /\ shared' \subseteq Goals
         /\ EvalInv' /\ RoomInv' /\ SharedInv' /\ HeldInv'
<1>0. TypeOK /\ EvalInv /\ RoomInv /\ SharedInv /\ HeldInv
  BY DEF GoalsInv
<1>1. eval \in [Threads -> EvalRecord] /\ shared \subseteq Goals
  BY <1>0 DEF TypeOK, EvalRecord
<1>2. /\ goal[g].evals \in 0..MaxEvals /\ goal[g].subs \subseteq Goals
  BY <1>0, GoalType
<1> DEFINE copy == [pc |-> "check", goal |-> g, evals |-> goal[g].evals,
                    subs |-> goal[g].subs, pending |-> FALSE]
<1>3. copy \in EvalRecord /\ copy.pc = "check" /\ copy.goal = g
  BY <1>2 DEF EvalRecord, PC
<1>4. /\ Back(t, "settle", g) \in EvalRecord
      /\ Back(t, "settle", g).pc \in {"idle", "settle"}
      /\ Back(t, "settle", g).pc = "settle" => t = Worker /\ Back(t, "settle", g).goal = g
  BY BackType
<1>5. eval' = [eval EXCEPT ![t] = copy] \/ eval' = [eval EXCEPT ![t] = Back(t, "settle", g)]
  BY DEF Start
<1> HIDE DEF copy
<1>6. /\ eval' \in [Threads -> EvalRecord] /\ \A o \in Threads \ {t} : eval'[o] = eval[o]
      /\ eval'[t].pc \in {"idle", "check", "settle"}
      /\ eval'[t].pc = "settle" => t = Worker
      /\ eval'[t].pc # "idle" => eval'[t].goal = g
  BY <1>1, <1>3, <1>4, <1>5
<1>7. EvalAt(t)' /\ HeldAt(t)'
  BY <1>6 DEF EvalAt, HeldAt, Past
<1>8. /\ shared \subseteq shared' /\ shared' \subseteq Goals
      /\ (\E o \in Threads \ {t} : Evaluating(o) /\ eval[o].goal = g) => g \in shared'
  BY <1>1 DEF Start
<1>9. EvalInv'
  BY <1>0, <1>6, <1>7, EvalKept
<1>10. HeldInv'
  BY <1>0, <1>6, <1>7, <1>8, HeldKept
<1>11. RoomInv'
  BY <1>0, <1>6 DEF RoomInv, Threads
<1>12. SharedInv'
  <2>1. ASSUME NEW o \in Threads, o # t, Evaluating(o), Evaluating(t)', eval[o].goal = eval'[t].goal
        PROVE  eval[o].goal \in shared'
    BY <1>6, <1>8, <2>1 DEF Evaluating
  <2>2. QED
    BY <1>0, <1>6, <1>8, <2>1 DEF SharedInv, Evaluating
<1>13. QED
  BY <1>6, <1>8, <1>9, <1>10, <1>11, <1>12

-----------------------------------------------------------------------------
(* One lemma per action.                                                   *)

LEMMA InitHolds == Init => GoalsInv
<1> SUFFICES ASSUME Init PROVE GoalsInv
  OBVIOUS
<1>1. TypeOK
  <2>1. Cardinality(active) <= Slots /\ active \subseteq Goals
    BY FS_EmptySet, GoalsAssumption DEF Init
  <2>2. Resting \in [pc : PC, goal : Goals \cup {Nothing}, evals : 0..MaxEvals,
                     subs : SUBSET Goals, pending : BOOLEAN]
    BY GoalsAssumption DEF Resting, PC
  <2>3. eval \in [Threads -> [pc : PC, goal : Goals \cup {Nothing}, evals : 0..MaxEvals,
                              subs : SUBSET Goals, pending : BOOLEAN]]
    BY <2>2 DEF Init
  <2>4. /\ goal \in [Goals -> [status : Status \cup {"none"}, evals : 0..MaxEvals,
                               subs : SUBSET Goals]]
        /\ room \in 0..Slots /\ calls \in [Goals -> 0..MaxCalls]
    BY GoalsAssumption DEF Init
  <2>5. QED
    BY <2>1, <2>3, <2>4 DEF Init, TypeOK
<1>2. \A t \in Threads : eval[t].pc = "idle"
  BY DEF Init, Resting
<1>3. EvalInv /\ SharedInv /\ HeldInv /\ RoomInv
  BY <1>2 DEF EvalInv, EvalAt, SharedInv, Evaluating, HeldInv, HeldAt, RoomInv, Past, Threads
<1>4. DoneInv
  BY DEF Init, DoneInv
<1>5. QED
  BY <1>1, <1>3, <1>4 DEF GoalsInv

LEMMA CreateGoalHolds ==
  ASSUME GoalsInv, NEW u \in Users, NEW g \in Goals, CreateGoal(u, g)
  PROVE  GoalsInv'
<1>a. PICK status \in {"active", "created"} :
        Store(g, [status |-> status, evals |-> 0, subs |-> {}])
  BY DEF CreateGoal
<1> DEFINE new == [status |-> status, evals |-> 0, subs |-> {}]
<1>0. TypeOK /\ EvalInv /\ DoneInv /\ RoomInv /\ SharedInv /\ HeldInv
  BY DEF GoalsInv
<1>1. new \in GoalRecord
  BY <1>a, GoalsAssumption DEF GoalRecord, Status
<1>2. /\ goal' = [goal EXCEPT ![g] = new]
      /\ done' = IF new.status = "completed" THEN done \cup {g} ELSE done
  BY <1>a DEF Store
<1> HIDE DEF new
<1>3. goal' \in [Goals -> GoalRecord] /\ done' \subseteq Goals /\ done \subseteq done' /\ DoneInv'
  <2>1. ASSUME NEW e \in GoalRecord, e = new
        PROVE  goal' \in [Goals -> GoalRecord] /\ done' \subseteq Goals /\ done \subseteq done' /\ DoneInv'
    BY <1>0, <1>2, <2>1, StoreKeeps
  <2>2. QED
    BY <1>1, <2>1
<1>4. u \in Threads /\ u # Worker /\ eval[u].pc = "idle"
  BY GoalsAssumption DEF Threads, CreateGoal
<1>5. shared' = shared /\ active' = active /\ owner' = owner /\ lapsed' = lapsed /\ room' = room
  BY DEF CreateGoal
<1>6. CASE ParentOf[g] = Nothing
  <2>1. eval' = eval
    BY <1>6 DEF CreateGoal
  <2>2. EvalInv' /\ RoomInv' /\ SharedInv' /\ HeldInv'
    BY <1>3, <1>5, <2>1, ThreadsUntouched
  <2>3. TypeOK'
    BY <1>0, <1>3, <1>5, <2>1 DEF CreateGoal, TypeOK, GoalRecord
  <2>4. QED
    BY <1>3, <2>2, <2>3 DEF GoalsInv
<1>7. CASE ParentOf[g] # Nothing
  <2>1. eval \in [Threads -> EvalRecord]
    BY <1>0 DEF TypeOK, EvalRecord
  <2>2. eval' = [eval EXCEPT ![u] = [eval[u] EXCEPT !.pc = "link", !.goal = g]]
    BY <1>4, <1>7, <2>1 DEF CreateGoal
  <2>3. /\ eval' \in [Threads -> EvalRecord] /\ \A o \in Threads \ {u} : eval'[o] = eval[o]
        /\ eval'[u].pc = "link" /\ eval'[u].goal = g
    BY <1>4, <2>1, <2>2 DEF EvalRecord, PC
  <2>4. EvalAt(u)' /\ HeldAt(u)'
    BY <1>4, <1>7, <2>3, GoalsAssumption DEF EvalAt, HeldAt, Past
  <2>5. EvalInv'
    BY <1>0, <1>3, <1>4, <2>3, <2>4, EvalKept
  <2>6. SharedInv'
    BY <1>0, <1>4, <1>5, <2>3, SharedKept DEF Evaluating
  <2>7. HeldInv'
    BY <1>0, <1>4, <1>5, <2>3, <2>4, HeldKept
  <2>8. RoomInv'
    BY <1>0, <1>4, <1>5, <2>3 DEF RoomInv, Threads
  <2>9. TypeOK'
    BY <1>0, <1>3, <1>5, <2>3 DEF CreateGoal, TypeOK, GoalRecord, EvalRecord
  <2>10. QED
    BY <1>3, <2>5, <2>6, <2>7, <2>8, <2>9 DEF GoalsInv
<1>8. QED
  BY <1>6, <1>7

LEMMA LinkParentHolds ==
  ASSUME GoalsInv, NEW u \in Users, LinkParent(u)
  PROVE  GoalsInv'
<1>0. TypeOK /\ EvalInv /\ DoneInv /\ RoomInv /\ SharedInv /\ HeldInv
  BY DEF GoalsInv
<1>1. /\ u \in Threads /\ u # Worker /\ eval[u].pc = "link"
      /\ eval[u].goal \in Goals /\ ParentOf[eval[u].goal] \in Goals
  BY <1>0, GoalsAssumption DEF Threads, LinkParent, EvalInv, EvalAt
<1>2. ASSUME NEW p \in Goals, p = ParentOf[eval[u].goal]
      PROVE  goal' \in [Goals -> GoalRecord] /\ done' \subseteq Goals /\ done \subseteq done' /\ DoneInv'
  <2> DEFINE linked == [goal[p] EXCEPT !.subs = goal[p].subs \cup {eval[u].goal}]
  <2>1. linked \in GoalRecord
    BY <1>0, <1>1, GoalType DEF GoalRecord
  <2>2. /\ goal' = [goal EXCEPT ![p] = linked]
        /\ done' = IF linked.status = "completed" THEN done \cup {p} ELSE done
    BY <1>2 DEF LinkParent, Store
  <2> HIDE DEF linked
  <2>3. ASSUME NEW e \in GoalRecord, e = linked
        PROVE  goal' \in [Goals -> GoalRecord] /\ done' \subseteq Goals /\ done \subseteq done' /\ DoneInv'
    BY <1>0, <2>2, <2>3, StoreKeeps
  <2>4. QED
    BY <2>1, <2>3
<1>3. goal' \in [Goals -> GoalRecord] /\ done' \subseteq Goals /\ done \subseteq done' /\ DoneInv'
  BY <1>1, <1>2
<1>4. shared' = shared /\ active' = active /\ owner' = owner /\ lapsed' = lapsed /\ room' = room
  BY DEF LinkParent
<1>5. /\ eval' \in [Threads -> EvalRecord] /\ \A o \in Threads \ {u} : eval'[o] = eval[o]
      /\ eval'[u].pc = "idle"
  <2>1. eval \in [Threads -> EvalRecord] /\ Resting \in EvalRecord /\ Resting.pc = "idle"
    BY <1>0, GoalsAssumption DEF TypeOK, EvalRecord, Resting, PC
  <2>2. QED
    BY <1>1, <2>1 DEF LinkParent
<1>6. EvalAt(u)' /\ HeldAt(u)'
  BY <1>5 DEF EvalAt, HeldAt, Past
<1>7. EvalInv'
  BY <1>0, <1>1, <1>3, <1>5, <1>6, EvalKept
<1>8. SharedInv'
  BY <1>0, <1>1, <1>4, <1>5, SharedKept DEF Evaluating
<1>9. HeldInv'
  BY <1>0, <1>1, <1>4, <1>5, <1>6, HeldKept
<1>10. RoomInv'
  BY <1>0, <1>1, <1>4, <1>5 DEF RoomInv, Threads
<1>11. TypeOK'
  BY <1>0, <1>3, <1>4, <1>5 DEF LinkParent, TypeOK, GoalRecord, EvalRecord
<1>12. QED
  BY <1>3, <1>7, <1>8, <1>9, <1>10, <1>11 DEF GoalsInv

LEMMA SetStatusHolds ==
  ASSUME GoalsInv, NEW g \in Goals, NEW status \in Status, SetStatus(g, status)
  PROVE  GoalsInv'
<1> DEFINE record == [goal[g] EXCEPT !.status = status]
<1>0. TypeOK /\ DoneInv
  BY DEF GoalsInv
<1>1. record \in GoalRecord
  BY <1>0, GoalType DEF GoalRecord
<1>2. /\ goal' = [goal EXCEPT ![g] = record]
      /\ done' = IF record.status = "completed" THEN done \cup {g} ELSE done
  BY DEF SetStatus, Store
<1> HIDE DEF record
<1>3. ASSUME NEW e \in GoalRecord, e = record
      PROVE  goal' \in [Goals -> GoalRecord] /\ done' \subseteq Goals /\ done \subseteq done' /\ DoneInv'
  BY <1>0, <1>2, <1>3, StoreKeeps
<1>4. goal' \in [Goals -> GoalRecord] /\ done' \subseteq Goals /\ done \subseteq done' /\ DoneInv'
  BY <1>1, <1>3
<1>5. EvalInv' /\ RoomInv' /\ SharedInv' /\ HeldInv'
  BY <1>4, ThreadsUntouched DEF SetStatus
<1>6. TypeOK'
  BY <1>0, <1>4 DEF SetStatus, TypeOK, GoalRecord
<1>7. QED
  BY <1>4, <1>5, <1>6 DEF GoalsInv

LEMMA OperatorHolds ==
  ASSUME GoalsInv, NEW g \in Goals,
         PauseGoal(g) \/ ResumeGoal(g) \/ CancelGoal(g) \/ CloseClarification(g)
  PROVE  GoalsInv'
<1>1. \A s \in {"paused", "active", "expired", "cancelled"} : s \in Status
  BY DEF Status, Ended, Open
<1>2. CASE \E s \in {"paused", "active", "expired", "cancelled"} : SetStatus(g, s)
  BY <1>1, <1>2, SetStatusHolds
<1>3. CASE CloseClarification(g)
  <2>1. EvalInv' /\ RoomInv' /\ SharedInv' /\ HeldInv'
    BY <1>3, ThreadsUntouched DEF CloseClarification
  <2>2. TypeOK' /\ DoneInv'
    BY <1>3 DEF CloseClarification, GoalsInv, TypeOK, DoneInv
  <2>3. QED
    BY <2>1, <2>2 DEF GoalsInv
<1>4. QED
  BY <1>2, <1>3 DEF PauseGoal, ResumeGoal, CancelGoal

\* Whoever is using the resource, the goal of which the lock lapses is remembered; no
\* other goal owns it.
LEMMA LapseLockHolds ==
  ASSUME GoalsInv, NEW r \in Resources, LapseLock(r)
  PROVE  GoalsInv'
<1>0. TypeOK /\ EvalInv /\ DoneInv /\ RoomInv /\ SharedInv /\ HeldInv
  BY DEF GoalsInv
<1>1. EvalInv' /\ RoomInv' /\ SharedInv'
  BY <1>0 DEF LapseLock, EvalInv, EvalAt, RoomInv, SharedInv, Evaluating
<1>2. /\ owner \in [Resources -> Goals \cup {Nothing}] /\ owner[r] # Nothing
      /\ owner' = [owner EXCEPT ![r] = Nothing] /\ lapsed' = lapsed \cup {owner[r]}
      /\ eval' = eval /\ active' = active /\ shared' = shared
  BY <1>0 DEF LapseLock, TypeOK
<1>3. ASSUME NEW t \in Threads PROVE HeldAt(t)'
  <2>1. HeldAt(t)
    BY <1>0 DEF HeldInv
  <2>2. ASSUME eval[t].goal \notin shared, eval[t].pc = "run", eval[t].goal \notin TeamGoals,
               eval[t].goal \notin lapsed', NEW q \in NeedsOf[eval[t].goal]
        PROVE  owner'[q] = eval[t].goal
    <3>1. owner[q] = eval[t].goal /\ owner[r] # eval[t].goal
      BY <1>2, <2>1, <2>2 DEF HeldAt
    <3>2. q \in Resources
      <4>1. eval[t].goal \in Goals
        BY <1>0, <2>2 DEF EvalInv, EvalAt
      <4>2. QED
        BY <2>2, <4>1, GoalsAssumption
    <3>3. QED
      BY <1>2, <3>1, <3>2
  <2>3. QED
    BY <1>2, <2>1, <2>2 DEF HeldAt
<1>4. HeldInv'
  BY <1>3 DEF HeldInv, Threads
<1>5. TypeOK' /\ DoneInv'
  <2>1. owner' \in [Resources -> Goals \cup {Nothing}] /\ lapsed' \subseteq Goals
    BY <1>0, <1>2 DEF TypeOK
  <2>2. QED
    BY <1>0, <2>1 DEF LapseLock, TypeOK, DoneInv
<1>6. QED
  BY <1>1, <1>4, <1>5 DEF GoalsInv

\* The statuses that an evaluation writes.
LEMMA WrittenStatus ==
  \A s \in {"expired", "failed", "blocked", "evaluating", "active", "completed", "paused",
            "executing", "progress_updated"} : s \in Status
BY DEF Status, Ended, Open

\* Every way of leaving an evaluation that frees nothing.
LEMMA LeaveHolds ==
  ASSUME GoalsInv, NEW t \in Threads, Evaluating(t), Return(t),
         \/ UNCHANGED <<goal, done>>
         \/ \E s \in Status : Write(t, s, 0)
         \/ \E s \in Status : eval[t].pc \in Past /\ Write(t, s, 1),
         asked' \subseteq Goals,
         UNCHANGED <<task, batch, room, active, calls, owner, lapsed, shared>>
  PROVE  GoalsInv'
<1>0. TypeOK /\ EvalInv /\ DoneInv
  BY DEF GoalsInv
<1>1. goal' \in [Goals -> GoalRecord] /\ done' \subseteq Goals /\ done \subseteq done' /\ DoneInv'
  <2>1. CASE UNCHANGED <<goal, done>>
    BY <1>0, <2>1 DEF TypeOK, GoalRecord, DoneInv
  <2>2. CASE \E s \in Status : Write(t, s, 0)
    <3>1. PICK s \in Status : Write(t, s, 0)
      BY <2>2
    <3>2. QED
      BY <1>0, <3>1, WriteKeeps
  <2>3. CASE \E s \in Status : eval[t].pc \in Past /\ Write(t, s, 1)
    <3>1. PICK s \in Status : eval[t].pc \in Past /\ Write(t, s, 1)
      BY <2>3
    <3>2. QED
      BY <1>0, <3>1, WriteKeeps
  <2>4. QED
    BY <2>1, <2>2, <2>3
<1>2. /\ eval' \in [Threads -> EvalRecord]
      /\ EvalInv' /\ RoomInv' /\ SharedInv' /\ HeldInv'
  BY <1>1, ReturnKeeps
<1>3. TypeOK'
  BY <1>0, <1>1, <1>2 DEF TypeOK, GoalRecord, EvalRecord
<1>4. QED
  BY <1>1, <1>2, <1>3 DEF GoalsInv

\* Past its tests, Check has seen the goal's dependencies completed.
LEMMA CheckHolds ==
  ASSUME GoalsInv, NEW t \in Threads, Check(t)
  PROVE  GoalsInv'
<1> DEFINE g == eval[t].goal
<1>0. TypeOK /\ EvalInv /\ DoneInv /\ Evaluating(t) /\ g \in Goals
  BY DEF GoalsInv, Check, Evaluating, EvalInv, EvalAt
<1>1. CASE /\ Return(t)
           /\ \/ Write(t, "expired", 0) \/ Write(t, "failed", 0) \/ Write(t, "blocked", 0)
              \/ UNCHANGED <<goal, done>>
  <2>1. asked' \subseteq Goals /\ UNCHANGED <<task, batch, room, active, calls, owner, lapsed, shared>>
    BY <1>0 DEF Check, TypeOK
  <2>2. UNCHANGED <<goal, done>> \/ \E s \in Status : Write(t, s, 0)
    BY <1>1, WrittenStatus
  <2>3. QED
    BY <1>0, <1>1, <2>1, <2>2, LeaveHolds
<1>2. CASE ~Spent(t) /\ DepsCompleted(g) /\ g \notin asked /\ Write(t, "evaluating", 0) /\ Goto(t, "judge")
  <2>1. goal' \in [Goals -> GoalRecord] /\ done' \subseteq Goals /\ done \subseteq done' /\ DoneInv'
    BY <1>0, <1>2, WriteKeeps, WrittenStatus
  <2>2. Deps[g] \subseteq done'
    BY <1>0, <1>2, <2>1, GoalsAssumption DEF DepsCompleted, DoneInv
  <2>3. eval[t].evals < MaxEvals
    BY <1>0, <1>2, EvalType, GoalsAssumption DEF Spent
  <2>4. /\ eval' \in [Threads -> EvalRecord]
        /\ EvalInv' /\ RoomInv' /\ SharedInv' /\ HeldInv'
    BY <1>0, <1>2, <2>1, <2>2, <2>3, GotoKeeps DEF Check, Past
  <2>5. TypeOK'
    BY <1>0, <2>1, <2>4 DEF Check, TypeOK, GoalRecord, EvalRecord
  <2>6. QED
    BY <2>1, <2>4, <2>5 DEF GoalsInv
<1>3. QED
  BY <1>1, <1>2 DEF Check

LEMMA JudgeHolds ==
  ASSUME GoalsInv, NEW t \in Threads, Judge(t)
  PROVE  GoalsInv'
<1>0. TypeOK /\ EvalInv /\ Evaluating(t) /\ eval[t].pc \in Past
  BY DEF GoalsInv, Judge, Evaluating, Past
<1>1. CASE /\ Return(t)
           /\ \E s \in {"failed", "blocked", "active", "completed"} : Write(t, s, 1)
  <2>1. asked' \subseteq Goals /\ UNCHANGED <<task, batch, room, active, calls, owner, lapsed, shared>>
    BY <1>0 DEF Judge, TypeOK
  <2>2. \E s \in Status : eval[t].pc \in Past /\ Write(t, s, 1)
    BY <1>0, <1>1, WrittenStatus
  <2>3. QED
    BY <1>0, <1>1, <2>1, <2>2, LeaveHolds
<1>2. CASE /\ eval' = [eval EXCEPT ![t].pc = "acquire", ![t].pending = SubPending(t)]
           /\ UNCHANGED <<goal, done>>
  <2>1. eval \in [Threads -> EvalRecord] /\ SubPending(t) \in BOOLEAN
    BY <1>0 DEF TypeOK, EvalRecord, SubPending
  <2>2. eval' = [eval EXCEPT ![t] = [eval[t] EXCEPT !.pc = "acquire", !.pending = SubPending(t)]]
    BY <1>2, <2>1
  <2>3. /\ eval' \in [Threads -> EvalRecord] /\ \A o \in Threads \ {t} : eval'[o] = eval[o]
        /\ eval'[t].pc = "acquire" /\ eval'[t].goal = eval[t].goal
        /\ eval'[t].evals = eval[t].evals
    BY <2>1, <2>2 DEF EvalRecord, PC
  <2>4. EvalAt(t)' /\ HeldAt(t)'
    BY <1>0, <1>2, <2>3 DEF EvalInv, EvalAt, HeldAt, Past
  <2>5. EvalInv' /\ RoomInv' /\ SharedInv' /\ HeldInv'
    BY <1>0, <1>2, <2>3, <2>4, MoveKeeps DEF Judge
  <2>6. TypeOK' /\ DoneInv'
    BY <1>0, <1>2, <2>3 DEF Judge, GoalsInv, TypeOK, EvalRecord, DoneInv
  <2>7. QED
    BY <2>5, <2>6 DEF GoalsInv
<1>3. QED
  BY <1>1, <1>2 DEF Judge

\* AskUser, RunPauses and Finish write the copy and leave.
LEMMA WriteLastHolds ==
  ASSUME GoalsInv, NEW t \in Threads, AskUser(t) \/ RunPauses(t) \/ Finish(t)
  PROVE  GoalsInv'
<1>1. TypeOK /\ EvalInv /\ Evaluating(t) /\ eval[t].pc \in Past /\ Return(t)
  BY DEF GoalsInv, AskUser, RunPauses, Finish, Evaluating, Past
<1>2. UNCHANGED <<task, batch, room, active, calls, owner, lapsed, shared>>
  BY DEF AskUser, RunPauses, Finish
<1>3. asked' \subseteq Goals
  BY <1>1 DEF AskUser, RunPauses, Finish, TypeOK, EvalInv, EvalAt, Evaluating
<1>4. \E s \in {"paused", "failed", "progress_updated", "completed"} : Write(t, s, 1)
  BY DEF AskUser, RunPauses, Finish
<1>5. \E s \in Status : eval[t].pc \in Past /\ Write(t, s, 1)
  BY <1>1, <1>4, WrittenStatus
<1>6. QED
  BY <1>1, <1>2, <1>3, <1>5, LeaveHolds

\* A quota that is granted keeps the active goals within the limit.
LEMMA SlotTaken ==
  ASSUME TypeOK, NEW g \in Goals, QuotaGranted(g)
  PROVE  active \cup {g} \subseteq Goals /\ Cardinality(active \cup {g}) <= Slots
<1>1. active \subseteq Goals /\ IsFiniteSet(active) /\ Cardinality(active) \in Nat
  BY FS_Subset, FS_CardinalityType, GoalsAssumption DEF TypeOK
<1>2. CASE g \in active
  <2>1. active \cup {g} = active
    BY <1>2
  <2>2. QED
    BY <1>1, <2>1 DEF TypeOK
<1>3. CASE g \notin active
  <2>1. Cardinality(active \cup {g}) = Cardinality(active) + 1
    BY <1>1, <1>3, FS_AddElement
  <2>2. Cardinality(active) < Slots
    BY <1>3 DEF QuotaGranted
  <2>3. QED
    BY <1>1, <2>1, <2>2, GoalsAssumption
<1>4. QED
  BY <1>2, <1>3

LEMMA AcquireQuotaHolds ==
  ASSUME GoalsInv, NEW t \in Threads, AcquireQuota(t)
  PROVE  GoalsInv'
<1> DEFINE g == eval[t].goal
           next == IF g \in TeamGoals THEN "run" ELSE "lock"
<1>0. /\ TypeOK /\ EvalInv /\ DoneInv /\ Evaluating(t) /\ eval[t].pc \in Past /\ g \in Goals
      /\ eval[t].evals < MaxEvals /\ Deps[g] \subseteq done
  BY DEF GoalsInv, AcquireQuota, Evaluating, Past, EvalInv, EvalAt
<1>1. CASE Write(t, "active", 1) /\ Return(t) /\ UNCHANGED active
  <2>1. asked' \subseteq Goals /\ UNCHANGED <<task, batch, room, active, calls, owner, lapsed, shared>>
    BY <1>0, <1>1 DEF AcquireQuota, TypeOK
  <2>2. \E s \in Status : eval[t].pc \in Past /\ Write(t, s, 1)
    BY <1>0, <1>1, WrittenStatus
  <2>3. QED
    BY <1>0, <1>1, <2>1, <2>2, LeaveHolds
<1>2. CASE /\ QuotaGranted(g) /\ active' = active \cup {g}
           /\ Write(t, "executing", 0) /\ Goto(t, next)
  <2>1. goal' \in [Goals -> GoalRecord] /\ done' \subseteq Goals /\ done \subseteq done' /\ DoneInv'
    BY <1>0, <1>2, WriteKeeps, WrittenStatus
  <2>2. active' \subseteq Goals /\ Cardinality(active') <= Slots
    BY <1>0, <1>2, SlotTaken
  <2>3. next \in Past /\ (next = "run" => g \in TeamGoals)
    BY DEF Past
  <2>4. /\ shared' = shared /\ room' = room /\ owner' = owner /\ lapsed' = lapsed /\ g \in active'
        /\ active \subseteq active' /\ Deps[g] \subseteq done'
    BY <1>0, <1>2, <2>1 DEF AcquireQuota
  <2> HIDE DEF next
  <2>5. /\ eval' \in [Threads -> EvalRecord]
        /\ EvalInv' /\ RoomInv' /\ SharedInv' /\ HeldInv'
    BY <1>0, <1>2, <2>1, <2>3, <2>4, GotoKeeps
  <2>6. TypeOK'
    BY <1>0, <2>1, <2>2, <2>5 DEF AcquireQuota, TypeOK, GoalRecord, EvalRecord
  <2>7. QED
    BY <2>1, <2>5, <2>6 DEF GoalsInv
<1>3. QED
  BY <1>1, <1>2 DEF AcquireQuota

\* The locks are taken together, and only from nobody.
LEMMA AcquireLocksHolds ==
  ASSUME GoalsInv, NEW t \in Threads, AcquireLocks(t)
  PROVE  GoalsInv'
<1> DEFINE g == eval[t].goal
<1>0. /\ TypeOK /\ EvalInv /\ DoneInv /\ Evaluating(t) /\ eval[t].pc \in Past /\ g \in Goals
      /\ eval[t].evals < MaxEvals /\ Deps[g] \subseteq done
  BY DEF GoalsInv, AcquireLocks, Evaluating, Past, EvalInv, EvalAt
<1>1. CASE Write(t, "active", 1) /\ Return(t) /\ UNCHANGED <<owner, lapsed>>
  <2>1. asked' \subseteq Goals /\ UNCHANGED <<task, batch, room, active, calls, owner, lapsed, shared>>
    BY <1>0, <1>1 DEF AcquireLocks, TypeOK
  <2>2. \E s \in Status : eval[t].pc \in Past /\ Write(t, s, 1)
    BY <1>0, <1>1, WrittenStatus
  <2>3. QED
    BY <1>0, <1>1, <2>1, <2>2, LeaveHolds
<1>2. CASE /\ LocksGranted(g) /\ owner' = Locked(g) /\ lapsed' = lapsed \ {g}
           /\ Write(t, "executing", 0) /\ Goto(t, "run")
  <2>1. goal' \in [Goals -> GoalRecord] /\ done' \subseteq Goals /\ done \subseteq done' /\ DoneInv'
    BY <1>0, <1>2, WriteKeeps, WrittenStatus
  <2>2. owner \in [Resources -> Goals \cup {Nothing}] /\ NeedsOf[g] \subseteq Resources
    BY <1>0, GoalsAssumption DEF TypeOK
  <2>3. /\ owner' \in [Resources -> Goals \cup {Nothing}]
        /\ \A r \in NeedsOf[g] : owner'[r] = g
        /\ \A r \in Resources : owner[r] \notin {Nothing, g} => owner'[r] = owner[r]
    BY <1>0, <1>2, <2>2 DEF Locked, LocksGranted
  <2>4. /\ shared' = shared /\ room' = room /\ active' = active /\ Deps[g] \subseteq done'
        /\ lapsed \ {g} \subseteq lapsed' /\ lapsed' \subseteq Goals
    BY <1>0, <1>2, <2>1 DEF AcquireLocks, TypeOK
  <2>5. g \notin shared => g \in active
    BY DEF GoalsInv, HeldInv, HeldAt, AcquireLocks
  <2>6. /\ eval' \in [Threads -> EvalRecord]
        /\ EvalInv' /\ RoomInv' /\ SharedInv' /\ HeldInv'
    BY <1>0, <1>2, <2>1, <2>3, <2>4, <2>5, GotoKeeps DEF Past
  <2>7. TypeOK'
    BY <1>0, <2>1, <2>3, <2>4, <2>6 DEF AcquireLocks, TypeOK, GoalRecord, EvalRecord
  <2>8. QED
    BY <2>1, <2>6, <2>7 DEF GoalsInv
<1>3. QED
  BY <1>1, <1>2 DEF AcquireLocks

\* The locks that are freed are those of the goal whose plan has run.
LEMMA RunEndsHolds ==
  ASSUME GoalsInv, NEW t \in Threads, RunEnds(t)
  PROVE  GoalsInv'
<1> DEFINE g == eval[t].goal
<1>0. /\ TypeOK /\ EvalInv /\ DoneInv /\ Evaluating(t) /\ eval[t].pc \in Past /\ g \in Goals
      /\ eval[t].evals < MaxEvals /\ Deps[g] \subseteq done
  BY DEF GoalsInv, RunEnds, Evaluating, Past, EvalInv, EvalAt
<1>1. /\ shared' = shared /\ room' = room /\ active' = active /\ done' = done /\ goal' = goal
      /\ asked' = asked /\ task' = task /\ batch' = batch /\ lapsed' = lapsed
  BY DEF RunEnds
<1>2. /\ owner' \in [Resources -> Goals \cup {Nothing}]
      /\ \A r \in Resources : owner[r] \notin {Nothing, g} => owner'[r] = owner[r]
  <2>1. owner \in [Resources -> Goals \cup {Nothing}]
    BY <1>0 DEF TypeOK
  <2>2. QED
    BY <2>1 DEF RunEnds, Unlocked
<1>3. calls' \in [Goals -> 0..MaxCalls]
  <2>1. calls \in [Goals -> 0..MaxCalls]
    BY <1>0 DEF TypeOK
  <2>2. calls' = [calls EXCEPT ![g] = IF calls[g] < MaxCalls THEN calls[g] + 1 ELSE calls[g]]
    BY DEF RunEnds
  <2>3. QED
    BY <1>0, <2>1, <2>2, GoalsAssumption
<1>4. /\ eval' \in [Threads -> EvalRecord]
      /\ EvalInv' /\ RoomInv' /\ SharedInv' /\ HeldInv'
  <2>1. CASE Raise(t)
    BY <1>0, <1>1, <1>2, <2>1, ReturnKeeps
  <2>2. CASE Goto(t, "finish")
    BY <1>0, <1>1, <1>2, <2>2, GotoKeeps DEF Past
  <2>3. QED
    BY <2>1, <2>2 DEF RunEnds
<1>5. TypeOK' /\ DoneInv'
  BY <1>0, <1>1, <1>2, <1>3, <1>4 DEF TypeOK, EvalRecord, DoneInv
<1>6. QED
  BY <1>4, <1>5 DEF GoalsInv

\* An exception leaves everything as it is.
LEMMA EvaluationRaisesHolds ==
  ASSUME GoalsInv, NEW t \in Threads, EvaluationRaises(t)
  PROVE  GoalsInv'
<1>1. TypeOK /\ DoneInv /\ Evaluating(t) /\ Raise(t)
  BY DEF GoalsInv, EvaluationRaises, Evaluating
<1>2. /\ goal' = goal /\ asked' = asked /\ task' = task /\ batch' = batch /\ room' = room
      /\ active' = active /\ calls' = calls /\ owner' = owner /\ lapsed' = lapsed
      /\ done' = done /\ shared' = shared
  BY DEF EvaluationRaises
<1>3. /\ eval' \in [Threads -> EvalRecord]
      /\ EvalInv' /\ RoomInv' /\ SharedInv' /\ HeldInv'
  BY <1>1, <1>2, ReturnKeeps
<1>4. TypeOK' /\ DoneInv'
  BY <1>1, <1>2, <1>3 DEF TypeOK, EvalRecord, DoneInv
<1>5. QED
  BY <1>3, <1>4 DEF GoalsInv

LEMMA EvaluateHolds ==
  ASSUME GoalsInv, NEW t \in Threads, Evaluate(t)
  PROVE  GoalsInv'
BY CheckHolds, JudgeHolds, WriteLastHolds, AcquireQuotaHolds, AcquireLocksHolds, RunEndsHolds,
   EvaluationRaisesHolds
   DEF Evaluate

LEMMA ExecuteGoalHolds ==
  ASSUME GoalsInv, NEW u \in Users, NEW g \in Goals, ExecuteGoal(u, g)
  PROVE  GoalsInv'
<1>1. u \in Threads /\ u # Worker /\ eval[u].pc = "idle" /\ Start(u, g)
  BY GoalsAssumption DEF Threads, ExecuteGoal
<1>2. /\ goal' = goal /\ asked' = asked /\ task' = task /\ batch' = batch /\ room' = room
      /\ active' = active /\ calls' = calls /\ owner' = owner /\ lapsed' = lapsed /\ done' = done
  BY DEF ExecuteGoal
<1>3. /\ eval' \in [Threads -> EvalRecord] /\ shared' \subseteq Goals
      /\ EvalInv' /\ RoomInv' /\ SharedInv' /\ HeldInv'
  BY <1>1, <1>2, StartKeeps
<1>4. TypeOK' /\ DoneInv'
  BY <1>2, <1>3 DEF GoalsInv, TypeOK, EvalRecord, DoneInv
<1>5. QED
  BY <1>3, <1>4 DEF GoalsInv

LEMMA ScheduledType ==
  ASSUME TypeOK, NEW g \in Goals
  PROVE  Scheduled(g) \in {"queued", "running"}
BY DEF Scheduled

LEMMA ScheduleOnEventHolds ==
  ASSUME GoalsInv, NEW g \in Goals, ScheduleOnEvent(g)
  PROVE  GoalsInv'
<1>1. TypeOK /\ Scheduled(g) \in {"queued", "running"}
  BY ScheduledType DEF GoalsInv
<1>2. EvalInv' /\ RoomInv' /\ SharedInv' /\ HeldInv'
  BY ThreadsUntouched DEF ScheduleOnEvent
<1>3. TypeOK' /\ DoneInv'
  BY <1>1 DEF ScheduleOnEvent, GoalsInv, TypeOK, DoneInv
<1>4. QED
  BY <1>2, <1>3 DEF GoalsInv

\* While the supervisor does not evaluate, its room may be counted anew.
LEMMA BatchHolds ==
  ASSUME GoalsInv, eval[Worker].pc = "idle",
         task' \in [Goals -> {"none", "queued", "running", "completed", "paused", "failed"}],
         batch' \subseteq Goals, room' \in 0..Slots,
         UNCHANGED <<goal, asked, active, calls, owner, lapsed, eval, done, shared>>
  PROVE  GoalsInv'
<1>1. EvalInv' /\ SharedInv' /\ HeldInv' /\ RoomInv'
  BY DEF GoalsInv, EvalInv, EvalAt, SharedInv, HeldInv, HeldAt, RoomInv, Evaluating
<1>2. TypeOK' /\ DoneInv'
  BY DEF GoalsInv, TypeOK, DoneInv
<1>3. QED
  BY <1>1, <1>2 DEF GoalsInv

LEMMA BeginBatchHolds ==
  ASSUME GoalsInv, BeginBatch
  PROVE  GoalsInv'
<1> DEFINE busy == {g \in Goals : task'[g] = "running"}
           free == Slots - Cardinality(busy)
<1>1. TypeOK
  BY DEF GoalsInv
<1>2. task' \in [Goals -> {"none", "queued", "running", "completed", "paused", "failed"}]
  BY <1>1, ScheduledType DEF BeginBatch, TypeOK
<1>3. batch' \subseteq Goals
  BY DEF BeginBatch
<1>4. room' \in 0..Slots
  <2>1. Cardinality(busy) \in Nat
    BY FS_Subset, FS_CardinalityType, GoalsAssumption
  <2>2. /\ free > 0 \/ batch' = {}
        /\ room' = IF batch' = {} THEN 0 ELSE free
    BY DEF BeginBatch
  <2> HIDE DEF busy
  <2>3. QED
    BY <2>1, <2>2, GoalsAssumption
<1>5. QED
  BY <1>2, <1>3, <1>4, BatchHolds DEF BeginBatch

LEMMA EndBatchHolds ==
  ASSUME GoalsInv, EndBatch
  PROVE  GoalsInv'
<1>1. TypeOK
  BY DEF GoalsInv
<1>2. QED
  BY <1>1, BatchHolds DEF EndBatch, TypeOK

\* A candidate that is evaluated takes its slot first.
LEMMA CandidateHolds ==
  ASSUME GoalsInv, NEW g \in Goals, Candidate(g)
  PROVE  GoalsInv'
<1>0. TypeOK /\ DoneInv /\ eval[Worker].pc = "idle" /\ room > 0
  BY DEF GoalsInv, Candidate
<1>1. CASE /\ QuotaGranted(g) /\ active' = active \cup {g}
           /\ task' = [task EXCEPT ![g] = "running"] /\ Start(Worker, g)
           /\ UNCHANGED batch /\ UNCHANGED room
  <2>1. active' \subseteq Goals /\ Cardinality(active') <= Slots
    BY <1>0, <1>1, SlotTaken
  <2>2. /\ goal' = goal /\ asked' = asked /\ calls' = calls /\ owner' = owner /\ done' = done
        /\ lapsed' = lapsed /\ room' = room /\ active \subseteq active' /\ Worker \in Threads
    BY <1>1 DEF Candidate, Threads
  <2>3. /\ eval' \in [Threads -> EvalRecord] /\ shared' \subseteq Goals
        /\ EvalInv' /\ RoomInv' /\ SharedInv' /\ HeldInv'
    BY <1>0, <1>1, <2>2, StartKeeps
  <2>4. TypeOK' /\ DoneInv'
    BY <1>0, <1>1, <2>1, <2>2, <2>3 DEF TypeOK, EvalRecord, DoneInv
  <2>5. QED
    BY <2>3, <2>4 DEF GoalsInv
<1>2. CASE /\ batch' = batch \ {g} /\ room' = IF batch' = {} THEN 0 ELSE room
           /\ task' = IF goal[g].status \in Ended
                      THEN [task EXCEPT ![g] = "completed"] ELSE task
           /\ UNCHANGED <<active, eval, shared>>
  <2>1. /\ task' \in [Goals -> {"none", "queued", "running", "completed", "paused", "failed"}]
        /\ batch' \subseteq Goals /\ room' \in 0..Slots
    BY <1>0, <1>2, GoalsAssumption DEF TypeOK
  <2>2. UNCHANGED <<goal, asked, active, calls, owner, lapsed, eval, done, shared>>
    BY <1>2 DEF Candidate
  <2>3. QED
    BY <1>0, <2>1, <2>2, BatchHolds
<1>3. QED
  BY <1>1, <1>2 DEF Candidate

\* The supervisor frees the slot and the locks of the goal it has just evaluated.
LEMMA SettleHolds ==
  ASSUME GoalsInv, Settle
  PROVE  GoalsInv'
<1> DEFINE g == eval[Worker].goal
<1>0. TypeOK /\ EvalInv /\ DoneInv /\ RoomInv /\ SharedInv /\ HeldInv
  BY DEF GoalsInv
<1>1. /\ Worker \in Threads /\ Evaluating(Worker) /\ g \in Goals
      /\ eval[Worker].pc \in {"settle", "raised"} /\ room > 0 /\ room \in 0..Slots
  BY <1>0 DEF Settle, Threads, Evaluating, EvalInv, EvalAt, RoomInv, TypeOK
<1>2. /\ goal' = goal /\ asked' = asked /\ calls' = calls /\ done' = done /\ shared' = shared
      /\ active' = active \ {g} /\ batch' = batch \ {g} /\ lapsed' = lapsed
  BY DEF Settle
<1>3. /\ eval' \in [Threads -> EvalRecord] /\ \A o \in Threads \ {Worker} : eval'[o] = eval[o]
      /\ eval'[Worker].pc = "idle"
  <2>1. eval \in [Threads -> EvalRecord] /\ Resting \in EvalRecord /\ Resting.pc = "idle"
    BY <1>0, GoalsAssumption DEF TypeOK, EvalRecord, Resting, PC
  <2>2. QED
    BY <1>1, <2>1 DEF Settle
<1>4. /\ owner' \in [Resources -> Goals \cup {Nothing}]
      /\ \A r \in Resources : owner[r] \notin {Nothing, g} => owner'[r] = owner[r]
  <2>1. owner \in [Resources -> Goals \cup {Nothing}]
    BY <1>0 DEF TypeOK
  <2>2. QED
    BY <2>1 DEF Settle, Unlocked
<1>5. EvalAt(Worker)' /\ HeldAt(Worker)'
  BY <1>3 DEF EvalAt, HeldAt, Past
<1>6. EvalInv'
  BY <1>0, <1>1, <1>2, <1>3, <1>5, EvalKept
<1>7. SharedInv'
  BY <1>0, <1>1, <1>2, <1>3, SharedKept DEF Evaluating
<1>8. HeldInv'
  BY <1>0, <1>1, <1>2, <1>3, <1>4, <1>5, HeldKept
<1>9. RoomInv'
  BY <1>3 DEF RoomInv
<1>10. room' \in 0..Slots
  BY <1>1, GoalsAssumption DEF Settle
<1>11. task' \in [Goals -> {"none", "queued", "running", "completed", "paused", "failed"}]
  <2>1. Outcome(g) \in {"none", "queued", "running", "completed", "paused", "failed"}
    BY DEF Outcome
  <2>2. QED
    BY <1>0, <2>1 DEF Settle, TypeOK
<1>12. active' \subseteq Goals /\ Cardinality(active') <= Slots
  <2>1. active \subseteq Goals /\ IsFiniteSet(active) /\ Cardinality(active) <= Slots
    BY <1>0, FS_Subset, GoalsAssumption DEF TypeOK
  <2>2. Cardinality(active') \in Nat /\ Cardinality(active') <= Cardinality(active)
    BY <1>2, <2>1, FS_Subset, FS_CardinalityType
  <2>3. Cardinality(active) \in Nat
    BY <2>1, FS_CardinalityType
  <2>4. QED
    BY <1>2, <2>1, <2>2, <2>3, GoalsAssumption
<1>13. TypeOK' /\ DoneInv'
  BY <1>0, <1>2, <1>3, <1>4, <1>10, <1>11, <1>12 DEF TypeOK, EvalRecord, DoneInv
<1>14. QED
  BY <1>6, <1>7, <1>8, <1>9, <1>13 DEF GoalsInv

-----------------------------------------------------------------------------
(* The theorems.                                                           *)

LEMMA NextHolds ==
  ASSUME GoalsInv, [Next]_vars
  PROVE  GoalsInv'
<1>1. CASE WorkerNext
  BY <1>1, BeginBatchHolds, CandidateHolds, EndBatchHolds, EvaluateHolds, SettleHolds
     DEF WorkerNext, Threads
<1>2. ASSUME NEW u \in Users, UserNext(u) PROVE GoalsInv'
  BY <1>2, LinkParentHolds, EvaluateHolds, CreateGoalHolds, ExecuteGoalHolds,
     GoalsAssumption DEF UserNext, Threads
<1>3. CASE OperatorNext
  BY <1>3, OperatorHolds, ScheduleOnEventHolds, GoalsAssumption DEF OperatorNext
<1>4. ASSUME NEW g \in Goals, CloseClarification(g) PROVE GoalsInv'
  BY <1>4, OperatorHolds
<1>5. ASSUME NEW r \in Resources, LapseLock(r) PROVE GoalsInv'
  BY <1>5, LapseLockHolds
<1>6. CASE UNCHANGED vars
  BY <1>6 DEF vars, GoalsInv, TypeOK, EvalInv, EvalAt, DoneInv, RoomInv, SharedInv, HeldInv,
              HeldAt, Evaluating
<1>7. QED
  BY <1>1, <1>2, <1>3, <1>4, <1>5, <1>6 DEF Next

\* What every evaluation knows about its goal, whoever runs it and whatever the
\* other threads do meanwhile (evaluate_goal, step_scheduled_goals, execute_goal).
THEOREM GoalsInvariant == Spec => []GoalsInv
<1>1. Init => GoalsInv
  BY InitHolds
<1>2. GoalsInv /\ [Next]_vars => GoalsInv'
  BY NextHolds
<1>3. QED
  BY <1>1, <1>2, PTL DEF Spec

\* The store, the budget, the locks and the scheduler keep their types; the active
\* goals never exceed max_concurrent_goals (ResourceBudgetManager).
THEOREM GoalsTypeSafe == Spec => []TypeOK
<1>1. GoalsInv => TypeOK
  BY DEF GoalsInv
<1>2. QED
  BY <1>1, GoalsInvariant, PTL

\* A plan runs only after the goals it depends on were completed: what Check saw is
\* not undone by the writes of other threads, which overwrite statuses
\* (evaluate_goal's dependency test).
THEOREM DependenciesComeFirst == Spec => []DependenciesFirst
<1>1. GoalsInv => DependenciesFirst
  BY DEF GoalsInv, EvalInv, EvalAt, DependenciesFirst, Executing, Past
<1>2. QED
  BY <1>1, GoalsInvariant, PTL

LEMMA ExclusiveNow ==
  ASSUME GoalsInv
  PROVE  ExclusiveExecutions
<1> DEFINE running == {g \in Goals \ shared : \E t \in Threads : Executing(t) /\ eval[t].goal = g}
           leased  == running \ (TeamGoals \cup lapsed)
<1>1. running \subseteq active
  BY DEF GoalsInv, HeldInv, HeldAt, Executing
<1>2. ASSUME NEW g \in leased, NEW r \in NeedsOf[g] PROVE owner[r] = g
  BY <1>2 DEF GoalsInv, HeldInv, HeldAt, Executing
<1>3. ASSUME NEW g \in leased, NEW h \in leased, g # h
      PROVE  NeedsOf[g] \cap NeedsOf[h] = {}
  BY <1>2, <1>3
<1>4. QED
  BY <1>1, <1>3 DEF ExclusiveExecutions

\* A goal that one thread evaluates runs in a slot, and on resources of its own as
\* long as no lease of its locks has run out: no clean-up, of whichever goal, frees
\* what another goal holds, even when its own lease had lapsed and the other goal took
\* the lock over (release_quota, release_all_locks_for_goal, prune_expired_locks).
THEOREM ExecutionsAreExclusive == Spec => []ExclusiveExecutions
<1>1. GoalsInv => ExclusiveExecutions
  BY ExclusiveNow
<1>2. QED
  BY <1>1, GoalsInvariant, PTL

\* The goals that execute, each evaluated by one thread, are within the limit.
WithinSlots ==
  Cardinality({g \in Goals \ shared : \E t \in Threads : Executing(t) /\ eval[t].goal = g}) <= Slots

\* At most max_concurrent_goals execute, whatever number of threads executes goals and
\* however their leases run out (acquire_quota).
THEOREM SlotsBoundExecutions == Spec => []WithinSlots
<1>1. ASSUME GoalsInv PROVE WithinSlots
  <2> DEFINE running == {g \in Goals \ shared : \E t \in Threads : Executing(t) /\ eval[t].goal = g}
  <2>1. running \subseteq active
    BY <1>1, ExclusiveNow DEF ExclusiveExecutions
  <2>2. active \subseteq Goals /\ IsFiniteSet(active) /\ Cardinality(active) <= Slots
    BY <1>1, FS_Subset, GoalsAssumption DEF GoalsInv, TypeOK
  <2> HIDE DEF running
  <2>3. Cardinality(running) \in Nat /\ Cardinality(running) <= Cardinality(active)
        /\ Cardinality(active) \in Nat
    BY <2>1, <2>2, FS_Subset, FS_CardinalityType
  <2>4. Cardinality(running) <= Slots
    BY <2>2, <2>3, GoalsAssumption
  <2>5. QED
    BY <2>4 DEF running, WithinSlots
<1>2. QED
  BY <1>1, GoalsInvariant, PTL

-----------------------------------------------------------------------------
(* Where the goals are that only the supervisor evaluates.                 *)

\* A user's thread evaluates goals that are executed directly; the goal that the
\* supervisor evaluates is running in the scheduler; the others are in its queue.
QueueInv ==
  /\ \A u \in Users : Evaluating(u) => eval[u].goal \in Direct
  /\ eval[Worker].pc # "idle" => task[eval[Worker].goal] = "running"
  /\ NoGoalIsForgotten

\* A write changes the goal of the evaluation only.
LEMMA WriteFrame ==
  ASSUME TypeOK, NEW t \in Threads, NEW status, NEW counted, Write(t, status, counted),
         NEW g \in Goals, g # eval[t].goal
  PROVE  goal'[g] = goal[g]
BY DEF Write, Store, TypeOK

\* A step of an evaluation changes nothing of other threads, nor of other goals, nor
\* the scheduler's tasks.
LEMMA EvaluateFrame ==
  ASSUME GoalsInv, NEW t \in Threads, Evaluate(t)
  PROVE  /\ Evaluating(t) /\ task' = task /\ \A o \in Threads \ {t} : eval'[o] = eval[o]
         /\ eval'[t].pc # "idle" => eval'[t].goal = eval[t].goal
         /\ \A g \in Goals : g # eval[t].goal => goal'[g] = goal[g]
<1>1. TypeOK /\ eval \in [Threads -> EvalRecord]
  BY DEF GoalsInv, TypeOK, EvalRecord
<1>2. Evaluating(t)
  BY DEF Evaluate, Check, Judge, AskUser, AcquireQuota, AcquireLocks, RunPauses, RunEnds, Finish,
         EvaluationRaises, Evaluating
<1>3. task' = task
  BY DEF Evaluate, Check, Judge, AskUser, AcquireQuota, AcquireLocks, RunPauses, RunEnds, Finish,
         EvaluationRaises
<1>4. goal' = goal \/ \E status, counted : Write(t, status, counted)
  BY DEF Evaluate, Check, Judge, AskUser, AcquireQuota, AcquireLocks, RunPauses, RunEnds, Finish,
         EvaluationRaises
<1>5. \A g \in Goals : g # eval[t].goal => goal'[g] = goal[g]
  BY <1>1, <1>4, WriteFrame
<1>6. /\ \A o \in Threads \ {t} : eval'[o] = eval[o]
      /\ eval'[t].pc # "idle" => eval'[t].goal = eval[t].goal
  <2>1. CASE Return(t) \/ Raise(t)
    <3>1. PICK pc : eval' = [eval EXCEPT ![t] = Back(t, pc, eval[t].goal)]
      BY <2>1 DEF Return, Raise
    <3>2. Back(t, pc, eval[t].goal).pc # "idle" => Back(t, pc, eval[t].goal).goal = eval[t].goal
      BY DEF Back, Resting
    <3>3. QED
      BY <1>1, <3>1, <3>2
  <2>2. CASE \E pc : Goto(t, pc)
    BY <1>1, <2>2 DEF Goto, EvalRecord
  <2>3. CASE eval' = [eval EXCEPT ![t].pc = "acquire", ![t].pending = SubPending(t)]
    BY <1>1, <2>3 DEF EvalRecord
  <2>4. QED
    BY <2>1, <2>2, <2>3
       DEF Evaluate, Check, Judge, AskUser, AcquireQuota, AcquireLocks, RunPauses, RunEnds, Finish,
           EvaluationRaises
<1>7. QED
  BY <1>2, <1>3, <1>5, <1>6

LEMMA EvaluateQueued ==
  ASSUME GoalsInv, QueueInv, NEW t \in Threads, Evaluate(t)
  PROVE  QueueInv'
<1>1. /\ Evaluating(t) /\ task' = task /\ \A o \in Threads \ {t} : eval'[o] = eval[o]
      /\ eval'[t].pc # "idle" => eval'[t].goal = eval[t].goal
      /\ \A g \in Goals : g # eval[t].goal => goal'[g] = goal[g]
  BY EvaluateFrame
<1>2. \A u \in Users : Evaluating(u)' => eval'[u].goal \in Direct
  BY <1>1 DEF QueueInv, Evaluating, Threads
<1>3. eval'[Worker].pc # "idle" => task'[eval'[Worker].goal] = "running"
  BY <1>1 DEF QueueInv, Evaluating, Threads
<1>4. ASSUME NEW g \in Goals \ Direct, goal'[g].status \in Open
      PROVE  task'[g] \in {"queued", "running", "failed"}
  <2>1. CASE g = eval[t].goal
    BY <1>1, <1>4, <2>1 DEF QueueInv, Threads, Evaluating
  <2>2. CASE g # eval[t].goal
    BY <1>1, <1>4, <2>2 DEF QueueInv, NoGoalIsForgotten
  <2>3. QED
    BY <2>1, <2>2
<1>5. QED
  BY <1>2, <1>3, <1>4 DEF QueueInv, NoGoalIsForgotten

\* What users and operators write is no open status.
LEMMA OthersQueued ==
  ASSUME GoalsInv, QueueInv, NEW g \in Goals,
         \/ \E u \in Users : CreateGoal(u, g)
         \/ PauseGoal(g) \/ ResumeGoal(g) \/ CancelGoal(g)
  PROVE  QueueInv'
<1>1. TypeOK /\ eval \in [Threads -> EvalRecord] /\ goal \in [Goals -> GoalRecord]
  BY DEF GoalsInv, TypeOK, EvalRecord, GoalRecord
<1>2. /\ task' = task /\ \A h \in Goals : h # g => goal'[h] = goal[h]
      /\ goal'[g].status \notin Open
  <2>1. CASE \E u \in Users : CreateGoal(u, g)
    BY <1>1, <2>1 DEF CreateGoal, Store, Open
  <2>2. CASE \E s \in {"paused", "active", "expired", "cancelled"} : SetStatus(g, s)
    BY <1>1, <2>2 DEF SetStatus, Store, Open, GoalRecord
  <2>3. QED
    BY <2>1, <2>2 DEF PauseGoal, ResumeGoal, CancelGoal
<1>3. /\ \A u \in Users : Evaluating(u)' => eval'[u].goal \in Direct
      /\ eval'[Worker] = eval[Worker]
  <2>1. CASE eval' = eval
    BY <2>1 DEF QueueInv, Evaluating
  <2>2. CASE \E u \in Users : eval' = [eval EXCEPT ![u].pc = "link", ![u].goal = g]
    BY <1>1, <2>2, GoalsAssumption DEF QueueInv, Evaluating, Threads, EvalRecord
  <2>3. QED
    BY <2>1, <2>2 DEF CreateGoal, PauseGoal, ResumeGoal, CancelGoal, SetStatus
<1>4. \A h \in Goals \ Direct : goal'[h].status \in Open => task'[h] \in {"queued", "running", "failed"}
  BY <1>2 DEF QueueInv, NoGoalIsForgotten
<1>5. QED
  BY <1>2, <1>3, <1>4 DEF QueueInv, NoGoalIsForgotten

\* The link of a child leaves the parent's status alone.
LEMMA LinkParentQueued ==
  ASSUME GoalsInv, QueueInv, NEW u \in Users, LinkParent(u)
  PROVE  QueueInv'
<1>1. eval \in [Threads -> EvalRecord] /\ goal \in [Goals -> GoalRecord]
  BY DEF GoalsInv, TypeOK, EvalRecord, GoalRecord
<1>2. \A h \in Goals : goal'[h].status = goal[h].status
  BY <1>1 DEF LinkParent, Store, GoalRecord
<1>3. task' = task /\ eval' = [eval EXCEPT ![u] = Resting] /\ u # Worker /\ u \in Threads
  BY GoalsAssumption DEF LinkParent, Threads
<1>4. eval'[Worker] = eval[Worker] /\ \A o \in Users : Evaluating(o)' => eval'[o].goal \in Direct
  BY <1>1, <1>3 DEF QueueInv, Evaluating, Resting, Threads
<1>5. QED
  BY <1>2, <1>3, <1>4 DEF QueueInv, NoGoalIsForgotten

LEMMA ExecuteGoalQueued ==
  ASSUME GoalsInv, QueueInv, NEW u \in Users, NEW g \in Direct, ExecuteGoal(u, g)
  PROVE  QueueInv'
<1>1. eval \in [Threads -> EvalRecord] /\ u # Worker /\ u \in Threads /\ g \in Goals
  BY GoalsAssumption DEF GoalsInv, TypeOK, EvalRecord, Threads
<1>2. goal' = goal /\ task' = task /\ eval[u].pc = "idle" /\ goal[g].status \notin Ended \cup {"paused"}
  BY DEF ExecuteGoal
<1>3. eval' = [eval EXCEPT ![u] = [pc |-> "check", goal |-> g, evals |-> goal[g].evals,
                                   subs |-> goal[g].subs, pending |-> FALSE]]
  BY <1>2 DEF ExecuteGoal, Start
<1>4. eval'[Worker] = eval[Worker] /\ \A o \in Users : Evaluating(o)' => eval'[o].goal \in Direct
  BY <1>1, <1>3 DEF QueueInv, Evaluating, Threads
<1>5. QED
  BY <1>2, <1>4 DEF QueueInv, NoGoalIsForgotten

\* The scheduler takes from the queue only what has ended, and puts every other
\* goal it has evaluated back, unless an exception came back.
LEMMA SchedulerQueued ==
  ASSUME GoalsInv, QueueInv, BeginBatch \/ EndBatch \/ Settle \/ \E g \in Goals : Candidate(g)
  PROVE  QueueInv'
<1>1. /\ eval \in [Threads -> EvalRecord] /\ task \in [Goals -> {"none", "queued", "running",
                                                        "completed", "paused", "failed"}]
      /\ Worker \in Threads /\ Worker \notin Users
  BY GoalsAssumption DEF GoalsInv, TypeOK, EvalRecord, Threads
<1>2. goal' = goal
  BY DEF BeginBatch, EndBatch, Settle, Candidate
<1>3. CASE BeginBatch
  <2>1. eval' = eval /\ eval[Worker].pc = "idle"
    BY <1>3 DEF BeginBatch
  <2>2. \A g \in Goals : task'[g] = task[g] \/ task'[g] \in {"queued", "running"}
    BY <1>3 DEF BeginBatch, Scheduled
  <2>3. QED
    BY <1>2, <2>1, <2>2 DEF QueueInv, NoGoalIsForgotten, Evaluating
<1>4. CASE EndBatch
  BY <1>2, <1>4 DEF EndBatch, QueueInv, NoGoalIsForgotten, Evaluating
<1>5. CASE Settle
  <2> DEFINE g == eval[Worker].goal
  <2>1. /\ eval' = [eval EXCEPT ![Worker] = Resting] /\ Resting.pc = "idle"
        /\ task' = [task EXCEPT ![g] = Outcome(g)]
    BY <1>5 DEF Settle, Resting
  <2>2. goal[g].status \in Open => Outcome(g) \in {"queued", "failed"}
    BY DEF Outcome, Open
  <2>3. \A h \in Goals \ Direct : goal'[h].status \in Open => task'[h] \in {"queued", "running", "failed"}
    BY <1>1, <1>2, <2>1, <2>2 DEF QueueInv, NoGoalIsForgotten
  <2>4. eval'[Worker].pc = "idle" /\ \A u \in Users : eval'[u] = eval[u]
    BY <1>1, <2>1 DEF Threads
  <2>5. QED
    BY <2>3, <2>4 DEF QueueInv, NoGoalIsForgotten, Evaluating
<1>6. ASSUME NEW g \in Goals, Candidate(g) PROVE QueueInv'
  <2>1. CASE task' = [task EXCEPT ![g] = "running"] /\ Start(Worker, g)
    <3>1. Back(Worker, "settle", g).goal = g
      BY DEF Back, Resting
    <3>2. eval'[Worker].goal = g /\ \A u \in Users : eval'[u] = eval[u]
      BY <1>1, <2>1, <3>1 DEF Start, Threads
    <3>3. \A h \in Goals : task'[h] = task[h] \/ task'[h] = "running"
      BY <1>1, <2>1
    <3>4. task'[g] = "running"
      BY <1>1, <2>1
    <3>5. QED
      BY <1>2, <3>2, <3>3, <3>4 DEF QueueInv, NoGoalIsForgotten, Evaluating
  <2>2. CASE /\ task' = IF goal[g].status \in Ended
                        THEN [task EXCEPT ![g] = "completed"] ELSE task
             /\ eval' = eval
    <3>1. eval[Worker].pc = "idle"
      BY <1>6 DEF Candidate
    <3>2. \A h \in Goals : goal[h].status \in Open => task'[h] = task[h]
      BY <1>1, <2>2 DEF Open, Ended
    <3>3. QED
      BY <1>2, <2>2, <3>1, <3>2 DEF QueueInv, NoGoalIsForgotten, Evaluating
  <2>3. QED
    BY <1>6, <2>1, <2>2 DEF Candidate
<1>7. QED
  BY <1>3, <1>4, <1>5, <1>6

\* The steps that touch neither goals nor evaluations.
LEMMA ElsewhereQueued ==
  ASSUME QueueInv,
         \/ \E g \in Goals : CloseClarification(g)
         \/ \E r \in Resources : LapseLock(r)
         \/ UNCHANGED vars
  PROVE  QueueInv'
<1>1. goal' = goal /\ task' = task /\ eval' = eval
  BY DEF CloseClarification, LapseLock, vars
<1>2. QED
  BY <1>1 DEF QueueInv, NoGoalIsForgotten, Evaluating

LEMMA ScheduleOnEventQueued ==
  ASSUME GoalsInv, QueueInv, NEW g \in Goals, ScheduleOnEvent(g)
  PROVE  QueueInv'
<1>1. goal' = goal /\ eval' = eval /\ eval[Worker].pc = "idle"
  BY DEF ScheduleOnEvent
<1>2. \A h \in Goals : task'[h] = task[h] \/ task'[h] \in {"queued", "running"}
  BY ScheduledType DEF GoalsInv, TypeOK, ScheduleOnEvent
<1>3. QED
  BY <1>1, <1>2 DEF QueueInv, NoGoalIsForgotten, Evaluating

LEMMA NextQueued ==
  ASSUME GoalsInv, QueueInv, [Next]_vars
  PROVE  QueueInv'
<1>1. CASE WorkerNext
  BY <1>1, SchedulerQueued, EvaluateQueued DEF WorkerNext, Threads
<1>2. ASSUME NEW u \in Users, UserNext(u) PROVE QueueInv'
  BY <1>2, LinkParentQueued, EvaluateQueued, OthersQueued, ExecuteGoalQueued DEF UserNext, Threads
<1>3. CASE OperatorNext
  BY <1>3, OthersQueued, ScheduleOnEventQueued, GoalsAssumption DEF OperatorNext
<1>4. QED
  BY <1>1, <1>2, <1>3, ElsewhereQueued DEF Next

\* A goal that only the supervisor evaluates is never left, neither active nor ended
\* nor paused, outside of the scheduler's queue, except after an exception (step_next_batch,
\* schedule_goal and every exit of evaluate_goal).
THEOREM NoGoalIsLost == Spec => []NoGoalIsForgotten
<1>1. Init => QueueInv
  <2> SUFFICES ASSUME Init PROVE QueueInv
    OBVIOUS
  <2>1. /\ \A t \in Threads : eval[t].pc = "idle"
        /\ \A g \in Goals : goal[g].status = "none"
    BY DEF Init, Resting
  <2>2. QED
    BY <2>1 DEF QueueInv, NoGoalIsForgotten, Evaluating, Threads, Open
<1>2. GoalsInv /\ QueueInv /\ [Next]_vars => QueueInv'
  BY NextQueued
<1>3. QueueInv => NoGoalIsForgotten
  BY DEF QueueInv
<1>4. QED
  BY <1>1, <1>2, <1>3, GoalsInvariant, PTL DEF Spec
=============================================================================
