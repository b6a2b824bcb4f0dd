-------------------------- MODULE CampaignsProofs --------------------------
(***************************************************************************)
(* The safety of Campaigns for every set of phases, workers and operators, *)
(* every dependency between the phases and every bound. The second half    *)
(* proves EffectsMatchPhases and PhasesInOrder, each from an invariant of  *)
(* its own (EffectInv, OrderInv).                                          *)
(***************************************************************************)
EXTENDS Campaigns, SequenceTheorems, FiniteSetTheorems, TLAPS

\* Points of the execution at which a worker is in a phase.
InPhase == {"goals", "completed", "broken", "recovering", "heal", "diagnose", "rollback",
            "recovered", "resume", "failed", "compensate"}

Placed(th) == th.pc \in InPhase => th.at \in Phases

Commanding(th) == th.pc \in {"cancel", "restore"}

\* An operator who compensates has the engine's lock: nobody else writes the status.
Locked ==
  /\ \A o \in Operators : Commanding(thread[o]) => engine = o
  /\ status = "compensating" =>
       engine \in Operators /\ thread[engine].pc = "restore"

\* A worker that only has to compensate does not answer for the status any more.
Driving(th) == th.pc \notin {"idle", "withdraw"}

Driven == status \in {"running", "recovering"} => \E w \in Workers : Driving(thread[w])

\* The steps of the log are distinct; one that was undone says so, or is lost, and no
\* compensation has it before itself.
LogDistinct(l) == \A i, j \in DOMAIN l : l[i].id = l[j].id => i = j

LogSettled(l) == \A i \in DOMAIN l : undone[l[i].id] = 1 => l[i].status = "compensated"

TodoSettled ==
  /\ \A s \in undo.todo : undone[s.id] = 0
  /\ \A r, s \in undo.todo : r.id = s.id => r = s

UndoneBound ==
  \A i \in 1..MaxSteps : undone[i] <= 1 /\ (i > Len(recorded) => undone[i] = 0)

ThreadInv == (\A t \in Threads : Placed(thread[t])) /\ Locked /\ Driven

SagaInv == LogDistinct(log) /\ LogSettled(log) /\ TodoSettled /\ UndoneBound

CampaignInv == TypeOK /\ ThreadInv /\ SagaInv

-----------------------------------------------------------------------------
\* The log.

LEMMA RecordedLog ==
  ASSUME TypeOK, LogDistinct(log), NEW p \in Phases
  PROVE  /\ Recorded(p) \in Seq([id : 1..(Len(recorded) + 1), status : StepStatus])
         /\ Len(Recorded(p)) >= Len(log)
         /\ LogDistinct(Recorded(p))
         /\ \A i \in DOMAIN Recorded(p) :
              \/ Recorded(p)[i].id = Len(recorded) + 1
              \/ \E j \in DOMAIN log : Recorded(p)[i] = log[j]
<1> DEFINE l     == Recorded(p)
           n     == Len(recorded) + 1
           Step  == [id : 1..n, status : StepStatus]
           new   == [id |-> n, status |-> "forward_executed"]
           prior == IF Len(log) >= LogSize THEN Tail(log) ELSE log
<1>1. Len(recorded) \in Nat /\ Len(log) \in Nat
  BY DEF TypeOK
<1>2. SagaStep \subseteq Step /\ new \in Step
  BY <1>1 DEF SagaStep, StepIds, StepStatus
<1>3. log \in Seq(Step)
  BY <1>2, SeqMonotonic DEF TypeOK
<1>4. LogSize \in Nat \ {0}
  BY CampaignsAssumption
<1>5. /\ prior \in Seq(Step) /\ Len(prior) + 1 >= Len(log)
      /\ \E d \in Nat : \A i \in DOMAIN prior : i + d \in DOMAIN log /\ prior[i] = log[i + d]
  <2>1. CASE Len(log) >= LogSize
    <3>1. log # <<>>
      BY <2>1, <1>4
    <3>2. /\ Tail(log) \in Seq(Step) /\ Len(Tail(log)) = Len(log) - 1
          /\ \A i \in 1..Len(Tail(log)) : Tail(log)[i] = log[i + 1]
      BY <3>1, <1>3, HeadTailProperties
    <3>3. \A i \in DOMAIN Tail(log) : i + 1 \in DOMAIN log /\ Tail(log)[i] = log[i + 1]
      BY <3>2, <1>1, <1>3
    <3>4. prior = Tail(log)
      BY <2>1
    <3> HIDE DEF prior
    <3>5. QED
      BY <3>2, <3>3, <3>4, <1>1
  <2>2. CASE Len(log) < LogSize
    <3>1. prior = log
      BY <2>2, <1>1, <1>4
    <3> HIDE DEF prior
    <3>2. Len(prior) + 1 >= Len(log) /\ prior \in Seq(Step)
      BY <3>1, <1>1, <1>3
    <3>3. \A i \in DOMAIN prior : i + 0 \in DOMAIN log /\ prior[i] = log[i + 0]
      BY <3>1, <1>1, <1>3
    <3>4. QED
      BY <3>2, <3>3
  <2>3. Len(log) >= LogSize \/ Len(log) < LogSize
    BY <1>1, <1>4
  <2> HIDE DEF prior, Step
  <2>4. QED
    BY <2>1, <2>2, <2>3, Zenon
<1> PICK d \in Nat : \A i \in DOMAIN prior : i + d \in DOMAIN log /\ prior[i] = log[i + d]
  BY <1>5
<1>6. /\ l \in Seq(Step) /\ Len(l) = Len(prior) + 1
      /\ l[Len(prior) + 1] = new
      /\ \A i \in 1..Len(prior) : l[i] = prior[i]
  BY <1>2, <1>5, AppendProperties DEF Recorded
<1>7. Len(prior) \in Nat /\ DOMAIN prior = 1..Len(prior) /\ DOMAIN l = 1..(Len(prior) + 1)
  BY <1>5, <1>6
<1>8. \A j \in DOMAIN log : log[j].id # n
  <2>1. \A j \in DOMAIN log : log[j] \in SagaStep
    BY ElementOfSeq DEF TypeOK
  <2>2. QED
    BY <2>1, <1>1 DEF SagaStep, StepIds
<1> HIDE DEF l, prior, new, Step
<1>9. LogDistinct(l)
  <2> SUFFICES ASSUME NEW i \in DOMAIN l, NEW j \in DOMAIN l, l[i].id = l[j].id
               PROVE  i = j
    BY DEF LogDistinct
  <2>1. CASE i \in DOMAIN prior /\ j \in DOMAIN prior
    <3>1. log[i + d].id = log[j + d].id /\ i + d \in DOMAIN log /\ j + d \in DOMAIN log
      BY <2>1, <1>6, <1>7
    <3>2. i + d = j + d /\ i \in Nat /\ j \in Nat
      BY <2>1, <3>1, <1>7 DEF LogDistinct
    <3>3. QED
      BY <3>2
  <2>2. CASE i \in DOMAIN prior /\ j = Len(prior) + 1
    <3>1. l[j].id = n
      BY <2>2, <1>6 DEF new
    <3>2. QED
      BY <2>2, <3>1, <1>5, <1>6, <1>7, <1>8
  <2>3. CASE j \in DOMAIN prior /\ i = Len(prior) + 1
    <3>1. l[i].id = n
      BY <2>3, <1>6 DEF new
    <3>2. QED
      BY <2>3, <3>1, <1>5, <1>6, <1>7, <1>8
  <2>4. QED
    BY <2>1, <2>2, <2>3, <1>7
<1>10. /\ l \in Seq([id : 1..(Len(recorded) + 1), status : StepStatus])
       /\ Len(l) >= Len(log)
       /\ \A i \in DOMAIN l : \/ l[i].id = Len(recorded) + 1
                              \/ \E j \in DOMAIN log : l[i] = log[j]
  <2>1. \A i \in DOMAIN l : \/ l[i].id = n
                            \/ \E j \in DOMAIN log : l[i] = log[j]
    BY <1>6, <1>7 DEF new
  <2>2. Len(l) >= Len(log)
    BY <1>5, <1>6
  <2>3. QED
    BY <1>6, <2>1, <2>2 DEF Step
<1>11. QED
  BY <1>9, <1>10, Zenon DEF l

LEMMA UpdatedLog ==
  ASSUME TypeOK, LogDistinct(log), NEW n \in StepIds, NEW s \in StepStatus,
         NEW l, l = Updated(n, s)
  PROVE  /\ l \in Seq(SagaStep)
         /\ Len(l) >= Len(log)
         /\ LogDistinct(l)
         /\ \A i \in DOMAIN l : \/ l[i].id = n /\ l[i].status = s
                                \/ i \in DOMAIN log /\ l[i] = log[i] /\ l[i].id # n
<1>1. Len(log) \in Nat /\ DOMAIN log = 1..Len(log)
  BY DEF TypeOK
<1>2. \A i \in DOMAIN log : log[i] \in SagaStep
  BY ElementOfSeq DEF TypeOK
<1>3. CASE \E i \in DOMAIN log : log[i].id = n
  <2>1. l = [i \in DOMAIN log |-> IF log[i].id = n THEN [log[i] EXCEPT !.status = s]
                                                   ELSE log[i]]
    BY <1>3 DEF Updated
  <2>2. \A i \in DOMAIN log : l[i] \in SagaStep
    BY <2>1, <1>2 DEF SagaStep
  <2>3. l \in Seq(SagaStep) /\ Len(l) = Len(log) /\ DOMAIN l = DOMAIN log
    BY <2>1, <2>2, <1>1, IsASeq
  <2>4. \A i \in DOMAIN log : /\ l[i].id = log[i].id
                              /\ log[i].id = n => l[i].status = s
                              /\ log[i].id # n => l[i] = log[i]
    BY <2>1, <1>2 DEF SagaStep
  <2>5. QED
    BY <2>3, <2>4, <1>1 DEF LogDistinct
<1>4. CASE ~(\E i \in DOMAIN log : log[i].id = n)
  <2> DEFINE new == [id |-> n, status |-> s]
  <2>1. new \in SagaStep
    BY DEF SagaStep
  <2>2. l = Append(log, new)
    BY <1>4 DEF Updated
  <2>3. /\ l \in Seq(SagaStep) /\ Len(l) = Len(log) + 1
        /\ l[Len(log) + 1] = new
        /\ \A i \in 1..Len(log) : l[i] = log[i]
    BY <2>1, <2>2, AppendProperties DEF TypeOK
  <2>4. DOMAIN l = 1..(Len(log) + 1) /\ new.id = n /\ new.status = s
    BY <2>3
  <2> HIDE DEF new
  <2>5. \A i \in DOMAIN l : i \in DOMAIN log \/ i = Len(log) + 1
    BY <2>4, <1>1
  <2>6. QED
    BY <2>3, <2>4, <2>5, <1>1, <1>4 DEF LogDistinct
<1>5. QED
  BY <1>3, <1>4

\* A step that is not in the log has no status to keep; one that is about to be
\* undone was not undone before.
LEMMA ToUndoSettled ==
  ASSUME TypeOK, LogDistinct(log), LogSettled(log), UndoneBound, NEW S
  PROVE  /\ ToUndo(S) \in SUBSET [at : 1..Len(log), id : StepIds]
         /\ \A s \in ToUndo(S) : undone[s.id] = 0
         /\ \A r, s \in ToUndo(S) : r.id = s.id => r = s
<1>1. DOMAIN log = 1..Len(log) /\ \A i \in DOMAIN log : log[i] \in SagaStep
  BY ElementOfSeq DEF TypeOK
<1>2. \A i \in DOMAIN log : log[i].id \in StepIds /\ log[i].id \in 1..MaxSteps
  <2>1. Len(recorded) \in Nat /\ MaxSteps \in Nat /\ Len(recorded) <= MaxSteps
    BY CampaignsAssumption DEF TypeOK
  <2>2. QED
    BY <1>1, <2>1 DEF SagaStep, StepIds
<1>3. \A i \in DOMAIN log : log[i].status # "compensated" => undone[log[i].id] = 0
  <2> SUFFICES ASSUME NEW i \in DOMAIN log, log[i].status # "compensated"
               PROVE  undone[log[i].id] = 0
    OBVIOUS
  <2>1. undone[log[i].id] \in Nat /\ undone[log[i].id] <= 1
    BY <1>2 DEF TypeOK, UndoneBound
  <2>2. undone[log[i].id] # 1
    BY DEF LogSettled
  <2>3. QED
    BY <2>1, <2>2
<1>4. \A s \in ToUndo(S) : \E i \in DOMAIN log :
         s = [at |-> i, id |-> log[i].id] /\ log[i].status # "compensated"
  BY DEF ToUndo
<1>5. \A s \in ToUndo(S) : \E i \in DOMAIN log :
         s = [at |-> i, id |-> log[i].id] /\ s.id = log[i].id /\ undone[s.id] = 0
  <2> SUFFICES ASSUME NEW s \in ToUndo(S)
               PROVE  \E i \in DOMAIN log :
                        s = [at |-> i, id |-> log[i].id] /\ s.id = log[i].id /\ undone[s.id] = 0
    OBVIOUS
  <2>1. PICK i \in DOMAIN log : s = [at |-> i, id |-> log[i].id] /\ log[i].status # "compensated"
    BY <1>4
  <2>2. s.id = log[i].id
    BY <2>1
  <2>3. QED
    BY <2>1, <2>2, <1>3
<1>6. ASSUME NEW r \in ToUndo(S), NEW s \in ToUndo(S), r.id = s.id
      PROVE  r = s
  <2>1. PICK i \in DOMAIN log : r = [at |-> i, id |-> log[i].id] /\ r.id = log[i].id
    BY <1>5
  <2>2. PICK j \in DOMAIN log : s = [at |-> j, id |-> log[j].id] /\ s.id = log[j].id
    BY <1>5
  <2>3. i = j
    BY <2>1, <2>2, <1>6 DEF LogDistinct
  <2>4. QED
    BY <2>1, <2>2, <2>3
<1>7. QED
  <2>1. ToUndo(S) \in SUBSET [at : 1..Len(log), id : StepIds]
    BY <1>1, <1>2, <1>5
  <2>2. \A s \in ToUndo(S) : undone[s.id] = 0
    BY <1>5
  <2>3. QED
    BY <2>1, <2>2, <1>6

-----------------------------------------------------------------------------
\* Threads.

LEMMA GotoMoves ==
  ASSUME thread \in [Threads -> ThreadState], NEW t \in Threads, NEW pc \in PC, Goto(t, pc)
  PROVE  /\ thread' \in [Threads -> ThreadState]
         /\ thread'[t].pc = pc /\ thread'[t].at = thread[t].at
         /\ \A u \in Threads \ {t} : thread'[u] = thread[u]
BY DEF Goto, ThreadState

LEMMA ProceedMoves ==
  ASSUME thread \in [Threads -> ThreadState], NEW t \in Threads, NEW R \in SUBSET Phases,
         Proceed(t, R)
  PROVE  /\ thread' \in [Threads -> ThreadState]
         /\ thread'[t].pc = "next"
         /\ \A u \in Threads \ {t} : thread'[u] = thread[u]
<1> DEFINE th == [thread[t] EXCEPT !.pc = "next", !.ready = R, !.at = Nobody]
<1>1. thread' = [thread EXCEPT ![t] = th]
  BY DEF Proceed
<1>2. th \in ThreadState /\ th.pc = "next"
  BY DEF ThreadState, PC
<1> HIDE DEF th
<1>3. QED
  BY <1>1, <1>2

LEMMA RestingState ==
  /\ Resting \in ThreadState /\ Resting.pc = "idle"
  /\ \A c \in PC : /\ [Resting EXCEPT !.pc = c] \in ThreadState
                   /\ [Resting EXCEPT !.pc = c].pc = c
BY DEF Resting, ThreadState, PC

LEMMA PutMoves ==
  ASSUME thread \in [Threads -> ThreadState], NEW t \in Threads, NEW th \in ThreadState,
         thread' = [thread EXCEPT ![t] = th]
  PROVE  /\ thread' \in [Threads -> ThreadState]
         /\ thread'[t] = th
         /\ \A u \in Threads \ {t} : thread'[u] = thread[u]
OBVIOUS

-----------------------------------------------------------------------------
\* What a step of a worker needs for the threads and the statuses, and a step that
\* leaves the saga alone for the saga.

LEMMA WorkerStep ==
  ASSUME ThreadInv, NEW w \in Workers,
         \A u \in Threads \ {w} : thread'[u] = thread[u],
         Placed(thread'[w]),
         engine' = engine,
         status' = status \/ (engine = Nobody /\ status' # "compensating"),
         \/ Driving(thread'[w])
         \/ ~Driving(thread[w]) /\ status' = status
         \/ status' \notin {"running", "recovering"}
  PROVE  ThreadInv'
<1>1. \A t \in Threads : Placed(thread'[t])
  BY DEF ThreadInv
<1>2. \A o \in Operators : o \in Threads \ {w}
  BY CampaignsAssumption DEF Threads
<1>3. Locked'
  BY <1>2 DEF ThreadInv, Locked
<1>4. Driven'
  <2> SUFFICES ASSUME status' \in {"running", "recovering"}
               PROVE  \E v \in Workers : Driving(thread'[v])
    BY DEF Driven
  <2>1. CASE Driving(thread'[w])
    BY <2>1
  <2>2. CASE ~Driving(thread[w]) /\ status' = status
    <3>1. PICK v \in Workers : Driving(thread[v])
      BY <2>2 DEF ThreadInv, Driven
    <3>2. thread'[v] = thread[v]
      BY <2>2, <3>1 DEF Threads
    <3>3. QED
      BY <3>1, <3>2
  <2>3. QED
    BY <2>1, <2>2
<1>5. QED
  BY <1>1, <1>3, <1>4 DEF ThreadInv

LEMMA SagaSame ==
  ASSUME SagaInv, UNCHANGED <<log, recorded, undone>>, undo' = undo \/ undo'.todo = {}
  PROVE  SagaInv'
BY DEF SagaInv, LogDistinct, LogSettled, TodoSettled, UndoneBound

LEMMA SagaBegun ==
  ASSUME TypeOK, SagaInv, NEW t \in Threads, NEW S, BeginUndo(t, S),
         UNCHANGED <<log, recorded, undone>>
  PROVE  /\ SagaInv'
         /\ undo' \in [by : Threads \cup {Nobody}, todo : SUBSET [at : 1..Len(log), id : StepIds]]
<1>1. undo'.todo = ToUndo(S) /\ undo'.by = t /\ undo' = [by |-> t, todo |-> ToUndo(S)]
  BY DEF BeginUndo
<1>2. /\ ToUndo(S) \in SUBSET [at : 1..Len(log), id : StepIds]
      /\ \A s \in ToUndo(S) : undone[s.id] = 0
      /\ \A r, s \in ToUndo(S) : r.id = s.id => r = s
  BY ToUndoSettled DEF SagaInv
<1>3. TodoSettled'
  BY <1>1, <1>2 DEF TodoSettled
<1>4. QED
  BY <1>1, <1>2, <1>3 DEF SagaInv, LogDistinct, LogSettled, UndoneBound

LEMMA TypeKept ==
  ASSUME TypeOK, UNCHANGED <<options, recorded, log, undone>>,
         undo' \in [by : Threads \cup {Nobody}, todo : SUBSET [at : 1..Len(log), id : StepIds]],
         status' \in CampaignStatus, engine' \in Operators \cup {Nobody},
         phase' \in [Phases -> PhaseStatus],
         attempts' \in [Phases -> 0..MaxAttempts], unhealed' \subseteq Phases,
         thread' \in [Threads -> ThreadState],
         calls' \in 0..MaxCalls, overlap' \in BOOLEAN, withdrawn' \in BOOLEAN
  PROVE  TypeOK'
BY DEF TypeOK, StepIds, SagaStep

\* One step of a compensation.
LEMMA UndoKeeps ==
  ASSUME TypeOK, SagaInv, NEW t \in Threads, UndoStep(t)
  PROVE  TypeOK' /\ SagaInv'
<1> PICK s \in undo.todo :
       /\ \/ log' = Updated(s.id, "compensated") /\ undone' = [undone EXCEPT ![s.id] = @ + 1]
          \/ log' = Updated(s.id, "compensation_failed") /\ UNCHANGED undone
       /\ undo' = [undo EXCEPT !.todo = @ \ {s}]
  BY DEF UndoStep
<1>1. s.id \in StepIds /\ s \in [at : 1..Len(log), id : StepIds]
  BY DEF TypeOK
<1>2. s.id \in 1..MaxSteps /\ Len(recorded) \in Nat /\ MaxSteps \in Nat
  BY <1>1, CampaignsAssumption DEF TypeOK, StepIds
<1>3. UNCHANGED <<options, status, engine, phase, recorded, attempts, unhealed, thread, calls,
                  overlap, withdrawn>>
  BY DEF UndoStep
<1>4. StepIds' = StepIds /\ SagaStep' = SagaStep
  BY <1>3 DEF StepIds, SagaStep
<1>5. PICK r \in {"compensated", "compensation_failed"} :
         log' = Updated(s.id, r) /\ (r = "compensation_failed" => UNCHANGED undone)
                /\ (r = "compensated" => undone' = [undone EXCEPT ![s.id] = @ + 1])
  OBVIOUS
<1>6. /\ log' \in Seq(SagaStep) /\ Len(log') >= Len(log)
      /\ LogDistinct(log')
      /\ \A i \in DOMAIN log' : \/ log'[i].id = s.id /\ log'[i].status = r
                                \/ i \in DOMAIN log /\ log'[i] = log[i] /\ log'[i].id # s.id
  BY <1>1, <1>5, UpdatedLog DEF SagaInv, StepStatus
<1>7. undone[s.id] = 0 /\ undone \in [1..MaxSteps -> Nat]
  BY DEF SagaInv, TodoSettled, TypeOK
<1>8. /\ undone' \in [1..MaxSteps -> Nat]
      /\ \A i \in 1..MaxSteps \ {s.id} : undone'[i] = undone[i]
      /\ undone'[s.id] \in {0, 1}
      /\ undone'[s.id] = 1 => r = "compensated"
  BY <1>2, <1>5, <1>7
<1>9. TypeOK'
  <2>1. undo'.todo \subseteq undo.todo /\ undo' \in [by : Threads \cup {Nobody},
                               todo : SUBSET [at : 1..Len(log), id : StepIds]]
    BY DEF TypeOK
  <2>2. Len(log) \in Nat /\ Len(log') \in Nat
    BY <1>6 DEF TypeOK
  <2>3. undo' \in [by : Threads \cup {Nobody}, todo : SUBSET [at : 1..Len(log'), id : StepIds]]
    BY <2>1, <2>2, <1>6
  <2>4. QED
    BY <2>3, <1>3, <1>4, <1>6, <1>8 DEF TypeOK
<1>10. LogSettled(log)'
  <2> SUFFICES ASSUME NEW i \in DOMAIN log', undone'[log'[i].id] = 1
               PROVE  log'[i].status = "compensated"
    BY DEF LogSettled
  <2>1. CASE log'[i].id = s.id /\ log'[i].status = r
    BY <2>1, <1>8
  <2>2. CASE i \in DOMAIN log /\ log'[i] = log[i] /\ log'[i].id # s.id
    <3>1. log[i].id \in 1..MaxSteps
      <4>1. log[i] \in SagaStep
        BY <2>2, ElementOfSeq DEF TypeOK
      <4>2. QED
        BY <4>1, <1>2 DEF SagaStep, StepIds, TypeOK
    <3>2. undone[log[i].id] = 1
      BY <2>2, <3>1, <1>8
    <3>3. QED
      BY <2>2, <3>2 DEF SagaInv, LogSettled
  <2>3. QED
    BY <2>1, <2>2, <1>6
<1>11. TodoSettled'
  <2>1. undo'.todo = undo.todo \ {s}
    BY DEF TypeOK
  <2>2. ASSUME NEW z \in undo'.todo
        PROVE  undone'[z.id] = 0
    <3>1. z \in undo.todo /\ z.id # s.id
      BY <2>1 DEF SagaInv, TodoSettled
    <3>2. z.id \in 1..MaxSteps
      BY <3>1, <1>2 DEF TypeOK, StepIds
    <3>3. QED
      BY <3>1, <3>2, <1>8 DEF SagaInv, TodoSettled
  <2>3. QED
    BY <2>1, <2>2 DEF SagaInv, TodoSettled
<1>12. UndoneBound'
  <2> SUFFICES ASSUME NEW i \in 1..MaxSteps
               PROVE  undone'[i] <= 1 /\ (i > Len(recorded) => undone'[i] = 0)
    BY <1>3 DEF UndoneBound
  <2>1. CASE i = s.id
    BY <2>1, <1>1, <1>2, <1>8 DEF StepIds
  <2>2. CASE i # s.id
    BY <2>2, <1>8 DEF SagaInv, UndoneBound
  <2>3. QED
    BY <2>1, <2>2
<1>13. QED
  BY <1>6, <1>9, <1>10, <1>11, <1>12 DEF SagaInv

\* A step is recorded.
LEMMA RecordKeeps ==
  ASSUME TypeOK, SagaInv, NEW p \in Phases, Len(recorded) < MaxSteps,
         log' = Recorded(p), recorded' = Append(recorded, p),
         UNCHANGED <<undone, undo>>
  PROVE  /\ recorded' \in Seq(Phases) /\ Len(recorded') <= MaxSteps
         /\ log' \in Seq(SagaStep')
         /\ undo' \in [by : Threads \cup {Nobody}, todo : SUBSET [at : 1..Len(log'), id : StepIds']]
         /\ SagaInv'
<1>1. Len(recorded) \in Nat /\ MaxSteps \in Nat
  BY CampaignsAssumption DEF TypeOK
<1>2. recorded' \in Seq(Phases) /\ Len(recorded') = Len(recorded) + 1
  BY AppendProperties DEF TypeOK
<1>3. /\ StepIds' = 1..(Len(recorded) + 1)
      /\ SagaStep' = [id : 1..(Len(recorded) + 1), status : StepStatus]
  BY <1>2 DEF StepIds, SagaStep, StepStatus
<1>4. /\ log' \in Seq(SagaStep')
      /\ Len(log') >= Len(log)
      /\ LogDistinct(log')
      /\ \A i \in DOMAIN log' : \/ log'[i].id = Len(recorded) + 1
                                \/ \E j \in DOMAIN log : log'[i] = log[j]
  <2>1. LogDistinct(log)
    BY DEF SagaInv
  <2>2. /\ log' \in Seq([id : 1..(Len(recorded) + 1), status : StepStatus])
        /\ Len(log') >= Len(log)
        /\ LogDistinct(log')
        /\ \A i \in DOMAIN log' : \/ log'[i].id = Len(recorded) + 1
                                  \/ \E j \in DOMAIN log : log'[i] = log[j]
    BY <2>1, RecordedLog, Zenon
  <2>3. QED
    BY <2>2, <1>3
<1>5. undo' \in [by : Threads \cup {Nobody}, todo : SUBSET [at : 1..Len(log'), id : StepIds']]
  <2>1. Len(log) \in Nat /\ Len(log') \in Nat
    BY <1>4 DEF TypeOK
  <2>2. 1..Len(log) \subseteq 1..Len(log') /\ StepIds \subseteq StepIds'
    BY <1>1, <1>3, <1>4, <2>1 DEF StepIds
  <2>3. [at : 1..Len(log), id : StepIds] \subseteq [at : 1..Len(log'), id : StepIds']
    BY <2>2
  <2>4. QED
    BY <2>3 DEF TypeOK
<1>6. undone[Len(recorded) + 1] = 0
  BY <1>1 DEF SagaInv, UndoneBound
<1>7. LogSettled(log)'
  BY <1>4, <1>6 DEF SagaInv, LogSettled
<1>8. UndoneBound'
  BY <1>1, <1>2 DEF SagaInv, UndoneBound
<1>9. QED
  BY <1>1, <1>2, <1>4, <1>5, <1>7, <1>8 DEF SagaInv, TodoSettled

-----------------------------------------------------------------------------
\* The steps.

\* The phases and points of a worker's execution.
LEMMA ExecuteKeeps ==
  ASSUME CampaignInv, NEW w \in Workers, Execute(w)
  PROVE  CampaignInv'
<1> USE DEF CampaignInv
<1>0. w \in Threads /\ thread \in [Threads -> ThreadState] /\ thread[w] \in ThreadState
  BY DEF TypeOK, Threads
<1>p. Placed(thread[w])
  BY <1>0 DEF ThreadInv
<1>1. CASE Discover(w)
  <2>1. Ready \in SUBSET Phases
    BY DEF Ready
  <2>2. /\ thread' \in [Threads -> ThreadState]
        /\ thread'[w].pc = "next"
        /\ \A u \in Threads \ {w} : thread'[u] = thread[u]
    BY <1>0, <1>1, <2>1, ProceedMoves DEF Discover
  <2>3. ThreadInv'
    BY <1>1, <2>2, WorkerStep DEF Discover, Placed, InPhase, Driving
  <2>4. SagaInv'
    BY <1>1, SagaSame DEF Discover
  <2>5. TypeOK'
    BY <1>1, <2>2, TypeKept DEF Discover, TypeOK
  <2>6. QED
    BY <2>3, <2>4, <2>5
<1>2. CASE Leave(w) \/ TimeOut(w)
  <2>1. PICK c \in {"verdict", "raised"} : Goto(w, c)
    BY <1>2 DEF Leave, TimeOut
  <2>2. /\ thread' \in [Threads -> ThreadState]
        /\ thread'[w].pc = c
        /\ \A u \in Threads \ {w} : thread'[u] = thread[u]
    BY <1>0, <2>1, GotoMoves DEF PC
  <2>3. ThreadInv'
    BY <1>2, <2>2, WorkerStep DEF Leave, TimeOut, Placed, InPhase, Driving
  <2>4. SagaInv'
    BY <1>2, SagaSame DEF Leave, TimeOut
  <2>5. TypeOK'
    BY <1>2, <2>2, TypeKept DEF Leave, TimeOut, TypeOK
  <2>6. QED
    BY <2>3, <2>4, <2>5
<1>3. CASE StartPhase(w)
  <2>1. PICK p \in thread[w].ready :
          /\ Mark(p, "running")
          /\ thread' = [thread EXCEPT ![w] = [thread[w] EXCEPT
               !.pc = "goals", !.at = p, !.goal = 0, !.ready = thread[w].ready \ {p}]]
    BY <1>3 DEF StartPhase
  <2> DEFINE th == [thread[w] EXCEPT !.pc = "goals", !.at = p, !.goal = 0,
                                     !.ready = thread[w].ready \ {p}]
  <2>2. p \in Phases /\ thread' = [thread EXCEPT ![w] = th]
    BY <1>0, <2>1 DEF ThreadState
  <2>3. th \in ThreadState /\ th.pc = "goals" /\ th.at \in Phases
    BY <1>0, <2>2 DEF ThreadState, PC
  <2> HIDE DEF th
  <2>4. /\ thread' \in [Threads -> ThreadState]
        /\ thread'[w] = th
        /\ \A u \in Threads \ {w} : thread'[u] = thread[u]
    BY <1>0, <2>2, <2>3, PutMoves
  <2>5. ThreadInv'
    BY <1>3, <2>3, <2>4, WorkerStep DEF StartPhase, Placed, Driving
  <2>6. SagaInv'
    BY <1>3, SagaSame DEF StartPhase
  <2>7. phase' \in [Phases -> PhaseStatus]
    BY <2>1, <2>2 DEF Mark, TypeOK, PhaseStatus
  <2>8. TypeOK'
    BY <1>3, <2>4, <2>7, TypeKept DEF StartPhase, TypeOK
  <2>9. QED
    BY <2>5, <2>6, <2>8
<1>4. CASE RunGoal(w)
  <2>1. thread[w].pc = "goals" /\ thread[w].at \in Phases
    BY <1>4, <1>p DEF RunGoal, Placed, InPhase
  <2>2. CASE /\ Len(recorded) < MaxSteps
             /\ log' = Recorded(thread[w].at)
             /\ recorded' = Append(recorded, thread[w].at)
             /\ thread' = [thread EXCEPT ![w] = [thread[w] EXCEPT !.goal = thread[w].goal + 1]]
    <3> DEFINE th == [thread[w] EXCEPT !.goal = thread[w].goal + 1]
    <3>0. th \in ThreadState /\ th.pc = thread[w].pc /\ th.at = thread[w].at
      BY <1>0 DEF ThreadState
    <3>1. /\ thread' \in [Threads -> ThreadState]
          /\ thread'[w].pc = thread[w].pc /\ thread'[w].at = thread[w].at
          /\ \A u \in Threads \ {w} : thread'[u] = thread[u]
      <4>1. thread' = [thread EXCEPT ![w] = th]
        BY <2>2
      <4> HIDE DEF th
      <4>2. QED
        BY <1>0, <4>1, <3>0, PutMoves
    <3>2. ThreadInv'
      BY <1>4, <1>p, <2>1, <3>1, WorkerStep DEF RunGoal, Placed, Driving
    <3>3. /\ recorded' \in Seq(Phases) /\ Len(recorded') <= MaxSteps
          /\ log' \in Seq(SagaStep')
          /\ undo' \in [by : Threads \cup {Nobody},
                        todo : SUBSET [at : 1..Len(log'), id : StepIds']]
          /\ SagaInv'
      BY <1>4, <2>1, <2>2, RecordKeeps DEF RunGoal
    <3>4. TypeOK'
      BY <1>4, <3>1, <3>3 DEF RunGoal, TypeOK
    <3>5. QED
      BY <3>2, <3>3, <3>4
  <2>3. CASE (Goto(w, "broken") \/ Goto(w, "raised")) /\ UNCHANGED <<log, recorded>>
    <3>1. PICK c \in {"broken", "raised"} : Goto(w, c)
      BY <2>3
    <3>2. /\ thread' \in [Threads -> ThreadState]
          /\ thread'[w].pc = c /\ thread'[w].at = thread[w].at
          /\ \A u \in Threads \ {w} : thread'[u] = thread[u]
      BY <1>0, <3>1, GotoMoves DEF PC
    <3>3. ThreadInv'
      BY <1>4, <2>1, <3>2, WorkerStep DEF RunGoal, Placed, Driving
    <3>4. SagaInv'
      BY <1>4, <2>3, SagaSame DEF RunGoal
    <3>5. TypeOK'
      BY <1>4, <2>3, <3>2, TypeKept DEF RunGoal, TypeOK
    <3>6. QED
      BY <3>3, <3>4, <3>5
  <2>4. QED
    BY <1>4, <2>2, <2>3 DEF RunGoal
<1>5. CASE PassGate(w)
  <2>1. thread[w].at \in Phases
    BY <1>5, <1>p DEF PassGate, GoalsDone, Placed, InPhase
  <2>2. PICK c \in {"completed", "broken", "raised"} : Goto(w, c)
    BY <1>5 DEF PassGate
  <2>3. /\ thread' \in [Threads -> ThreadState]
        /\ thread'[w].pc = c /\ thread'[w].at = thread[w].at
        /\ \A u \in Threads \ {w} : thread'[u] = thread[u]
    BY <1>0, <2>2, GotoMoves DEF PC
  <2>4. ThreadInv'
    BY <1>5, <2>1, <2>3, WorkerStep DEF PassGate, Placed, Driving
  <2>5. SagaInv'
    BY <1>5, SagaSame DEF PassGate
  <2>6. phase' \in [Phases -> PhaseStatus]
    BY <1>5 DEF PassGate, Mark, TypeOK, PhaseStatus
  <2>7. TypeOK'
    BY <1>5, <2>3, <2>6, TypeKept DEF PassGate, TypeOK
  <2>8. QED
    BY <2>4, <2>5, <2>7
<1>6. CASE CompletePhase(w)
  <2>1. thread[w].ready \in SUBSET Phases
    BY <1>0 DEF ThreadState
  <2>2. /\ thread' \in [Threads -> ThreadState]
        /\ thread'[w].pc = "next"
        /\ \A u \in Threads \ {w} : thread'[u] = thread[u]
    BY <1>0, <1>6, <2>1, ProceedMoves DEF CompletePhase
  <2>3. ThreadInv'
    BY <1>6, <2>2, WorkerStep DEF CompletePhase, Placed, InPhase, Driving
  <2>4. SagaInv'
    BY <1>6, SagaSame DEF CompletePhase
  <2>5. phase' \in [Phases -> PhaseStatus]
    BY <1>6 DEF CompletePhase, Mark, TypeOK, PhaseStatus
  <2>6. TypeOK'
    BY <1>6, <2>2, <2>5, TypeKept DEF CompletePhase, TypeOK
  <2>7. QED
    BY <2>3, <2>4, <2>6
<1>7. CASE FailPhase(w)
  <2> DEFINE th == [thread[w] EXCEPT
                      !.failed = TRUE, !.ready = {},
                      !.pc = IF options.compensate THEN "compensate" ELSE "next",
                      !.at = IF options.compensate THEN thread[w].at ELSE Nobody]
  <2>1. thread' = [thread EXCEPT ![w] = th]
    BY <1>7 DEF FailPhase
  <2>2. thread[w].at \in Phases
    BY <1>7, <1>p DEF FailPhase, Placed, InPhase
  <2>3. th \in ThreadState /\ Placed(th) /\ Driving(th)
    BY <1>0, <2>2 DEF ThreadState, PC, Placed, InPhase, Driving
  <2> HIDE DEF th
  <2>4. /\ thread' \in [Threads -> ThreadState]
        /\ thread'[w] = th
        /\ \A u \in Threads \ {w} : thread'[u] = thread[u]
    BY <1>0, <2>1, <2>3, PutMoves
  <2>5. ThreadInv'
    BY <1>7, <2>3, <2>4, WorkerStep DEF FailPhase
  <2>6. SagaInv'
    BY <1>7, SagaSame DEF FailPhase
  <2>7. phase' \in [Phases -> PhaseStatus]
    BY <1>7 DEF FailPhase, Mark, TypeOK, PhaseStatus
  <2>8. TypeOK'
    BY <1>7, <2>4, <2>7, TypeKept DEF FailPhase, TypeOK
  <2>9. QED
    BY <2>5, <2>6, <2>8
<1>8. CASE PhaseCompensated(w)
  <2>1. /\ thread' \in [Threads -> ThreadState]
        /\ thread'[w].pc = "next"
        /\ \A u \in Threads \ {w} : thread'[u] = thread[u]
    BY <1>0, <1>8, ProceedMoves DEF PhaseCompensated
  <2>2. ThreadInv'
    BY <1>8, <2>1, WorkerStep DEF PhaseCompensated, Placed, InPhase, Driving
  <2>3. undo' = [by |-> Nobody, todo |-> {}] /\ undo'.todo = {}
    BY <1>8 DEF PhaseCompensated, EndUndo
  <2>4. SagaInv'
    BY <1>8, <2>3, SagaSame DEF PhaseCompensated
  <2>5. TypeOK'
    BY <1>8, <2>1, <2>3, TypeKept DEF PhaseCompensated, TypeOK
  <2>6. QED
    BY <2>2, <2>4, <2>5
<1>9. CASE Conclude(w)
  <2>1. /\ thread' \in [Threads -> ThreadState]
        /\ thread'[w].pc = "idle"
        /\ \A u \in Threads \ {w} : thread'[u] = thread[u]
    BY <1>0, <1>9, RestingState, PutMoves DEF Conclude
  <2>2. engine = Nobody /\ status' \in {"completed", "failed", "cancelled"}
    BY <1>9 DEF Conclude, Verdict
  <2>3. ThreadInv'
    BY <1>9, <2>1, <2>2, WorkerStep DEF Conclude, Placed, InPhase
  <2>4. SagaInv'
    BY <1>9, SagaSame DEF Conclude
  <2>5. TypeOK'
    BY <1>9, <2>1, <2>2, TypeKept DEF Conclude, TypeOK, CampaignStatus, Terminal
  <2>6. QED
    BY <2>3, <2>4, <2>5
<1>10. CASE Abort(w)
  <2> DEFINE th == IF options.compensate THEN [Resting EXCEPT !.pc = "withdraw"] ELSE Resting
  <2>1. thread' = [thread EXCEPT ![w] = th]
    BY <1>10 DEF Abort
  <2>2. th \in ThreadState /\ th.pc \in {"withdraw", "idle"}
    BY RestingState DEF PC
  <2> HIDE DEF th
  <2>3. /\ thread' \in [Threads -> ThreadState]
        /\ thread'[w] = th
        /\ \A u \in Threads \ {w} : thread'[u] = thread[u]
    BY <1>0, <2>1, <2>2, PutMoves
  <2>4. ThreadInv'
    BY <1>10, <2>2, <2>3, WorkerStep DEF Abort, Placed, InPhase
  <2>5. SagaInv'
    BY <1>10, SagaSame DEF Abort
  <2>6. TypeOK'
    BY <1>10, <2>3, TypeKept DEF Abort, TypeOK, CampaignStatus, Terminal
  <2>7. QED
    BY <2>4, <2>5, <2>6
<1>11. CASE Withdrawn(w)
  <2>1. /\ thread' \in [Threads -> ThreadState]
        /\ thread'[w].pc = "idle"
        /\ \A u \in Threads \ {w} : thread'[u] = thread[u]
    BY <1>0, <1>11, RestingState, PutMoves DEF Withdrawn
  <2>2. ~Driving(thread[w])
    BY <1>11 DEF Withdrawn, Driving
  <2>3. ThreadInv'
    BY <1>11, <2>1, <2>2, WorkerStep DEF Withdrawn, Placed, InPhase
  <2>4. undo' = [by |-> Nobody, todo |-> {}] /\ undo'.todo = {}
    BY <1>11 DEF Withdrawn, EndUndo
  <2>5. SagaInv'
    BY <1>11, <2>4, SagaSame DEF Withdrawn
  <2>6. TypeOK'
    BY <1>11, <2>1, <2>4, TypeKept DEF Withdrawn, TypeOK
  <2>7. QED
    BY <2>3, <2>5, <2>6
<1>12. QED
  BY <1>1, <1>2, <1>3, <1>4, <1>5, <1>6, <1>7, <1>8, <1>9, <1>10, <1>11 DEF Execute

\* The healing of a phase.
LEMMA HealKeeps ==
  ASSUME CampaignInv, NEW w \in Workers, Heal(w)
  PROVE  CampaignInv'
<1> USE DEF CampaignInv
<1>0. w \in Threads /\ thread \in [Threads -> ThreadState] /\ thread[w] \in ThreadState
  BY DEF TypeOK, Threads
<1>p. Placed(thread[w])
  BY <1>0 DEF ThreadInv
<1>a. thread[w].pc \in InPhase /\ thread[w].at \in Phases
  <2>1. thread[w].pc \in InPhase
    BY DEF Heal, BeginHealing, SayRecovering, CountAttempt, Diagnose, RolledBack, RetryPhase,
           ResumeCampaign, InPhase
  <2>2. QED
    BY <2>1, <1>p DEF Placed
<1>1. CASE BeginHealing(w) \/ RetryPhase(w)
  <2>1. PICK c \in {"recovering", "resume"} : Goto(w, c)
    BY <1>1 DEF BeginHealing, RetryPhase
  <2>2. /\ thread' \in [Threads -> ThreadState]
        /\ thread'[w].pc = c /\ thread'[w].at = thread[w].at
        /\ \A u \in Threads \ {w} : thread'[u] = thread[u]
    BY <1>0, <2>1, GotoMoves DEF PC
  <2>3. ThreadInv'
    BY <1>1, <1>a, <2>2, WorkerStep DEF BeginHealing, RetryPhase, Placed, Driving
  <2>4. SagaInv'
    BY <1>1, SagaSame DEF BeginHealing, RetryPhase
  <2>5. phase' \in [Phases -> PhaseStatus]
    BY <1>1 DEF BeginHealing, RetryPhase, Mark, TypeOK, PhaseStatus
  <2>6. TypeOK'
    BY <1>1, <2>2, <2>5, TypeKept DEF BeginHealing, RetryPhase, TypeOK
  <2>7. QED
    BY <2>3, <2>4, <2>6
<1>2. CASE SayRecovering(w)
  <2>1. /\ thread' \in [Threads -> ThreadState]
        /\ thread'[w].pc = "heal" /\ thread'[w].at = thread[w].at
        /\ \A u \in Threads \ {w} : thread'[u] = thread[u]
    BY <1>0, <1>2, GotoMoves DEF SayRecovering, PC
  <2>2. ThreadInv'
    BY <1>2, <1>a, <2>1, WorkerStep DEF SayRecovering, Placed, Driving
  <2>3. SagaInv'
    BY <1>2, SagaSame DEF SayRecovering
  <2>4. TypeOK'
    BY <1>2, <2>1, TypeKept DEF SayRecovering, TypeOK, CampaignStatus
  <2>5. QED
    BY <2>2, <2>3, <2>4
<1>3. CASE CountAttempt(w) \/ Diagnose(w)
  <2>1. PICK c \in {"recovered", "failed", "diagnose", "rollback"} : Goto(w, c)
    BY <1>3 DEF CountAttempt, Diagnose, Healed
  <2>2. /\ thread' \in [Threads -> ThreadState]
        /\ thread'[w].pc = c /\ thread'[w].at = thread[w].at
        /\ \A u \in Threads \ {w} : thread'[u] = thread[u]
    BY <1>0, <2>1, GotoMoves DEF PC
  <2>3. ThreadInv'
    BY <1>3, <1>a, <2>2, WorkerStep DEF CountAttempt, Diagnose, Placed, Driving
  <2>4. SagaInv'
    BY <1>3, SagaSame DEF CountAttempt, Diagnose
  <2>5. attempts' \in [Phases -> 0..MaxAttempts]
    <3>1. attempts \in [Phases -> 0..MaxAttempts] /\ MaxAttempts \in Nat
      BY CampaignsAssumption DEF TypeOK
    <3>2. attempts[thread[w].at] < MaxAttempts =>
            attempts[thread[w].at] + 1 \in 0..MaxAttempts
      BY <3>1, <1>a
    <3>3. CASE Diagnose(w)
      BY <3>1, <3>3 DEF Diagnose
    <3>4. CASE CountAttempt(w)
      BY <3>1, <3>2, <3>4, <1>a DEF CountAttempt
    <3>5. QED
      BY <1>3, <3>3, <3>4
  <2>6. unhealed' \subseteq Phases
    BY <1>3, <1>a DEF CountAttempt, Diagnose, Healed, TypeOK
  <2>7. TypeOK'
    BY <1>3, <2>2, <2>5, <2>6, TypeKept DEF CountAttempt, Diagnose, TypeOK
  <2>8. QED
    BY <2>3, <2>4, <2>7
<1>4. CASE RolledBack(w)
  <2>1. /\ thread' \in [Threads -> ThreadState]
        /\ thread'[w].pc = "failed" /\ thread'[w].at = thread[w].at
        /\ \A u \in Threads \ {w} : thread'[u] = thread[u]
    BY <1>0, <1>4, GotoMoves DEF RolledBack, Healed, PC
  <2>2. ThreadInv'
    BY <1>4, <1>a, <2>1, WorkerStep DEF RolledBack, Placed, Driving
  <2>3. undo' = [by |-> Nobody, todo |-> {}] /\ undo'.todo = {}
    BY <1>4 DEF RolledBack, EndUndo
  <2>4. SagaInv'
    BY <1>4, <2>3, SagaSame DEF RolledBack
  <2>5. unhealed' \subseteq Phases
    BY <1>4, <1>a DEF RolledBack, Healed, TypeOK
  <2>6. TypeOK'
    BY <1>4, <2>1, <2>3, <2>5, TypeKept DEF RolledBack, TypeOK
  <2>7. QED
    BY <2>2, <2>4, <2>6
<1>5. CASE ResumeCampaign(w)
  <2>1. thread[w].ready \in SUBSET Phases
    BY <1>0 DEF ThreadState
  <2>2. /\ thread' \in [Threads -> ThreadState]
        /\ thread'[w].pc = "next"
        /\ \A u \in Threads \ {w} : thread'[u] = thread[u]
    BY <1>0, <1>5, <2>1, ProceedMoves DEF ResumeCampaign
  <2>3. ThreadInv'
    BY <1>5, <2>2, WorkerStep DEF ResumeCampaign, Placed, InPhase, Driving
  <2>4. SagaInv'
    BY <1>5, SagaSame DEF ResumeCampaign
  <2>5. TypeOK'
    BY <1>5, <2>2, TypeKept DEF ResumeCampaign, TypeOK, CampaignStatus
  <2>6. QED
    BY <2>3, <2>4, <2>5
<1>6. QED
  BY <1>1, <1>2, <1>3, <1>4, <1>5 DEF Heal

\* The steps of a compensation.
LEMMA UndoingKeeps ==
  ASSUME CampaignInv, NEW t \in Threads, Undo(t)
  PROVE  CampaignInv'
<1> USE DEF CampaignInv
<1>1. CASE UndoStep(t)
  <2>1. ThreadInv'
    BY <1>1 DEF UndoStep, ThreadInv, Locked, Driven
  <2>2. QED
    BY <1>1, <2>1, UndoKeeps
<1>2. CASE CompensatePhase(t) \/ CompensateAll(t)
  <2>1. PICK S : BeginUndo(t, S)
    BY <1>2 DEF CompensatePhase, CompensateAll
  <2>2. /\ SagaInv'
        /\ undo' \in [by : Threads \cup {Nobody},
                      todo : SUBSET [at : 1..Len(log), id : StepIds]]
    BY <1>2, <2>1, SagaBegun DEF CompensatePhase, CompensateAll
  <2>3. ThreadInv'
    BY <1>2 DEF CompensatePhase, CompensateAll, ThreadInv, Locked, Driven
  <2>4. TypeOK'
    BY <1>2, <2>2, TypeKept DEF CompensatePhase, CompensateAll, TypeOK
  <2>5. QED
    BY <2>2, <2>3, <2>4
<1>3. QED
  BY <1>1, <1>2 DEF Undo

\* A worker begins.
LEMMA EnterKeeps ==
  ASSUME CampaignInv, NEW w \in Workers, Enter(w)
  PROVE  CampaignInv'
<1> USE DEF CampaignInv
<1>0. w \in Threads /\ thread \in [Threads -> ThreadState]
  BY DEF TypeOK, Threads
<1>1. /\ thread' \in [Threads -> ThreadState]
      /\ thread'[w].pc = "next"
      /\ \A u \in Threads \ {w} : thread'[u] = thread[u]
  BY <1>0, RestingState, PutMoves DEF Enter, PC
<1>2. ThreadInv'
  BY <1>1, WorkerStep DEF Enter, Call, Placed, InPhase, Driving
<1>3. SagaInv'
  BY SagaSame DEF Enter
<1>4. calls' \in 0..MaxCalls
  BY CampaignsAssumption DEF Enter, Call, TypeOK
<1>5. TypeOK'
  <2>1. overlap' \in BOOLEAN
    BY DEF Enter, TypeOK
  <2>2. QED
    BY <1>1, <1>4, <2>1, TypeKept DEF Enter, TypeOK, CampaignStatus
<1>6. QED
  BY <1>2, <1>3, <1>5

\* An operator cancels, begins to roll back, or has compensated.
LEMMA OperatorKeeps ==
  ASSUME CampaignInv, NEW o \in Operators, Cancel(o) \/ Rollback(o) \/ OperatorDone(o)
  PROVE  CampaignInv'
<1> USE DEF CampaignInv
<1>0. o \in Threads /\ thread \in [Threads -> ThreadState]
  BY DEF TypeOK, Threads
<1>1. \A w \in Workers : w \in Threads \ {o}
  BY CampaignsAssumption DEF Threads
<1>2. Nobody \notin Operators
  BY CampaignsAssumption
<1>3. CASE Cancel(o)
  <2>1. /\ thread' \in [Threads -> ThreadState]
        /\ thread' = thread \/ (engine' = o /\ thread'[o].pc = "cancel")
        /\ \A u \in Threads \ {o} : thread'[u] = thread[u]
    BY <1>0, <1>3, GotoMoves DEF Cancel, PC
  <2>2. engine = Nobody /\ engine' \in {o, Nobody} /\ status' = "cancelled"
        /\ (thread' = thread \/ engine' = o)
    BY <1>3 DEF Cancel, Call
  <2>3. ThreadInv'
    <3>1. \A t \in Threads : Placed(thread'[t])
      BY <2>1, <1>0 DEF ThreadInv, Placed, InPhase
    <3>2. Locked'
      <4>1. \A u \in Operators : ~Commanding(thread[u])
        BY <1>2, <2>2 DEF ThreadInv, Locked
      <4>2. QED
        BY <2>1, <2>2, <4>1 DEF Locked, Threads
    <3>3. Driven'
      BY <2>2 DEF Driven
    <3>4. QED
      BY <3>1, <3>2, <3>3 DEF ThreadInv
  <2>4. SagaInv'
    BY <1>3, SagaSame DEF Cancel
  <2>5. calls' \in 0..MaxCalls
    BY <1>3, CampaignsAssumption DEF Cancel, Call, TypeOK
  <2>6. TypeOK'
    BY <1>3, <2>1, <2>2, <2>5, TypeKept DEF Cancel, TypeOK, CampaignStatus, Terminal
  <2>7. QED
    BY <2>3, <2>4, <2>6
<1>4. CASE Rollback(o)
  <2>1. /\ thread' \in [Threads -> ThreadState]
        /\ thread'[o].pc = "restore"
        /\ \A u \in Threads \ {o} : thread'[u] = thread[u]
    BY <1>0, <1>4, GotoMoves DEF Rollback, PC
  <2>2. engine = Nobody /\ engine' = o /\ status' = "compensating"
    BY <1>4 DEF Rollback, Call
  <2>3. ThreadInv'
    <3>1. \A t \in Threads : Placed(thread'[t])
      BY <2>1, <1>0 DEF ThreadInv, Placed, InPhase
    <3>2. Locked'
      <4>1. \A u \in Operators : ~Commanding(thread[u])
        BY <1>2, <2>2 DEF ThreadInv, Locked
      <4>2. QED
        BY <2>1, <2>2, <4>1 DEF Locked, Threads
    <3>3. Driven'
      BY <2>2 DEF Driven
    <3>4. QED
      BY <3>1, <3>2, <3>3 DEF ThreadInv
  <2>4. SagaInv'
    BY <1>4, SagaSame DEF Rollback
  <2>5. calls' \in 0..MaxCalls
    BY <1>4, CampaignsAssumption DEF Rollback, Call, TypeOK
  <2>6. TypeOK'
    BY <1>4, <2>1, <2>2, <2>5, TypeKept DEF Rollback, TypeOK, CampaignStatus
  <2>7. QED
    BY <2>3, <2>4, <2>6
<1>5. CASE OperatorDone(o)
  <2>1. /\ thread' \in [Threads -> ThreadState]
        /\ thread'[o].pc = "idle"
        /\ \A u \in Threads \ {o} : thread'[u] = thread[u]
    BY <1>0, <1>5, GotoMoves DEF OperatorDone, PC
  <2>2. engine = o /\ engine' = Nobody
    BY <1>5 DEF OperatorDone, ThreadInv, Locked, Commanding
  <2>3. status' \in CampaignStatus /\ status' \in {status, "failed"} /\ status' # "compensating"
    BY <1>5, <2>2 DEF OperatorDone, ThreadInv, Locked, TypeOK, CampaignStatus, Terminal
  <2>4. ThreadInv'
    <3>1. \A t \in Threads : Placed(thread'[t])
      BY <2>1, <1>0 DEF ThreadInv, Placed, InPhase
    <3>2. Locked'
      <4>1. \A u \in Operators \ {o} : ~Commanding(thread[u])
        BY <2>2 DEF ThreadInv, Locked
      <4>2. \A u \in Operators : ~Commanding(thread'[u])
        BY <2>1, <4>1 DEF Commanding, Threads
      <4>3. QED
        BY <2>3, <4>2 DEF Locked
    <3>3. Driven'
      <4> SUFFICES ASSUME status' \in {"running", "recovering"}
                   PROVE  \E w \in Workers : Driving(thread'[w])
        BY DEF Driven
      <4>1. PICK w \in Workers : Driving(thread[w])
        BY <2>3 DEF ThreadInv, Driven
      <4>2. QED
        BY <2>1, <4>1, <1>1
    <3>4. QED
      BY <3>1, <3>2, <3>3 DEF ThreadInv
  <2>5. undo' = [by |-> Nobody, todo |-> {}] /\ undo'.todo = {}
    BY <1>5 DEF OperatorDone, EndUndo
  <2>6. SagaInv'
    BY <1>5, <2>5, SagaSame DEF OperatorDone
  <2>7. TypeOK'
    BY <1>5, <2>1, <2>2, <2>3, <2>5, TypeKept DEF OperatorDone, TypeOK
  <2>8. QED
    BY <2>4, <2>6, <2>7
<1>6. QED
  BY <1>3, <1>4, <1>5

-----------------------------------------------------------------------------
LEMMA InitInv == Init => CampaignInv
<1> SUFFICES ASSUME Init PROVE CampaignInv
  OBVIOUS
<1>1. MaxSteps \in Nat /\ MaxAttempts \in Nat /\ MaxCalls \in Nat
      /\ options \in [heal : BOOLEAN, compensate : BOOLEAN]
  BY CampaignsAssumption DEF Init
<1>2. log \in Seq(SagaStep) /\ recorded \in Seq(Phases) /\ Len(recorded) = 0 /\ DOMAIN log = {}
  BY EmptySeq DEF Init
<1>3. thread \in [Threads -> ThreadState] /\ \A t \in Threads : thread[t].pc = "idle"
  BY RestingState DEF Init
<1>4. undo = [by |-> Nobody, todo |-> {}] /\ undo.todo = {}
  BY DEF Init
<1>5. TypeOK
  <2>1. undone \in [1..MaxSteps -> Nat] /\ attempts \in [Phases -> 0..MaxAttempts]
    BY <1>1 DEF Init
  <2>2. phase \in [Phases -> PhaseStatus] /\ unhealed \subseteq Phases
    BY DEF Init, PhaseStatus
  <2>3. undo \in [by : Threads \cup {Nobody}, todo : SUBSET [at : 1..Len(log), id : StepIds]]
    BY <1>4
  <2>4. status \in CampaignStatus /\ engine \in Operators \cup {Nobody} /\ calls \in 0..MaxCalls
    <3>1. calls = 0 /\ status = "scheduled" /\ engine = Nobody
      BY DEF Init
    <3>2. QED
      BY <1>1, <3>1 DEF CampaignStatus
  <2>5. overlap \in BOOLEAN /\ withdrawn \in BOOLEAN
    BY Zenon DEF Init
  <2>6. Len(recorded) <= MaxSteps
    BY <1>1, <1>2
  <2>7. QED
    BY <1>1, <1>2, <1>3, <2>1, <2>2, <2>3, <2>4, <2>5, <2>6 DEF TypeOK
<1>6. ThreadInv
  BY <1>3 DEF Init, ThreadInv, Placed, InPhase, Locked, Commanding, Driven, Threads
<1>7. SagaInv
  BY <1>1, <1>2, <1>4 DEF Init, SagaInv, LogDistinct, LogSettled, TodoSettled, UndoneBound
<1>8. QED
  BY <1>5, <1>6, <1>7 DEF CampaignInv

LEMMA NextKeeps == CampaignInv /\ [Next]_vars => CampaignInv'
<1> SUFFICES ASSUME CampaignInv, [Next]_vars PROVE CampaignInv'
  OBVIOUS
<1>1. ASSUME NEW w \in Workers, Enter(w) \/ Execute(w) \/ Heal(w)
      PROVE  CampaignInv'
  BY <1>1, EnterKeeps, ExecuteKeeps, HealKeeps
<1>2. ASSUME NEW o \in Operators, Cancel(o) \/ Rollback(o) \/ OperatorDone(o)
      PROVE  CampaignInv'
  BY <1>2, OperatorKeeps
<1>3. ASSUME NEW t \in Threads, Undo(t)
      PROVE  CampaignInv'
  BY <1>3, UndoingKeeps
<1>4. ASSUME UNCHANGED vars
      PROVE  CampaignInv'
  BY <1>4 DEF vars, CampaignInv, TypeOK, StepIds, SagaStep, ThreadInv, Locked, Driven,
     SagaInv, LogDistinct, LogSettled, TodoSettled, UndoneBound
<1>5. QED
  BY <1>1, <1>2, <1>3, <1>4 DEF Next

\* The invariant that carries the others.
THEOREM CampaignsInductive == Spec => []CampaignInv
<1>1. QED
  BY InitInv, NextKeeps, PTL DEF Spec

\* Every variable keeps its type: the log names recorded steps only, and a
\* compensation only steps that are in the log or were lost from it.
THEOREM CampaignsTypeCorrect == Spec => []TypeOK
<1>1. CampaignInv => TypeOK
  BY DEF CampaignInv
<1>2. QED
  BY <1>1, CampaignsInductive, PTL

\* No step is undone a second time, however many threads compensate and whatever the
\* log has lost.
THEOREM CampaignsUndoneOnce == Spec => []UndoneOnce
<1>1. CampaignInv => UndoneOnce
  <2> SUFFICES ASSUME CampaignInv, NEW i \in StepIds PROVE undone[i] <= 1
    BY DEF UndoneOnce
  <2>1. i \in 1..MaxSteps
    BY CampaignsAssumption DEF CampaignInv, TypeOK, StepIds
  <2>2. QED
    BY <2>1 DEF CampaignInv, SagaInv, UndoneBound
<1>2. QED
  BY <1>1, CampaignsInductive, PTL

\* A campaign that says it is running, recovering or compensating has a thread at it.
THEOREM CampaignsRunningIsDriven == Spec => []RunningIsDriven
<1>1. CampaignInv => RunningIsDriven
  <2> SUFFICES ASSUME CampaignInv PROVE RunningIsDriven
    OBVIOUS
  <2>1. status \in {"running", "recovering"} => \E w \in Workers : Active(w)
    BY DEF CampaignInv, ThreadInv, Driven, Driving, Active
  <2>2. status = "compensating" => \E o \in Operators : thread[o].pc = "restore"
    BY DEF CampaignInv, ThreadInv, Locked
  <2>3. QED
    BY <2>1, <2>2 DEF RunningIsDriven
<1>2. QED
  BY <1>1, CampaignsInductive, PTL

-----------------------------------------------------------------------------
(* Effects and phases: what one worker knows while it has the campaign to  *)
(* itself.                                                                 *)

Calm == ~overlap /\ ~withdrawn

Present(i) == \E n \in DOMAIN log : log[n].id = i
Live(i)    == \E n \in DOMAIN log : log[n].id = i /\ log[n].status = "forward_executed"

\* The phases a worker has before it are pending, the one it is in has not ended
\* unless it failed and is being compensated, and between phases it is in none.
Tidy(th) ==
  /\ \A p \in th.ready : phase[p] = "pending" /\ p # th.at
  /\ th.pc \in {"idle", "next", "verdict", "withdraw"} => th.at = Nobody
  /\ th.pc = "idle" => th.ready = {}
  /\ th.at # Nobody =>
       phase[th.at] # "completed" /\ (phase[th.at] = "failed" => th.pc = "compensate")

\* A worker counts the goals whose effects are in force.
Progress(th) ==
  th.at # Nobody /\ Remembered(th.at) =>
    /\ th.pc = "goals" => Cardinality(InForce(th.at)) >= th.goal
    /\ th.pc = "completed" => Cardinality(InForce(th.at)) >= GoalsOf[th.at]

\* The worker that compensates undoes steps of its own phase that are in the log, and,
\* when it compensates a failed phase, leaves none out.
Undoing ==
  undo.by # Nobody =>
    /\ undo.by \in Workers /\ thread[undo.by].pc \in {"compensate", "rollback"}
    /\ \A s \in undo.todo : recorded[s.id] = thread[undo.by].at /\ Present(s.id)
    /\ thread[undo.by].pc = "compensate" =>
         \A i \in InForce(thread[undo.by].at) : \E s \in undo.todo : s.id = i

\* EffectsMatchPhases for one phase.
Kept(p) ==
  Remembered(p) =>
    /\ phase[p] = "completed" => Cardinality(InForce(p)) >= GoalsOf[p]
    /\ phase[p] = "failed" /\ options.compensate /\ (\A w \in Workers : thread[w].at # p)
         => InForce(p) = {}

Alone == \A v, w \in Workers : Active(v) /\ Active(w) => v = w

CalmInv ==
  /\ Alone /\ Undoing
  /\ \A w \in Workers : Tidy(thread[w]) /\ Progress(thread[w])
  /\ \A p \in Phases : Kept(p)

EffectInv ==
  /\ \A o \in Operators : thread[o].pc \in {"idle", "cancel", "restore"}
  /\ Calm => CalmInv

\* What StatusOf chooses: the entry of a step is the only one.
LEMMA StatusFacts ==
  ASSUME CampaignInv, NEW i
  PROVE  /\ StatusOf(i) = "lost" <=> ~Present(i)
         /\ StatusOf(i) = "forward_executed" <=> Live(i)
<1> DEFINE at == {n \in DOMAIN log : log[n].id = i}
<1>1. \A n \in DOMAIN log : log[n].status \in StepStatus
  <2>1. \A n \in DOMAIN log : log[n] \in SagaStep
    BY ElementOfSeq DEF CampaignInv, TypeOK
  <2>2. QED
    BY <2>1 DEF SagaStep
<1>2. CASE at = {}
  BY <1>2 DEF StatusOf, Present, Live
<1>3. CASE at # {}
  <2>1. PICK n \in at : n = CHOOSE m \in at : TRUE
    BY <1>3
  <2>2. \A m \in at : m = n
    BY <2>1 DEF CampaignInv, SagaInv, LogDistinct
  <2>3. StatusOf(i) = log[n].status
    BY <1>3, <2>1 DEF StatusOf
  <2>4. Present(i) /\ (Live(i) <=> log[n].status = "forward_executed")
    BY <2>1, <2>2 DEF Present, Live
  <2>5. log[n].status # "lost"
    BY <1>1, <2>1 DEF StepStatus
  <2>6. QED
    BY <2>3, <2>4, <2>5
<1>4. QED
  BY <1>2, <1>3

\* The two sets of steps in terms of the log's entries.
ForceSeen ==
  \A p \in Phases :
    /\ InForce(p) = {i \in StepIds : recorded[i] = p /\ undone[i] = 0 /\ Live(i)}
    /\ Remembered(p) <=> \A i \in StepIds : recorded[i] = p => Present(i)

LEMMA ForceIsSeen == CampaignInv => ForceSeen
BY StatusFacts DEF ForceSeen, InForce, Remembered

LEMMA ForceIsSeenNext == CampaignInv' => ForceSeen'
BY ForceIsSeen, PTL

LEMMA InForceFinite ==
  ASSUME TypeOK, NEW p
  PROVE  IsFiniteSet(InForce(p)) /\ Cardinality(InForce(p)) \in Nat
<1>1. IsFiniteSet(StepIds)
  BY FS_Interval DEF StepIds, TypeOK
<1>2. InForce(p) \subseteq StepIds
  BY DEF InForce
<1>3. QED
  BY <1>1, <1>2, FS_Subset, FS_CardinalityType

\* The saga is left alone.
LEMMA InForceSame ==
  ASSUME UNCHANGED <<log, recorded, undone>>, NEW p
  PROVE  InForce(p)' = InForce(p) /\ Remembered(p)' = Remembered(p)
BY DEF InForce, Remembered, StatusOf, StepIds

\* A step of the only worker that leaves the saga alone: the phase it is in, or was in,
\* is the only one it may change, and it keeps that in order.
LEMMA QuietStep ==
  ASSUME CampaignInv, EffectInv, Calm, NEW w \in Workers, Active(w),
         UNCHANGED <<options, log, recorded, undone, overlap, withdrawn>>,
         \A u \in Threads \ {w} : thread'[u] = thread[u],
         \A p \in Phases \ {thread[w].at, thread'[w].at} : phase'[p] = phase[p],
         undo' = undo \/ undo'.by = Nobody,
         thread[w].pc \in {"compensate", "rollback"} => undo'.by = Nobody,
         \A p \in Phases : p = thread[w].at /\ p # thread'[w].at => Kept(p)',
         Tidy(thread[w])', Progress(thread[w])'
  PROVE  EffectInv'
<1>0. CalmInv /\ (\A o \in Operators : thread[o].pc \in {"idle", "cancel", "restore"})
  BY DEF EffectInv
<1>1. \A v \in Workers : v # w => v \in Threads \ {w} /\ ~Active(v)
  BY <1>0 DEF CalmInv, Alone, Threads
<1>2. \A v \in Workers : v # w => thread'[v] = thread[v] /\ thread[v].pc = "idle"
                                  /\ thread[v].at = Nobody /\ thread[v].ready = {}
  BY <1>0, <1>1 DEF CalmInv, Active, Tidy
<1>3. \A o \in Operators : thread'[o] = thread[o]
  BY CampaignsAssumption DEF Threads
<1>4. Alone'
  BY <1>2 DEF Alone, Active
<1>5. undo'.by = Nobody
  <2>1. undo.by # Nobody => undo.by = w
    BY <1>0, <1>2 DEF CalmInv, Undoing
  <2>2. undo.by = w => thread[w].pc \in {"compensate", "rollback"}
    BY <1>0, CampaignsAssumption DEF CalmInv, Undoing
  <2>3. QED
    BY <2>1, <2>2
<1>6. Undoing'
  BY <1>5 DEF Undoing
<1>7. ASSUME NEW v \in Workers PROVE Tidy(thread[v])' /\ Progress(thread[v])'
  <2>1. CASE v = w
    BY <2>1
  <2>2. CASE v # w
    BY <1>2, <2>2 DEF Tidy, Progress
  <2>3. QED
    BY <2>1, <2>2
<1>8. ASSUME NEW p \in Phases PROVE Kept(p)'
  <2>0. p # Nobody
    BY CampaignsAssumption
  <2>1. CASE p = thread'[w].at
    <3>1. phase'[p] # "completed" /\ ~(\A v \in Workers : thread'[v].at # p)
      BY <2>0, <2>1 DEF Tidy
    <3>2. QED
      BY <3>1 DEF Kept
  <2>2. CASE p = thread[w].at /\ p # thread'[w].at
    BY <2>2
  <2>3. CASE p \notin {thread[w].at, thread'[w].at}
    <3>1. phase'[p] = phase[p] /\ options' = options
      BY <2>3
    <3>2. InForce(p)' = InForce(p) /\ Remembered(p)' = Remembered(p)
      BY InForceSame
    <3>3. \A v \in Workers : thread[v].at # p
      BY <1>2, <2>0, <2>3
    <3>4. Kept(p)
      BY <1>0 DEF CalmInv
    <3>5. QED
      BY <3>1, <3>2, <3>3, <3>4 DEF Kept
  <2>4. QED
    BY <2>1, <2>2, <2>3
<1>9. QED
  BY <1>0, <1>3, <1>4, <1>6, <1>7, <1>8 DEF EffectInv, CalmInv

\* The same for a point of a phase that is not left: only the phase's status may
\* change, and not to one of an ended phase.
LEMMA PhaseStep ==
  ASSUME CampaignInv, EffectInv, Calm, NEW w \in Workers, Active(w),
         NEW pc \in PC \ {"goals", "idle", "next", "withdraw"}, Goto(w, pc),
         UNCHANGED <<options, log, recorded, undone, overlap, withdrawn>>,
         undo' = undo \/ undo'.by = Nobody,
         thread[w].pc = "rollback" => undo'.by = Nobody,
         thread[w].pc # "compensate",
         pc = "verdict" => thread[w].at = Nobody,
         \/ phase' = phase
         \/ \E s \in {"pending", "healing"} : thread[w].at \in Phases /\ Mark(thread[w].at, s),
         pc = "completed" => GoalsDone(w)
  PROVE  EffectInv'
<1> DEFINE p == thread[w].at
<1>0. /\ w \in Threads /\ thread \in [Threads -> ThreadState] /\ phase \in [Phases -> PhaseStatus]
      /\ thread[w] \in ThreadState
  BY DEF CampaignInv, TypeOK, Threads
<1>1. /\ \A u \in Threads \ {w} : thread'[u] = thread[u]
      /\ thread'[w].pc = pc /\ thread'[w].at = p
      /\ thread'[w].ready = thread[w].ready /\ thread'[w].goal = thread[w].goal
  BY <1>0 DEF Goto, ThreadState
<1>2. Tidy(thread[w]) /\ Progress(thread[w])
  BY DEF EffectInv, CalmInv
<1>3. \A q \in Phases \ {p} : phase'[q] = phase[q]
  BY <1>0 DEF Mark
<1>4. p \in Phases \cup {Nobody} /\ thread[w].ready \subseteq Phases
  BY <1>0 DEF ThreadState
<1>5. p # Nobody => phase'[p] \notin {"completed", "failed"}
  BY <1>0, <1>2, <1>4 DEF Tidy, Mark
<1>6. Tidy(thread[w])'
  BY <1>1, <1>2, <1>3, <1>4, <1>5 DEF Tidy
<1>7. Progress(thread[w])'
  <2> SUFFICES ASSUME p # Nobody, Remembered(p)', pc = "completed"
               PROVE  Cardinality(InForce(p)') >= GoalsOf[p]
    BY <1>1 DEF Progress
  <2>1. InForce(p)' = InForce(p) /\ Remembered(p)' = Remembered(p)
    BY InForceSame DEF InForce, Remembered, StatusOf, StepIds, Goto
  <2>2. Cardinality(InForce(p)) >= thread[w].goal /\ thread[w].goal >= GoalsOf[p]
    BY <1>2, <2>1 DEF Progress, GoalsDone
  <2>3. Cardinality(InForce(p)) \in Nat /\ thread[w].goal \in Nat /\ GoalsOf[p] \in Nat
    BY <1>0, <1>4, InForceFinite, CampaignsAssumption DEF CampaignInv, ThreadState
  <2>4. QED
    BY <2>1, <2>2, <2>3
<1>8. QED
  BY <1>1, <1>3, <1>6, <1>7, QuietStep

\* The worker leaves its phase, or moves between phases.
LEMMA LeaveStep ==
  ASSUME CampaignInv, EffectInv, Calm, NEW w \in Workers, Active(w),
         NEW th \in ThreadState, thread' = [thread EXCEPT ![w] = th], th.at = Nobody,
         th.ready \subseteq Phases, \A q \in th.ready : phase'[q] = "pending",
         th.pc = "idle" => th.ready = {},
         UNCHANGED <<options, log, recorded, undone, overlap, withdrawn>>,
         \A q \in Phases \ {thread[w].at} : phase'[q] = phase[q],
         undo' = undo \/ undo'.by = Nobody,
         thread[w].pc \in {"compensate", "rollback"} => undo'.by = Nobody,
         \A p \in Phases : p = thread[w].at => Kept(p)'
  PROVE  EffectInv'
<1>0. w \in Threads /\ thread \in [Threads -> ThreadState]
  BY DEF CampaignInv, TypeOK, Threads
<1>1. thread'[w] = th /\ \A u \in Threads \ {w} : thread'[u] = thread[u]
  BY <1>0
<1>2. Nobody \notin Phases
  BY CampaignsAssumption
<1>3. Tidy(thread[w])' /\ Progress(thread[w])'
  BY <1>1, <1>2 DEF Tidy, Progress
<1>4. QED
  BY <1>1, <1>3, QuietStep

\* Where a worker is in a phase that has not ended.
LEMMA PhaseHasNotEnded ==
  ASSUME EffectInv, Calm, NEW w \in Workers, thread[w].pc # "compensate",
         NEW p \in Phases, p = thread[w].at
  PROVE  phase[p] \notin {"completed", "failed"}
BY CampaignsAssumption DEF EffectInv, CalmInv, Tidy

LEMMA ExecuteMatches ==
  ASSUME CampaignInv, EffectInv, Calm, NEW w \in Workers, Execute(w), ~RunGoal(w)
  PROVE  EffectInv'
<1>0. /\ w \in Threads /\ thread \in [Threads -> ThreadState] /\ thread[w] \in ThreadState
      /\ phase \in [Phases -> PhaseStatus] /\ Placed(thread[w])
  BY DEF CampaignInv, TypeOK, Threads, ThreadInv
<1>1. Tidy(thread[w]) /\ Progress(thread[w]) /\ Undoing
  BY DEF EffectInv, CalmInv
<1>2. thread[w].ready \subseteq Phases /\ thread[w].at \in Phases \cup {Nobody}
  BY <1>0 DEF ThreadState
<1>3. Nobody \notin Phases
  BY CampaignsAssumption
<1>4. Resting \in ThreadState /\ Resting.at = Nobody /\ Resting.ready = {} /\ Resting.pc = "idle"
  BY RestingState DEF Resting
<1>10. CASE Discover(w)
  <2> DEFINE th == [thread[w] EXCEPT !.pc = "next", !.ready = Ready, !.at = Nobody]
  <2>1. thread' = [thread EXCEPT ![w] = th]
    BY <1>10 DEF Discover, Proceed
  <2>2. Ready \subseteq Phases /\ \A q \in Ready : phase[q] = "pending"
    BY DEF Ready
  <2>3. th \in ThreadState /\ th.at = Nobody /\ th.ready = Ready /\ th.pc = "next"
    BY <1>0, <2>2 DEF ThreadState, PC
  <2> HIDE DEF th
  <2>4. /\ Active(w) /\ thread[w].at = Nobody
        /\ thread[w].pc = "next" /\ undo' = undo /\ phase' = phase
        /\ UNCHANGED <<options, log, recorded, undone, overlap, withdrawn>>
    BY <1>1, <1>10 DEF Discover, AtTop, Active, Tidy
  <2>5. ASSUME NEW e \in ThreadState, e = th PROVE EffectInv'
    BY <1>3, <2>1, <2>2, <2>3, <2>4, <2>5, LeaveStep
  <2>6. QED
    BY <2>3, <2>5
<1>20. CASE Leave(w) \/ TimeOut(w)
  <2>1. PICK c \in {"verdict", "raised"} : Goto(w, c)
    BY <1>20 DEF Leave, TimeOut
  <2>2. /\ Active(w) /\ thread[w].at = Nobody
        /\ thread[w].pc = "next" /\ undo' = undo /\ phase' = phase
        /\ UNCHANGED <<options, log, recorded, undone, overlap, withdrawn>>
    BY <1>1, <1>20 DEF Leave, TimeOut, AtTop, Active, Tidy
  <2>3. QED
    BY <2>1, <2>2, PhaseStep DEF PC
<1>30. CASE StartPhase(w)
  <2>1. PICK p \in thread[w].ready :
          /\ Mark(p, "running")
          /\ thread' = [thread EXCEPT ![w] = [thread[w] EXCEPT
               !.pc = "goals", !.at = p, !.goal = 0, !.ready = thread[w].ready \ {p}]]
    BY <1>30 DEF StartPhase
  <2>2. /\ Active(w) /\ thread[w].at = Nobody
        /\ thread[w].pc = "next" /\ undo' = undo /\ p \in Phases /\ p # Nobody
        /\ UNCHANGED <<options, log, recorded, undone, overlap, withdrawn>>
    BY <1>1, <1>2, <1>3, <1>30 DEF StartPhase, Active, Tidy
  <2>3. /\ \A u \in Threads \ {w} : thread'[u] = thread[u]
        /\ thread'[w].pc = "goals" /\ thread'[w].at = p /\ thread'[w].goal = 0
        /\ thread'[w].ready = thread[w].ready \ {p}
    BY <1>0, <2>1 DEF ThreadState
  <2>4. phase'[p] = "running" /\ \A q \in Phases \ {p} : phase'[q] = phase[q]
    BY <1>0, <2>1, <2>2 DEF Mark
  <2>5. Tidy(thread[w])'
    BY <1>1, <1>2, <2>3, <2>4 DEF Tidy
  <2>6. Progress(thread[w])'
    <3>1. InForce(p)' = InForce(p)
      BY <2>2, InForceSame
    <3>2. Cardinality(InForce(p)) >= 0
      BY InForceFinite DEF CampaignInv
    <3>3. QED
      BY <2>3, <3>1, <3>2 DEF Progress
  <2>7. QED
    BY <1>3, <2>2, <2>3, <2>4, <2>5, <2>6, QuietStep
<1>40. CASE PassGate(w)
  <2>1. PICK c \in {"completed", "broken", "raised"} : Goto(w, c)
    BY <1>40 DEF PassGate
  <2>2. /\ Active(w) /\ thread[w].pc = "goals" /\ GoalsDone(w) /\ undo' = undo
        /\ UNCHANGED <<options, log, recorded, undone, overlap, withdrawn>>
    BY <1>40 DEF PassGate, GoalsDone, Active
  <2>3. phase' = phase \/ (thread[w].at \in Phases /\ Mark(thread[w].at, "pending"))
    BY <1>0, <1>40, <2>2 DEF PassGate, Placed, InPhase
  <2>4. QED
    BY <2>1, <2>2, <2>3, PhaseStep DEF PC
<1>50. CASE CompletePhase(w)
  <2> DEFINE th == [thread[w] EXCEPT !.pc = "next", !.ready = thread[w].ready, !.at = Nobody]
  <2>1. thread' = [thread EXCEPT ![w] = th]
    BY <1>50 DEF CompletePhase, Proceed
  <2>2. th \in ThreadState /\ th.at = Nobody /\ th.ready = thread[w].ready /\ th.pc = "next"
    BY <1>0 DEF ThreadState, PC
  <2>3. /\ Active(w) /\ thread[w].pc \in {"completed", "goals"} /\ undo' = undo
        /\ thread[w].at \in Phases
        /\ UNCHANGED <<options, log, recorded, undone, overlap, withdrawn>>
    BY <1>0, <1>50 DEF CompletePhase, GoalsDone, Active, Placed, InPhase
  <2>4. \A q \in Phases \ {thread[w].at} : phase'[q] = phase[q]
    BY <1>0, <1>50 DEF CompletePhase, Mark
  <2>5. \A q \in th.ready : phase'[q] = "pending"
    BY <1>1, <1>2, <2>2, <2>4 DEF Tidy
  <2>6. ASSUME NEW p \in Phases, p = thread[w].at PROVE Kept(p)'
    <3>1. phase'[p] = "completed"
      BY <1>0, <1>50, <2>6 DEF CompletePhase, Mark
    <3>2. InForce(p)' = InForce(p) /\ Remembered(p)' = Remembered(p)
      BY <2>3, InForceSame
    <3>3. Remembered(p) => Cardinality(InForce(p)) >= GoalsOf[p]
      <4>1. CASE thread[w].pc = "completed"
        BY <1>1, <1>3, <2>6, <4>1 DEF Progress
      <4>2. CASE thread[w].pc = "goals"
        <5>1. thread[w].goal >= GoalsOf[p]
          BY <1>50, <2>6, <4>2 DEF CompletePhase, GoalsDone
        <5>2. Remembered(p) => Cardinality(InForce(p)) >= thread[w].goal
          BY <1>1, <1>3, <2>6, <4>2 DEF Progress
        <5>3. Cardinality(InForce(p)) \in Nat /\ thread[w].goal \in Nat /\ GoalsOf[p] \in Nat
          BY <1>0, InForceFinite, CampaignsAssumption DEF CampaignInv, ThreadState
        <5>4. QED
          BY <5>1, <5>2, <5>3
      <4>3. QED
        BY <2>3, <4>1, <4>2
    <3>4. QED
      BY <3>1, <3>2, <3>3 DEF Kept
  <2> HIDE DEF th
  <2>7. ASSUME NEW e \in ThreadState, e = th PROVE EffectInv'
    BY <1>2, <2>1, <2>2, <2>3, <2>4, <2>5, <2>6, <2>7, LeaveStep
  <2>8. QED
    BY <2>2, <2>7
<1>80. CASE PhaseCompensated(w)
  <2> DEFINE th == [thread[w] EXCEPT !.pc = "next", !.ready = {}, !.at = Nobody]
  <2>1. thread' = [thread EXCEPT ![w] = th]
    BY <1>80 DEF PhaseCompensated, Proceed
  <2>2. th \in ThreadState /\ th.at = Nobody /\ th.ready = {} /\ th.pc = "next"
    BY <1>0 DEF ThreadState, PC
  <2>3. /\ Active(w) /\ thread[w].pc = "compensate" /\ undo'.by = Nobody
        /\ undo.by = w /\ undo.todo = {} /\ phase' = phase
        /\ UNCHANGED <<options, log, recorded, undone, overlap, withdrawn>>
    BY <1>80 DEF PhaseCompensated, EndUndo, Active
  <2>4. ASSUME NEW p \in Phases, p = thread[w].at PROVE Kept(p)'
    <3>1. InForce(p) = {}
      BY <1>1, <2>3, <2>4, CampaignsAssumption DEF Undoing
    <3>2. InForce(p)' = InForce(p) /\ phase'[p] # "completed"
      BY <1>1, <1>3, <2>3, <2>4, InForceSame DEF Tidy
    <3>3. QED
      BY <3>1, <3>2 DEF Kept
  <2> HIDE DEF th
  <2>5. ASSUME NEW e \in ThreadState, e = th PROVE EffectInv'
    BY <2>1, <2>2, <2>3, <2>4, <2>5, LeaveStep
  <2>6. QED
    BY <2>2, <2>5
<1>90. CASE Conclude(w) \/ Abort(w) \/ Withdrawn(w)
  <2> DEFINE th == IF Abort(w) /\ options.compensate THEN [Resting EXCEPT !.pc = "withdraw"]
                                                     ELSE Resting
  <2>1. thread' = [thread EXCEPT ![w] = th]
    BY <1>90 DEF Conclude, Abort, Withdrawn
  <2>2. th \in ThreadState /\ th.at = Nobody /\ th.ready = {}
    BY <1>4, RestingState DEF Resting, PC
  <2>3. /\ Active(w) /\ thread[w].pc \notin {"compensate", "rollback"}
        /\ (undo' = undo \/ undo'.by = Nobody) /\ phase' = phase
        /\ UNCHANGED <<options, log, recorded, undone, overlap, withdrawn>>
    BY <1>90 DEF Conclude, Abort, Withdrawn, EndUndo, Active
  <2>4. ASSUME NEW p \in Phases, p = thread[w].at PROVE Kept(p)'
    <3>1. phase'[p] \notin {"completed", "failed"}
      BY <2>3, <2>4, PhaseHasNotEnded
    <3>2. QED
      BY <3>1 DEF Kept
  <2> HIDE DEF th
  <2>5. ASSUME NEW e \in ThreadState, e = th PROVE EffectInv'
    BY <2>1, <2>2, <2>3, <2>4, <2>5, LeaveStep
  <2>6. QED
    BY <2>2, <2>5
<1>70. CASE FailPhase(w)
  <2> DEFINE th == [thread[w] EXCEPT
                      !.failed = TRUE, !.ready = {},
                      !.pc = IF options.compensate THEN "compensate" ELSE "next",
                      !.at = IF options.compensate THEN thread[w].at ELSE Nobody]
  <2>1. thread' = [thread EXCEPT ![w] = th]
    BY <1>70 DEF FailPhase
  <2>2. /\ th \in ThreadState /\ th.ready = {}
        /\ options.compensate => th.pc = "compensate" /\ th.at = thread[w].at
        /\ ~options.compensate => th.pc = "next" /\ th.at = Nobody
    BY <1>0 DEF ThreadState, PC
  <2>3. /\ Active(w) /\ thread[w].pc \in {"failed", "broken"} /\ undo' = undo
        /\ thread[w].at \in Phases /\ Mark(thread[w].at, "failed")
        /\ UNCHANGED <<options, log, recorded, undone, overlap, withdrawn>>
    BY <1>0, <1>70 DEF FailPhase, Active, Placed, InPhase
  <2>4. \A q \in Phases \ {thread[w].at} : phase'[q] = phase[q]
    BY <1>0, <2>3 DEF Mark
  <2>5. phase'[thread[w].at] = "failed"
    BY <1>0, <2>3 DEF Mark
  <2>6. ASSUME options.compensate PROVE EffectInv'
    <3>1. /\ \A u \in Threads \ {w} : thread'[u] = thread[u]
          /\ thread'[w].pc = "compensate" /\ thread'[w].at = thread[w].at
          /\ thread'[w].ready = {}
      <4> HIDE DEF th
      <4>1. QED
        BY <1>0, <2>1, <2>2, <2>6
    <3>2. Tidy(thread[w])' /\ Progress(thread[w])'
      BY <2>5, <3>1 DEF Tidy, Progress
    <3> HIDE DEF th
    <3>3. QED
      BY <2>3, <2>4, <3>1, <3>2, QuietStep
  <2>7. ASSUME ~options.compensate PROVE EffectInv'
    <3>1. ASSUME NEW p \in Phases, p = thread[w].at PROVE Kept(p)'
      <4>1. phase'[p] = "failed" /\ ~options'.compensate
        BY <2>3, <2>5, <2>7, <3>1
      <4>2. QED
        BY <4>1 DEF Kept
    <3> HIDE DEF th
    <3>2. ASSUME NEW e \in ThreadState, e = th PROVE EffectInv'
      BY <2>1, <2>2, <2>3, <2>4, <2>7, <3>1, <3>2, LeaveStep
    <3>3. QED
      BY <2>2, <3>2
  <2>8. QED
    BY <2>6, <2>7
<1>95. QED
  BY <1>10, <1>20, <1>30, <1>40, <1>50, <1>70, <1>80, <1>90 DEF Execute

LEMMA HealMatches ==
  ASSUME CampaignInv, EffectInv, Calm, NEW w \in Workers, Heal(w)
  PROVE  EffectInv'
<1>0. /\ w \in Threads /\ thread \in [Threads -> ThreadState] /\ thread[w] \in ThreadState
      /\ phase \in [Phases -> PhaseStatus] /\ Placed(thread[w])
  BY DEF CampaignInv, TypeOK, Threads, ThreadInv
<1>1. thread[w].pc \in InPhase \ {"compensate"} /\ Active(w)
      /\ UNCHANGED <<options, log, recorded, undone, overlap, withdrawn>>
  BY DEF Heal, BeginHealing, SayRecovering, CountAttempt, Diagnose, RolledBack, RetryPhase,
         ResumeCampaign, InPhase, Active
<1>2. thread[w].at \in Phases
  BY <1>0, <1>1 DEF Placed
<1>3. CASE BeginHealing(w) \/ SayRecovering(w) \/ CountAttempt(w) \/ Diagnose(w) \/ RolledBack(w)
           \/ RetryPhase(w)
  <2>1. PICK c \in {"recovering", "heal", "diagnose", "rollback", "recovered", "failed", "resume"} :
             Goto(w, c)
    BY <1>3 DEF BeginHealing, SayRecovering, CountAttempt, Diagnose, RolledBack, RetryPhase, Healed
  <2>2. \/ phase' = phase
        \/ \E s \in {"pending", "healing"} : thread[w].at \in Phases /\ Mark(thread[w].at, s)
    BY <1>2, <1>3 DEF BeginHealing, SayRecovering, CountAttempt, Diagnose, RolledBack, RetryPhase
  <2>3. /\ undo' = undo \/ undo'.by = Nobody
        /\ thread[w].pc = "rollback" => undo'.by = Nobody
    <3>1. CASE RolledBack(w)
      BY <3>1 DEF RolledBack, EndUndo
    <3>2. CASE ~RolledBack(w)
      BY <1>3, <3>2 DEF BeginHealing, SayRecovering, CountAttempt, Diagnose, RetryPhase
    <3>3. QED
      BY <3>1, <3>2
  <2>4. c \in PC \ {"goals", "idle", "next", "withdraw"} /\ c # "completed" /\ c # "verdict"
    BY DEF PC
  <2>5. QED
    BY <1>1, <2>1, <2>2, <2>3, <2>4, PhaseStep
<1>4. CASE ResumeCampaign(w)
  <2> DEFINE th == [thread[w] EXCEPT !.pc = "next", !.ready = thread[w].ready, !.at = Nobody]
  <2>1. thread' = [thread EXCEPT ![w] = th]
    BY <1>4 DEF ResumeCampaign, Proceed
  <2>2. /\ th \in ThreadState /\ th.at = Nobody /\ th.ready = thread[w].ready /\ th.pc = "next"
        /\ th.ready \subseteq Phases
    BY <1>0 DEF ThreadState, PC
  <2>3. phase' = phase /\ undo' = undo /\ thread[w].pc = "resume"
    BY <1>4 DEF ResumeCampaign
  <2>4. \A q \in th.ready : phase'[q] = "pending"
    BY <2>2, <2>3 DEF EffectInv, CalmInv, Tidy
  <2>5. ASSUME NEW p \in Phases, p = thread[w].at PROVE Kept(p)'
    <3>1. phase'[p] \notin {"completed", "failed"}
      BY <2>3, <2>5, PhaseHasNotEnded
    <3>2. QED
      BY <3>1 DEF Kept
  <2> HIDE DEF th
  <2>6. ASSUME NEW e \in ThreadState, e = th PROVE EffectInv'
    BY <1>1, <2>1, <2>2, <2>3, <2>4, <2>5, <2>6, LeaveStep
  <2>7. QED
    BY <2>2, <2>6
<1>5. QED
  BY <1>3, <1>4 DEF Heal

\* A recorded step is in force, and the others stay as they were, unless the log lost
\* one of them.
LEMMA RecordedForce ==
  ASSUME CampaignInv, NEW p \in Phases, Len(recorded) < MaxSteps,
         log' = Recorded(p), recorded' = Append(recorded, p), undone' = undone,
         CampaignInv', NEW n \in Nat, n = Len(recorded) + 1
  PROVE  \A q \in Phases :
           /\ Remembered(q)' => Remembered(q)
           /\ InForce(q)' \subseteq InForce(q) \cup (IF q = p THEN {n} ELSE {})
           /\ Remembered(q)' =>
                InForce(q) \cup (IF q = p THEN {n} ELSE {}) \subseteq InForce(q)'
<1>1. Len(recorded) \in Nat /\ recorded \in Seq(Phases) /\ MaxSteps \in Nat /\ n \in 1..MaxSteps
  BY CampaignsAssumption DEF CampaignInv, TypeOK
<1>2. /\ StepIds' = StepIds \cup {n} /\ n \notin StepIds
      /\ recorded'[n] = p /\ \A i \in StepIds : recorded'[i] = recorded[i]
  BY <1>1, AppendProperties DEF StepIds
<1>3. undone[n] = 0
  BY <1>1 DEF CampaignInv, SagaInv, UndoneBound
<1>4. \A i \in DOMAIN log' : \/ log'[i].id = n
                             \/ \E j \in DOMAIN log : log'[i] = log[j]
  <2>1. TypeOK /\ LogDistinct(log)
    BY DEF CampaignInv, SagaInv
  <2>2. \A i \in DOMAIN Recorded(p) : \/ Recorded(p)[i].id = Len(recorded) + 1
                                      \/ \E j \in DOMAIN log : Recorded(p)[i] = log[j]
    BY <2>1, RecordedLog
  <2>3. QED
    BY <2>2
<1>5. \E i \in DOMAIN log' : log'[i].id = n /\ log'[i].status = "forward_executed"
  <2> DEFINE prior == IF Len(log) >= LogSize THEN Tail(log) ELSE log
             new   == [id |-> n, status |-> "forward_executed"]
  <2>0. log \in Seq(SagaStep) /\ Len(log) \in Nat /\ LogSize \in Nat \ {0}
    BY CampaignsAssumption DEF CampaignInv, TypeOK
  <2>1. prior \in Seq(SagaStep)
    <3>1. Len(log) >= LogSize => log # <<>>
      BY <2>0
    <3>2. QED
      BY <2>0, <3>1, HeadTailProperties
  <2>2. SagaStep \cup {new} = {x \in SagaStep \cup {new} : TRUE} /\ SagaStep \subseteq SagaStep \cup {new}
    OBVIOUS
  <2>3. prior \in Seq(SagaStep \cup {new})
    BY <2>1, <2>2, SeqMonotonic
  <2>4. log' = Append(prior, new)
    BY DEF Recorded
  <2> HIDE DEF prior, new
  <2>5. Len(log') = Len(prior) + 1 /\ log'[Len(prior) + 1] = new /\ Len(prior) \in Nat
        /\ DOMAIN log' = 1..(Len(prior) + 1)
    BY <2>3, <2>4, AppendProperties
  <2>6. QED
    BY <2>5 DEF new
<1>6. \A i \in StepIds : Present(i)' => Present(i)
  BY <1>2, <1>4 DEF Present
<1>7. \A i \in StepIds : Live(i)' => Live(i)
  BY <1>2, <1>4 DEF Live
<1>8. \A i \in StepIds : Live(i) /\ Present(i)' => Live(i)'
  <2> SUFFICES ASSUME NEW i \in StepIds, Live(i), Present(i)' PROVE Live(i)'
    OBVIOUS
  <2>1. PICK k \in DOMAIN log' : log'[k].id = i
    BY DEF Present
  <2>2. PICK j \in DOMAIN log : log'[k] = log[j]
    BY <1>2, <1>4, <2>1
  <2>3. PICK m \in DOMAIN log : log[m].id = i /\ log[m].status = "forward_executed"
    BY DEF Live
  <2>4. j = m
    BY <2>1, <2>2, <2>3 DEF CampaignInv, SagaInv, LogDistinct
  <2>5. QED
    BY <2>1, <2>2, <2>3, <2>4 DEF Live
<1>9. Live(n)'
  BY <1>5 DEF Live
<1>10. ASSUME NEW q \in Phases
       PROVE  /\ InForce(q) = {i \in StepIds : recorded[i] = q /\ undone[i] = 0 /\ Live(i)}
              /\ Remembered(q) <=> \A i \in StepIds : recorded[i] = q => Present(i)
              /\ InForce(q)' = {i \in StepIds' : recorded'[i] = q /\ undone'[i] = 0 /\ Live(i)'}
              /\ Remembered(q)' <=> \A i \in StepIds' : recorded'[i] = q => Present(i)'
  BY ForceIsSeen, ForceIsSeenNext DEF ForceSeen
<1>11. ASSUME NEW q \in Phases, NEW i \in StepIds'
       PROVE  /\ recorded'[i] = q <=> (i \in StepIds /\ recorded[i] = q) \/ (i = n /\ q = p)
              /\ i = n => undone'[i] = 0 /\ Live(i)'
  BY <1>2, <1>3, <1>9
<1>12. ASSUME NEW q \in Phases
       PROVE  /\ Remembered(q)' => Remembered(q)
              /\ InForce(q)' \subseteq InForce(q) \cup (IF q = p THEN {n} ELSE {})
  <2>1. ASSUME Remembered(q)', NEW i \in StepIds, recorded[i] = q PROVE Present(i)
    <3>1. i \in StepIds' /\ recorded'[i] = q
      BY <1>2, <2>1
    <3>2. Present(i)'
      BY <1>10, <2>1, <3>1
    <3>3. QED
      BY <1>6, <3>2
  <2>2. ASSUME NEW i \in InForce(q)'
        PROVE  i \in InForce(q) \cup (IF q = p THEN {n} ELSE {})
    <3>1. i \in StepIds' /\ recorded'[i] = q /\ undone[i] = 0 /\ Live(i)'
      BY <1>10, <2>2
    <3>2. CASE i = n
      BY <1>2, <3>1, <3>2
    <3>3. CASE i \in StepIds /\ recorded[i] = q
      BY <1>7, <1>10, <3>1, <3>3
    <3>4. QED
      BY <1>11, <3>1, <3>2, <3>3
  <2>3. QED
    BY <1>10, <2>1, <2>2
<1>13. ASSUME NEW q \in Phases, Remembered(q)'
       PROVE  InForce(q) \cup (IF q = p THEN {n} ELSE {}) \subseteq InForce(q)'
  <2>1. ASSUME NEW i \in InForce(q) PROVE i \in InForce(q)'
    <3>1. i \in StepIds /\ recorded[i] = q /\ undone[i] = 0 /\ Live(i)
      BY <1>10, <2>1
    <3>2. i \in StepIds' /\ recorded'[i] = q
      BY <1>2, <3>1
    <3>3. Present(i)'
      BY <1>10, <1>13, <3>2
    <3>4. Live(i)'
      BY <1>8, <3>1, <3>3
    <3>5. QED
      BY <1>10, <3>1, <3>2, <3>4
  <2>2. q = p => n \in InForce(q)'
    BY <1>2, <1>3, <1>9, <1>10
  <2>3. QED
    BY <2>1, <2>2
<1>14. QED
  BY <1>12, <1>13

\* A goal's effects come into force; no other phase is concerned.
LEMMA RunGoalMatches ==
  ASSUME CampaignInv, EffectInv, Calm, NEW w \in Workers, RunGoal(w), CampaignInv'
  PROVE  EffectInv'
<1>0. /\ w \in Threads /\ thread \in [Threads -> ThreadState] /\ thread[w] \in ThreadState
      /\ TypeOK /\ Placed(thread[w])
  BY DEF CampaignInv, TypeOK, Threads, ThreadInv
<1>1. /\ CalmInv /\ (\A o \in Operators : thread[o].pc \in {"idle", "cancel", "restore"})
      /\ Tidy(thread[w]) /\ Progress(thread[w])
  BY DEF EffectInv, CalmInv
<1>2. /\ Active(w) /\ thread[w].pc = "goals" /\ thread[w].at \in Phases
      /\ UNCHANGED <<options, phase, undone, undo, overlap, withdrawn>>
  BY <1>0 DEF RunGoal, Active, Placed, InPhase
<1>3. CASE (Goto(w, "broken") \/ Goto(w, "raised")) /\ UNCHANGED <<log, recorded>>
  BY <1>2, <1>3, PhaseStep DEF PC
<1>4. ASSUME Len(recorded) < MaxSteps,
             log' = Recorded(thread[w].at), recorded' = Append(recorded, thread[w].at),
             thread' = [thread EXCEPT ![w] = [thread[w] EXCEPT !.goal = thread[w].goal + 1]],
             NEW p \in Phases, p = thread[w].at, NEW n \in Nat, n = Len(recorded) + 1
      PROVE  EffectInv'
  <2>1. /\ \A u \in Threads \ {w} : thread'[u] = thread[u]
        /\ thread'[w].pc = "goals" /\ thread'[w].at = p /\ thread'[w].ready = thread[w].ready
        /\ thread'[w].goal = thread[w].goal + 1
    BY <1>0, <1>2, <1>4 DEF ThreadState
  <2>2. \A q \in Phases :
           /\ Remembered(q)' => Remembered(q)
           /\ InForce(q)' \subseteq InForce(q) \cup (IF q = p THEN {n} ELSE {})
           /\ Remembered(q)' =>
                InForce(q) \cup (IF q = p THEN {n} ELSE {}) \subseteq InForce(q)'
    BY <1>2, <1>4, RecordedForce
  <2>3. \A v \in Workers : v # w => v \in Threads \ {w} /\ ~Active(v)
    BY <1>1, <1>2 DEF CalmInv, Alone, Threads
  <2>4. \A v \in Workers : v # w => thread'[v] = thread[v] /\ thread[v].at = Nobody
    BY <1>1, <2>1, <2>3 DEF CalmInv, Active, Tidy
  <2>5. \A v \in Workers : thread'[v].at = thread[v].at /\ thread'[v].pc = thread[v].pc
                           /\ thread'[v].ready = thread[v].ready
    BY <1>2, <1>4, <2>1, <2>4
  <2>6. \A o \in Operators : thread'[o] = thread[o]
    BY <2>1, CampaignsAssumption DEF Threads
  <2>7. undo.by = Nobody
    BY <1>1, <1>2, <2>3 DEF CalmInv, Undoing, Active
  <2>8. ASSUME NEW v \in Workers PROVE Tidy(thread[v])' /\ Progress(thread[v])'
    <3>1. Tidy(thread[v])'
      BY <1>1, <1>2, <2>5 DEF CalmInv, Tidy
    <3>2. CASE v # w
      BY <2>4, <3>1, <3>2 DEF Progress
    <3>3. CASE v = w
      <4>1. ASSUME Remembered(p)' PROVE Cardinality(InForce(p)') >= thread[w].goal + 1
        <5>1. InForce(p)' = InForce(p) \cup {n}
          BY <2>2, <4>1
        <5>2. Cardinality(InForce(p)) >= thread[w].goal
          BY <1>1, <1>2, <1>4, <2>2, <4>1, CampaignsAssumption DEF Progress
        <5>3. n \notin InForce(p) /\ IsFiniteSet(InForce(p)) /\ Cardinality(InForce(p)) \in Nat
          <6>1. Len(recorded) \in Nat
            BY <1>0 DEF TypeOK
          <6>2. InForce(p) \subseteq 1..Len(recorded)
            BY DEF InForce, StepIds
          <6>3. n \notin InForce(p)
            BY <1>4, <6>1, <6>2
          <6>4. QED
            BY <1>0, <6>3, InForceFinite
        <5>4. Cardinality(InForce(p) \cup {n}) = Cardinality(InForce(p)) + 1
          BY <5>3, FS_AddElement
        <5>5. thread[w].goal \in Nat
          BY <1>0 DEF ThreadState
        <5>6. Cardinality(InForce(p)') = Cardinality(InForce(p)) + 1
          BY <5>1, <5>4
        <5>7. QED
          BY <5>2, <5>3, <5>5, <5>6
      <4>2. Progress(thread[w])'
        BY <2>1, <4>1 DEF Progress
      <4>3. QED
        BY <3>1, <3>3, <4>2
    <3>4. QED
      BY <3>2, <3>3, <3>1
  <2>9. ASSUME NEW q \in Phases PROVE Kept(q)'
    <3>1. CASE q = p
      <4>1. phase'[q] # "completed" /\ thread'[w].at = q
        BY <1>1, <1>2, <1>4, <2>1, <3>1, CampaignsAssumption DEF Tidy
      <4>2. QED
        BY <4>1 DEF Kept
    <3>2. CASE q # p
      <4>1. Remembered(q)' => InForce(q)' = InForce(q) /\ Remembered(q)
        BY <2>2, <3>2
      <4>2. phase' = phase /\ options' = options
            /\ ((\A v \in Workers : thread'[v].at # q) => \A v \in Workers : thread[v].at # q)
        BY <1>2, <2>5
      <4>3. Kept(q)
        BY <1>1 DEF CalmInv
      <4>4. QED
        BY <4>1, <4>2, <4>3 DEF Kept
    <3>3. QED
      BY <3>1, <3>2
  <2>10. Alone'
    BY <1>1, <2>5 DEF CalmInv, Alone, Active
  <2>11. Undoing'
    BY <1>2, <2>7 DEF Undoing
  <2>12. QED
    BY <1>1, <2>6, <2>8, <2>9, <2>10, <2>11 DEF EffectInv, CalmInv
<1>5. CASE /\ Len(recorded) < MaxSteps
           /\ log' = Recorded(thread[w].at)
           /\ recorded' = Append(recorded, thread[w].at)
           /\ thread' = [thread EXCEPT ![w] = [thread[w] EXCEPT !.goal = thread[w].goal + 1]]
  <2>1. Len(recorded) + 1 \in Nat
    BY <1>0 DEF TypeOK
  <2>2. QED
    BY <1>2, <1>4, <1>5, <2>1
<1>6. QED
  BY <1>3, <1>5 DEF RunGoal

\* One step of a compensation takes the effects of that step out of force.
LEMMA UndoneForce ==
  ASSUME CampaignInv, CampaignInv', NEW n \in StepIds, Present(n),
         NEW s \in {"compensated", "compensation_failed"}, log' = Updated(n, s),
         \A i \in StepIds \ {n} : undone'[i] = undone[i],
         recorded' = recorded
  PROVE  /\ \A i \in StepIds : Present(i)' = Present(i)
         /\ \A q \in Phases : Remembered(q)' = Remembered(q)
         /\ \A q \in Phases : InForce(q)' = InForce(q) \ {n}
<1>1. StepIds' = StepIds
  BY DEF StepIds
<1>2. \A i \in DOMAIN log : log[i] \in SagaStep
  BY ElementOfSeq DEF CampaignInv, TypeOK
<1>3. log' = [i \in DOMAIN log |-> IF log[i].id = n THEN [log[i] EXCEPT !.status = s] ELSE log[i]]
  BY DEF Updated, Present
<1>4. /\ DOMAIN log' = DOMAIN log
      /\ \A i \in DOMAIN log : /\ log'[i].id = log[i].id
                               /\ log[i].id = n => log'[i].status = s
                               /\ log[i].id # n => log'[i].status = log[i].status
  BY <1>2, <1>3 DEF SagaStep
<1>5. \A i \in StepIds : Present(i)' = Present(i)
  BY <1>4 DEF Present
<1>6. \A i \in StepIds \ {n} : Live(i)' = Live(i)
  BY <1>4 DEF Live
<1>7. ~Live(n)'
  BY <1>4 DEF Live
<1>8. ASSUME NEW q \in Phases
      PROVE  /\ InForce(q) = {i \in StepIds : recorded[i] = q /\ undone[i] = 0 /\ Live(i)}
             /\ Remembered(q) <=> \A i \in StepIds : recorded[i] = q => Present(i)
             /\ InForce(q)' = {i \in StepIds' : recorded'[i] = q /\ undone'[i] = 0 /\ Live(i)'}
             /\ Remembered(q)' <=> \A i \in StepIds' : recorded'[i] = q => Present(i)'
  BY ForceIsSeen, ForceIsSeenNext DEF ForceSeen
<1>9. ASSUME NEW q \in Phases PROVE Remembered(q)' = Remembered(q)
  <2>1. Remembered(q)' <=> Remembered(q)
    BY <1>1, <1>5, <1>8
  <2>2. QED
    BY <2>1 DEF Remembered
<1>10. ASSUME NEW q \in Phases PROVE InForce(q)' = InForce(q) \ {n}
  <2>1. \A i : i \in InForce(q)' <=> i \in StepIds /\ recorded[i] = q /\ undone'[i] = 0 /\ Live(i)'
    BY <1>1, <1>8
  <2>2. \A i : i \in InForce(q) <=> i \in StepIds /\ recorded[i] = q /\ undone[i] = 0 /\ Live(i)
    BY <1>8
  <2>3. \A i \in StepIds \ {n} : i \in InForce(q)' <=> i \in InForce(q)
    BY <1>6, <2>1, <2>2
  <2>4. n \notin InForce(q)'
    BY <1>7, <2>1
  <2>5. QED
    BY <2>1, <2>2, <2>3, <2>4
<1>11. QED
  BY <1>5, <1>9, <1>10

LEMMA UndoStepMatches ==
  ASSUME CampaignInv, EffectInv, Calm, NEW t \in Threads, UndoStep(t), CampaignInv'
  PROVE  EffectInv'
<1>0. TypeOK /\ CalmInv /\ Undoing /\ undo.by = t
  BY DEF CampaignInv, EffectInv, CalmInv, UndoStep
<1>1. /\ t \in Workers /\ thread[t].pc \in {"compensate", "rollback"}
      /\ Tidy(thread[t]) /\ Active(t)
  <2>1. t # Nobody
    BY CampaignsAssumption DEF Threads
  <2>2. QED
    BY <1>0, <2>1 DEF Undoing, CalmInv, Active
<1>2. thread[t].at \in Phases
  BY <1>1 DEF CampaignInv, ThreadInv, Placed, InPhase, Threads
<1>3. UNCHANGED <<options, phase, recorded, thread, overlap, withdrawn>> /\ StepIds' = StepIds
  BY DEF UndoStep, StepIds
<1>4. PICK s \in undo.todo :
         /\ \/ log' = Updated(s.id, "compensated") /\ undone' = [undone EXCEPT ![s.id] = @ + 1]
            \/ log' = Updated(s.id, "compensation_failed") /\ UNCHANGED undone
         /\ undo' = [undo EXCEPT !.todo = @ \ {s}]
  BY DEF UndoStep
<1>5. s.id \in StepIds /\ Present(s.id) /\ recorded[s.id] = thread[t].at
  BY <1>0, <1>1, CampaignsAssumption DEF TypeOK, Undoing
<1>6. undo'.by = t /\ undo'.todo = undo.todo \ {s}
  BY <1>0, <1>4 DEF TypeOK
<1>7. ASSUME NEW n \in StepIds, n = s.id, NEW p \in Phases, p = thread[t].at
      PROVE  EffectInv'
  <2>1. \A i \in StepIds \ {n} : undone'[i] = undone[i]
    <3>1. undone \in [1..MaxSteps -> Nat]
      BY <1>0 DEF TypeOK
    <3>2. StepIds \subseteq 1..MaxSteps
      BY <1>0, CampaignsAssumption DEF TypeOK, StepIds
    <3>3. QED
      BY <1>4, <1>7, <3>1, <3>2
  <2>2. PICK r \in {"compensated", "compensation_failed"} : log' = Updated(n, r)
    BY <1>4, <1>7
  <2>3. /\ \A i \in StepIds : Present(i)' = Present(i)
        /\ \A q \in Phases : Remembered(q)' = Remembered(q)
        /\ \A q \in Phases : InForce(q)' = InForce(q) \ {n}
    <3>1. Present(n)
      BY <1>5, <1>7
    <3>2. QED
      BY <1>3, <2>1, <2>2, <3>1, UndoneForce
  <2>4. \A q \in Phases \ {p} : InForce(q)' = InForce(q)
    <3>1. \A q \in Phases \ {p} : n \notin InForce(q)
      BY <1>5, <1>7 DEF InForce
    <3>2. QED
      BY <2>3, <3>1
  <2>5. Undoing'
    <3>1. ASSUME NEW z \in undo'.todo
          PROVE  recorded'[z.id] = thread'[t].at /\ Present(z.id)'
      <4>1. z \in undo.todo /\ z.id \in StepIds
        BY <1>0, <1>6 DEF TypeOK
      <4>2. recorded[z.id] = thread[t].at /\ Present(z.id)
        BY <1>0, <1>1, <4>1, CampaignsAssumption DEF Undoing
      <4>3. \A i \in StepIds : i = z.id => Present(i)'
        BY <2>3, <4>2
      <4>4. QED
        BY <1>3, <4>1, <4>2, <4>3
    <3>2. ASSUME thread[t].pc = "compensate", NEW i \in InForce(p)'
          PROVE  \E z \in undo'.todo : z.id = i
      <4>1. i \in InForce(p) /\ i # n
        BY <2>3, <3>2
      <4>2. i \in InForce(thread[t].at)
        BY <1>7, <4>1
      <4>3. PICK z \in undo.todo : z.id = i
        BY <1>0, <1>1, <3>2, <4>2, CampaignsAssumption DEF Undoing
      <4>4. z \in undo'.todo
        BY <1>6, <1>7, <4>1, <4>3
      <4>5. QED
        BY <4>3, <4>4
    <3>3. InForce(p)' = InForce(thread[t].at)'
      BY <1>3, <1>7
    <3>4. thread' = thread
      BY <1>3
    <3>5. QED
      BY <1>1, <1>6, <3>1, <3>2, <3>3, <3>4 DEF Undoing
  <2>6. \A v \in Workers : v # t => thread[v].at = Nobody
    BY <1>0, <1>1 DEF CalmInv, Alone, Active, Tidy
  <2>7. ASSUME NEW v \in Workers PROVE Tidy(thread[v])' /\ Progress(thread[v])'
    <3>1. Tidy(thread[v])'
      BY <1>0, <1>3 DEF CalmInv, Tidy
    <3>2. Progress(thread[v])'
      BY <1>1, <1>3, <2>6 DEF Progress
    <3>3. QED
      BY <3>1, <3>2
  <2>8. ASSUME NEW q \in Phases PROVE Kept(q)'
    <3>1. CASE q = p
      <4>1. phase'[q] # "completed" /\ thread'[t].at = q
        BY <1>1, <1>3, <1>7, <3>1, CampaignsAssumption DEF Tidy
      <4>2. QED
        BY <1>1, <4>1 DEF Kept
    <3>2. CASE q # p
      <4>1. Remembered(q)' = Remembered(q) /\ InForce(q)' = InForce(q)
        BY <2>3, <2>4, <3>2
      <4>2. Kept(q)
        BY <1>0 DEF CalmInv
      <4>3. phase' = phase /\ thread' = thread /\ options' = options
        BY <1>3
      <4>4. QED
        BY <4>1, <4>2, <4>3 DEF Kept
    <3>3. QED
      BY <3>1, <3>2
  <2>9. Alone'
    BY <1>0, <1>3 DEF CalmInv, Alone, Active
  <2>10. \A o \in Operators : thread'[o].pc \in {"idle", "cancel", "restore"}
    BY <1>3 DEF EffectInv
  <2>11. QED
    BY <2>5, <2>7, <2>8, <2>9, <2>10 DEF EffectInv, CalmInv
<1>8. QED
  BY <1>2, <1>5, <1>7

\* Steps that touch neither the saga nor a worker.
LEMMA WorkersUntouched ==
  ASSUME CalmInv, UNCHANGED <<options, phase, log, recorded, undone>>,
         \A w \in Workers : thread'[w] = thread[w]
  PROVE  /\ Alone' /\ (\A p \in Phases : Kept(p)')
         /\ \A w \in Workers : Tidy(thread[w])' /\ Progress(thread[w])'
<1>1. Alone'
  BY DEF CalmInv, Alone, Active
<1>2. ASSUME NEW w \in Workers PROVE Tidy(thread[w])' /\ Progress(thread[w])'
  <2>1. Tidy(thread[w]) /\ Progress(thread[w]) /\ thread'[w] = thread[w]
    BY DEF CalmInv
  <2>2. Tidy(thread[w])'
    BY <2>1 DEF Tidy
  <2>3. Progress(thread[w])'
    BY <2>1 DEF Progress, InForce, Remembered, StatusOf, StepIds
  <2>4. QED
    BY <2>2, <2>3
<1>3. ASSUME NEW p \in Phases PROVE Kept(p)'
  <2>1. InForce(p)' = InForce(p) /\ Remembered(p)' = Remembered(p) /\ Kept(p)
    BY InForceSame DEF CalmInv
  <2>2. phase' = phase /\ options' = options
        /\ ((\A w \in Workers : thread'[w].at # p) => \A w \in Workers : thread[w].at # p)
    OBVIOUS
  <2>3. QED
    BY <2>1, <2>2 DEF Kept
<1>4. QED
  BY <1>1, <1>2, <1>3

\* A compensation of a failed phase finds all of its effects that are in force.
LEMMA CompensatePhaseMatches ==
  ASSUME CampaignInv, EffectInv, Calm, NEW t \in Threads, CompensatePhase(t)
  PROVE  EffectInv'
<1>0. TypeOK /\ CalmInv /\ thread[t].pc \in {"compensate", "rollback"}
  BY DEF CampaignInv, EffectInv, CompensatePhase
<1>1. t \in Workers /\ thread[t].at \in Phases
  <2>1. t \in Workers
    BY <1>0 DEF EffectInv, Threads
  <2>2. QED
    BY <1>0, <2>1 DEF CampaignInv, ThreadInv, Placed, InPhase
<1>2. /\ UNCHANGED <<options, phase, log, recorded, undone, thread>>
      /\ undo' = [by |-> t, todo |-> ToUndo({thread[t].at})]
  BY DEF CompensatePhase, BeginUndo
<1>3. Undoing'
  <2>1. undo'.by = t /\ undo'.todo = ToUndo({thread[t].at})
    BY <1>2
  <2>2. ASSUME NEW s \in ToUndo({thread[t].at})
        PROVE  recorded[s.id] = thread[t].at /\ Present(s.id)
    <3>1. PICK i \in DOMAIN log : /\ s = [at |-> i, id |-> log[i].id]
                                  /\ recorded[log[i].id] = thread[t].at
      BY DEF ToUndo
    <3>2. s.id = log[i].id
      BY <3>1
    <3>3. QED
      BY <3>1, <3>2 DEF Present
  <2>3. ASSUME NEW i \in InForce(thread[t].at)
        PROVE  \E s \in ToUndo({thread[t].at}) : s.id = i
    <3>1. recorded[i] = thread[t].at /\ Live(i)
      BY StatusFacts DEF InForce
    <3>2. PICK k \in DOMAIN log : log[k].id = i /\ log[k].status = "forward_executed"
      BY <3>1 DEF Live
    <3>3. [at |-> k, id |-> log[k].id] \in ToUndo({thread[t].at})
      BY <3>1, <3>2 DEF ToUndo
    <3>4. [at |-> k, id |-> log[k].id].id = i
      BY <3>2
    <3>5. QED
      BY <3>3, <3>4
  <2>4. ASSUME NEW s \in undo'.todo PROVE Present(s.id)'
    <3>1. Present(s.id)
      BY <2>1, <2>2
    <3>2. log' = log
      BY <1>2
    <3>3. ASSUME NEW i, Present(i) PROVE Present(i)'
      BY <3>2, <3>3 DEF Present
    <3>4. \E n \in DOMAIN log : log[n].id = s.id
      BY <3>1 DEF Present
    <3>5. QED
      BY <3>2, <3>4 DEF Present
  <2>5. InForce(thread[t].at)' = InForce(thread[t].at)
    BY <1>2 DEF InForce, StatusOf, StepIds
  <2>6. thread' = thread /\ recorded' = recorded
    BY <1>2
  <2>7. QED
    BY <1>0, <1>1, <2>1, <2>2, <2>3, <2>4, <2>5, <2>6 DEF Undoing
<1>4. /\ Alone' /\ (\A p \in Phases : Kept(p)')
      /\ \A w \in Workers : Tidy(thread[w])' /\ Progress(thread[w])'
  BY <1>0, <1>2, WorkersUntouched
<1>5. QED
  BY <1>2, <1>3, <1>4 DEF EffectInv, CalmInv

\* A worker that finds nobody else at work starts from no phase.
LEMMA EnterMatches ==
  ASSUME CampaignInv, EffectInv, Calm, NEW w \in Workers, Enter(w), ~overlap'
  PROVE  EffectInv'
<1>0. /\ w \in Threads /\ thread \in [Threads -> ThreadState] /\ CalmInv
      /\ \A o \in Operators : thread[o].pc \in {"idle", "cancel", "restore"}
  BY DEF CampaignInv, EffectInv, TypeOK, Threads
<1>1. \A v \in Workers : ~Active(v)
  BY DEF Enter
<1>2. /\ UNCHANGED <<options, phase, log, recorded, undone, undo, withdrawn>>
      /\ thread' = [thread EXCEPT ![w] = [Resting EXCEPT !.pc = "next"]]
  BY DEF Enter
<1>3. /\ [Resting EXCEPT !.pc = "next"].at = Nobody /\ [Resting EXCEPT !.pc = "next"].ready = {}
      /\ [Resting EXCEPT !.pc = "next"].pc = "next"
  BY DEF Resting
<1>4. /\ thread'[w].at = Nobody /\ thread'[w].ready = {} /\ thread'[w].pc = "next"
      /\ \A u \in Threads \ {w} : thread'[u] = thread[u]
  BY <1>0, <1>2, <1>3
<1>5. \A v \in Workers : thread[v].at = Nobody /\ (v # w => thread'[v] = thread[v])
  BY <1>0, <1>1, <1>4 DEF CalmInv, Tidy, Active, Threads
<1>6. Alone'
  BY <1>1, <1>5 DEF Alone, Active
<1>7. undo'.by = Nobody
  BY <1>0, <1>1, <1>2 DEF CalmInv, Undoing, Active
<1>8. Undoing'
  BY <1>7 DEF Undoing
<1>9. ASSUME NEW v \in Workers PROVE Tidy(thread[v])' /\ Progress(thread[v])'
  <2>1. CASE v = w
    BY <1>4, <2>1, CampaignsAssumption DEF Tidy, Progress
  <2>2. CASE v # w
    <3>1. thread'[v] = thread[v] /\ thread[v].at = Nobody /\ thread[v].pc = "idle" /\ Tidy(thread[v])
      BY <1>0, <1>1, <1>5, <2>2 DEF CalmInv, Active
    <3>2. QED
      BY <3>1 DEF Tidy, Progress
  <2>3. QED
    BY <2>1, <2>2
<1>10. ASSUME NEW p \in Phases PROVE Kept(p)'
  <2>1. InForce(p)' = InForce(p) /\ Remembered(p)' = Remembered(p) /\ Kept(p)
    BY <1>0, <1>2, InForceSame DEF CalmInv
  <2>2. phase' = phase /\ options' = options /\ \A v \in Workers : thread[v].at # p
    BY <1>2, <1>5, CampaignsAssumption
  <2>3. QED
    BY <2>1, <2>2 DEF Kept
<1>11. \A o \in Operators : thread'[o] = thread[o]
  BY <1>4, CampaignsAssumption DEF Threads
<1>12. QED
  BY <1>0, <1>6, <1>8, <1>9, <1>10, <1>11 DEF EffectInv, CalmInv

LEMMA OperatorMatches ==
  ASSUME CampaignInv, EffectInv, Calm, NEW o \in Operators,
         Cancel(o) \/ Rollback(o) \/ OperatorDone(o)
  PROVE  EffectInv'
<1>0. o \in Threads /\ thread \in [Threads -> ThreadState] /\ CalmInv
  BY DEF CampaignInv, EffectInv, TypeOK, Threads
<1>1. /\ UNCHANGED <<options, phase, log, recorded, undone>>
      /\ undo' = undo \/ undo'.by = Nobody
  <2>1. CASE OperatorDone(o)
    BY <2>1 DEF OperatorDone, EndUndo
  <2>2. CASE Cancel(o) \/ Rollback(o)
    BY <2>2 DEF Cancel, Rollback
  <2>3. QED
    BY <2>1, <2>2
<1>2. /\ \A u \in Threads \ {o} : thread'[u] = thread[u]
      /\ thread'[o] = thread[o] \/ thread'[o].pc \in {"idle", "cancel", "restore"}
  BY <1>0, GotoMoves DEF Cancel, Rollback, OperatorDone, PC
<1>3. \A w \in Workers : thread'[w] = thread[w]
  BY <1>2, CampaignsAssumption DEF Threads
<1>4. /\ Alone' /\ (\A p \in Phases : Kept(p)')
      /\ \A w \in Workers : Tidy(thread[w])' /\ Progress(thread[w])'
  BY <1>0, <1>1, <1>3, WorkersUntouched
<1>5. Undoing'
  <2>1. CASE undo'.by = Nobody
    BY <2>1 DEF Undoing
  <2>2. CASE undo' = undo /\ undo.by # Nobody
    <3>1. Undoing /\ undo.by \in Workers /\ thread'[undo.by] = thread[undo.by]
      BY <1>0, <1>3, <2>2 DEF CalmInv, Undoing
    <3>2. \A x : InForce(x)' = InForce(x)
      BY <1>1, InForceSame
    <3>3. \A i : Present(i) => Present(i)'
      BY <1>1 DEF Present
    <3>4. recorded' = recorded
      BY <1>1
    <3>5. QED
      BY <2>2, <3>1, <3>2, <3>3, <3>4 DEF Undoing
  <2>3. QED
    BY <1>1, <2>1, <2>2
<1>6. \A u \in Operators : thread'[u].pc \in {"idle", "cancel", "restore"}
  BY <1>2 DEF EffectInv, Threads
<1>7. QED
  BY <1>4, <1>5, <1>6 DEF EffectInv, CalmInv

\* Where an operator may be, whatever the workers do.
LEMMA OperatorsStay ==
  ASSUME CampaignInv, EffectInv, [Next]_vars
  PROVE  \A o \in Operators : thread'[o].pc \in {"idle", "cancel", "restore"}
<1>0. thread \in [Threads -> ThreadState] /\ \A o \in Operators : o \in Threads
  BY DEF CampaignInv, TypeOK, Threads
<1>1. ASSUME NEW w \in Workers, Enter(w) \/ Execute(w) \/ Heal(w)
      PROVE  \A u \in Threads \ {w} : thread'[u] = thread[u]
  <2>1. CASE Enter(w)
    BY <1>0, <2>1 DEF Enter
  <2>2. CASE Heal(w)
    BY <1>0, <2>2 DEF Heal, BeginHealing, SayRecovering, CountAttempt, Diagnose, RolledBack,
                      RetryPhase, ResumeCampaign, Healed, Goto, Proceed
  <2>3. CASE Execute(w)
    BY <1>0, <2>3 DEF Execute, Discover, Leave, TimeOut, StartPhase, RunGoal, PassGate,
                      CompletePhase, FailPhase, PhaseCompensated, Conclude, Abort, Withdrawn,
                      Goto, Proceed
  <2>4. QED
    BY <1>1, <2>1, <2>2, <2>3
<1>2. ASSUME NEW w \in Workers, Enter(w) \/ Execute(w) \/ Heal(w)
      PROVE  \A o \in Operators : thread'[o].pc \in {"idle", "cancel", "restore"}
  BY <1>0, <1>1, <1>2, CampaignsAssumption DEF EffectInv
<1>3. ASSUME NEW o \in Operators, Cancel(o) \/ Rollback(o) \/ OperatorDone(o)
      PROVE  \A u \in Operators : thread'[u].pc \in {"idle", "cancel", "restore"}
  <2>1. /\ \A u \in Threads \ {o} : thread'[u] = thread[u]
        /\ thread'[o] = thread[o] \/ thread'[o].pc \in {"idle", "cancel", "restore"}
    BY <1>0, <1>3, GotoMoves DEF Cancel, Rollback, OperatorDone, PC
  <2>2. QED
    BY <1>0, <2>1 DEF EffectInv
<1>4. ASSUME NEW t \in Threads, Undo(t) PROVE thread' = thread
  BY <1>4 DEF Undo, UndoStep, CompensatePhase, CompensateAll
<1>5. CASE UNCHANGED vars
  BY <1>5 DEF vars, EffectInv
<1>6. QED
  BY <1>2, <1>3, <1>4, <1>5 DEF Next, EffectInv

\* Neither an overlap nor a withdrawal is forgotten.
LEMMA CalmBefore ==
  ASSUME [Next]_vars, Calm'
  PROVE  Calm
<1>1. ASSUME NEW w \in Workers, Enter(w) \/ Execute(w) \/ Heal(w) PROVE Calm
  <2>1. CASE Enter(w)
    BY <2>1 DEF Enter, Calm
  <2>2. CASE Heal(w)
    <3>1. overlap' = overlap /\ withdrawn' = withdrawn
      BY <2>2 DEF Heal, BeginHealing, SayRecovering, CountAttempt, Diagnose, RolledBack,
                  RetryPhase, ResumeCampaign
    <3>2. QED
      BY <3>1 DEF Calm
  <2>3. CASE Execute(w)
    <3>1. overlap' = overlap /\ withdrawn' = withdrawn
      BY <2>3 DEF Execute, Discover, Leave, TimeOut, StartPhase, RunGoal, PassGate,
                  CompletePhase, FailPhase, PhaseCompensated, Conclude, Abort, Withdrawn
    <3>2. QED
      BY <3>1 DEF Calm
  <2>4. QED
    BY <1>1, <2>1, <2>2, <2>3
<1>2. ASSUME NEW o \in Operators, Cancel(o) \/ Rollback(o) \/ OperatorDone(o) PROVE Calm
  BY <1>2 DEF Cancel, Rollback, OperatorDone, Calm
<1>3. ASSUME NEW t \in Threads, Undo(t) PROVE Calm
  BY <1>3 DEF Undo, UndoStep, CompensatePhase, CompensateAll, Calm
<1>4. CASE UNCHANGED vars
  BY <1>4 DEF vars, Calm
<1>5. QED
  BY <1>1, <1>2, <1>3, <1>4 DEF Next

LEMMA InitMatches == Init => EffectInv
<1> SUFFICES ASSUME Init PROVE EffectInv
  OBVIOUS
<1>1. \A t \in Threads : thread[t].pc = "idle" /\ thread[t].at = Nobody /\ thread[t].ready = {}
  BY DEF Init, Resting
<1>2. undo.by = Nobody /\ \A p \in Phases : phase[p] = "pending"
  BY DEF Init
<1>3. Alone /\ Undoing
  BY <1>1, <1>2 DEF Alone, Active, Undoing, Threads
<1>4. ASSUME NEW w \in Workers PROVE Tidy(thread[w]) /\ Progress(thread[w])
  BY <1>1 DEF Tidy, Progress, Threads
<1>5. \A p \in Phases : Kept(p)
  BY <1>2 DEF Kept
<1>6. QED
  BY <1>1, <1>3, <1>4, <1>5 DEF EffectInv, CalmInv, Threads

LEMMA NextMatches == CampaignInv /\ EffectInv /\ CampaignInv' /\ [Next]_vars => EffectInv'
<1> SUFFICES ASSUME CampaignInv, EffectInv, CampaignInv', [Next]_vars PROVE EffectInv'
  OBVIOUS
<1>1. CASE ~Calm'
  BY <1>1, OperatorsStay DEF EffectInv
<1>2. ASSUME Calm' PROVE EffectInv'
  <2>0. Calm /\ ~overlap' /\ ~withdrawn'
    BY <1>2, CalmBefore DEF Calm
  <2>1. ASSUME NEW w \in Workers, Enter(w) \/ Execute(w) \/ Heal(w) PROVE EffectInv'
    BY <2>0, <2>1, EnterMatches, ExecuteMatches, RunGoalMatches, HealMatches
  <2>2. ASSUME NEW o \in Operators, Cancel(o) \/ Rollback(o) \/ OperatorDone(o) PROVE EffectInv'
    BY <2>0, <2>2, OperatorMatches
  <2>3. ASSUME NEW t \in Threads, Undo(t) PROVE EffectInv'
    <3>1. ~CompensateAll(t)
      BY <2>0 DEF CompensateAll
    <3>2. QED
      BY <2>0, <2>3, <3>1, UndoStepMatches, CompensatePhaseMatches DEF Undo
  <2>4. CASE UNCHANGED vars
    <3>1. /\ Alone' /\ (\A p \in Phases : Kept(p)')
          /\ \A w \in Workers : Tidy(thread[w])' /\ Progress(thread[w])'
      BY <2>0, <2>4, WorkersUntouched DEF vars, EffectInv
    <3>2. Undoing'
      BY <2>0, <2>4 DEF vars, EffectInv, CalmInv, Undoing, Present, InForce, StatusOf, StepIds
    <3>3. QED
      BY <3>1, <3>2, OperatorsStay DEF EffectInv, CalmInv
  <2>5. QED
    BY <2>1, <2>2, <2>3, <2>4 DEF Next
<1>3. QED
  BY <1>1, <1>2

\* While one worker executes the campaign and nobody withdraws it, a completed phase
\* keeps the effects of its goals and a failed one, once compensated, has none, through
\* every healing, retry and rollback (execute_campaign, compensate_phase).
THEOREM CampaignsEffectsMatch == Spec => []EffectsMatchPhases
<1>1. Init => EffectInv
  BY InitMatches
<1>2. CampaignInv /\ EffectInv /\ CampaignInv' /\ [Next]_vars => EffectInv'
  BY NextMatches
<1>3. EffectInv => EffectsMatchPhases
  BY DEF EffectInv, CalmInv, Calm, Kept, EffectsMatchPhases
<1>4. QED
  BY <1>1, <1>2, <1>3, CampaignsInductive, PTL DEF Spec

-----------------------------------------------------------------------------
(* The order of the phases, while one worker executes the campaign.        *)

\* The phases a worker has before it, and the one it is in, are due and not completed.
Queued(th) ==
  /\ \A p \in th.ready : Due(p) /\ p \notin Done /\ p # th.at
  /\ th.at # Nobody => Due(th.at) /\ th.at \notin Done
  /\ th.pc = "idle" => th.ready = {}
  /\ th.pc \in {"idle", "next"} => th.at = Nobody

OrderInv ==
  ~overlap =>
    /\ Alone
    /\ \A w \in Workers : Queued(thread[w])
    /\ \A p \in Phases : phase[p] # "pending" => Due(p)
    /\ \A i \in StepIds : Due(recorded[i])

\* Nothing that was completed is taken up again.
CompletedStays == [][~overlap' => Done \subseteq Done']_vars

\* A step of the only worker: of the phases, only the one it is in, or gets to, may change,
\* and the effect it records, if any, is of the phase it is in.
LEMMA OrderStep ==
  ASSUME CampaignInv, OrderInv, ~overlap, overlap' = overlap, NEW w \in Workers, Active(w),
         NEW th, th = thread'[w], Queued(th)', th.at \in Phases \cup {Nobody},
         th.at \in Phases => Due(th.at) /\ th.at \notin Done,
         \A u \in Threads \ {w} : thread'[u] = thread[u],
         phase' \in [Phases -> PhaseStatus],
         \A p \in Phases \ {thread[w].at, th.at} : phase'[p] = phase[p],
         \/ recorded' = recorded
         \/ thread[w].at \in Phases /\ recorded' = Append(recorded, thread[w].at)
  PROVE  OrderInv' /\ Done \subseteq Done'
<1>1. /\ Alone /\ Queued(thread[w]) /\ (\A v \in Workers : Queued(thread[v]))
      /\ \A p \in Phases : phase[p] # "pending" => Due(p)
      /\ \A i \in StepIds : Due(recorded[i])
  BY DEF OrderInv
<1>2. thread[w].at \in Phases => Due(thread[w].at) /\ thread[w].at \notin Done
  BY <1>1, CampaignsAssumption DEF Queued
<1>3. Done \subseteq Done'
  BY <1>2 DEF Done
<1>4. \A p : Due(p) => Due(p)'
  BY <1>3 DEF Due
<1>5. ASSUME NEW v \in Workers, v # w
      PROVE  /\ thread'[v] = thread[v] /\ thread[v].pc = "idle"
             /\ thread[v].ready = {} /\ thread[v].at = Nobody
  BY <1>1, <1>5 DEF Threads, Alone, Active, Queued
<1>6. Alone'
  BY <1>5 DEF Alone, Active
<1>7. ASSUME NEW v \in Workers PROVE Queued(thread[v])'
  <2>1. CASE v = w
    BY <2>1
  <2>2. CASE v # w
    BY <1>5, <2>2 DEF Queued
  <2>3. QED
    BY <2>1, <2>2
<1>8. \A p \in Phases : phase'[p] # "pending" => Due(p)'
  BY <1>1, <1>2, <1>4
<1>9. (\A i \in StepIds : Due(recorded[i]))'
  <2>1. recorded \in Seq(Phases)
    BY DEF CampaignInv, TypeOK
  <2>2. ASSUME NEW i \in StepIds', NEW p, p = recorded'[i] PROVE Due(p)'
    <3>1. \/ p = thread[w].at /\ p \in Phases
          \/ i \in StepIds /\ p = recorded[i]
      BY <2>1, <2>2 DEF StepIds
    <3>2. QED
      BY <1>1, <1>2, <1>4, <3>1
  <2>3. QED
    BY <2>2
<1>10. QED
  BY <1>3, <1>6, <1>7, <1>8, <1>9 DEF OrderInv

\* The worker goes on in its phase, or leaves the loop between two.
LEMMA OrderGoto ==
  ASSUME CampaignInv, OrderInv, ~overlap, overlap' = overlap, NEW w \in Workers, Active(w),
         NEW c \in PC \ {"idle", "next"}, Goto(w, c), recorded' = recorded,
         \/ phase' = phase
         \/ \E s \in PhaseStatus \ {"completed"} : Mark(thread[w].at, s)
  PROVE  OrderInv' /\ Done \subseteq Done'
<1>0. /\ w \in Threads /\ thread \in [Threads -> ThreadState] /\ thread[w] \in ThreadState
      /\ phase \in [Phases -> PhaseStatus]
  BY DEF CampaignInv, TypeOK, Threads
<1>1. Queued(thread[w])
  BY DEF OrderInv
<1>2. /\ thread'[w].pc = c /\ thread'[w].at = thread[w].at /\ thread'[w].ready = thread[w].ready
      /\ \A u \in Threads \ {w} : thread'[u] = thread[u]
  BY <1>0 DEF Goto, ThreadState
<1>3. /\ phase' \in [Phases -> PhaseStatus] /\ Done' \subseteq Done
      /\ \A p \in Phases \ {thread[w].at} : phase'[p] = phase[p]
  BY <1>0 DEF Mark, Done
<1>4. thread[w].at \in Phases => Due(thread[w].at) /\ thread[w].at \notin Done
  BY <1>1, CampaignsAssumption DEF Queued
<1>5. Done' = Done
  BY <1>3, <1>4 DEF Done
<1>6. \A p : Due(p)' <=> Due(p)
  BY <1>5 DEF Due
<1>7. ASSUME NEW th, th = thread'[w] PROVE OrderInv' /\ Done \subseteq Done'
  <2>1. th.pc = c /\ th.at = thread[w].at /\ th.ready = thread[w].ready
    BY <1>2, <1>7
  <2>2. Queued(th)'
    BY <1>1, <1>5, <1>6, <2>1 DEF Queued
  <2>3. th.at \in Phases \cup {Nobody}
    BY <1>0, <2>1 DEF ThreadState
  <2>4. QED
    BY <1>2, <1>3, <1>4, <1>7, <2>1, <2>2, <2>3, OrderStep
<1>8. QED
  BY <1>7

\* The worker is between two phases with R before it: it leaves the one it was in, which
\* may be completed by that, or begins none.
LEMMA OrderProceed ==
  ASSUME CampaignInv, OrderInv, ~overlap, overlap' = overlap, NEW w \in Workers, Active(w),
         NEW th \in ThreadState, thread' = [thread EXCEPT ![w] = th], th.at = Nobody,
         th.pc = "idle" => th.ready = {},
         \A p \in th.ready : Due(p) /\ p \notin Done /\ p # thread[w].at,
         recorded' = recorded,
         phase' = phase \/ \E s \in PhaseStatus : Mark(thread[w].at, s)
  PROVE  OrderInv' /\ Done \subseteq Done'
<1>0. /\ w \in Threads /\ thread \in [Threads -> ThreadState]
      /\ phase \in [Phases -> PhaseStatus]
  BY DEF CampaignInv, TypeOK, Threads
<1>1. thread[w].at \in Phases => thread[w].at \notin Done
  BY CampaignsAssumption DEF OrderInv, Queued
<1>2. thread'[w] = th /\ \A u \in Threads \ {w} : thread'[u] = thread[u]
  BY <1>0
<1>3. /\ phase' \in [Phases -> PhaseStatus]
      /\ \A p \in Phases \ {thread[w].at} : phase'[p] = phase[p]
  BY <1>0 DEF Mark
<1>4. Done \subseteq Done' /\ Done' \subseteq Done \cup {thread[w].at}
  BY <1>1, <1>3 DEF Done
<1>5. Queued(th)'
  <2>1. \A p \in th.ready : p # Nobody
    BY CampaignsAssumption DEF ThreadState
  <2>2. QED
    BY <1>4, <2>1 DEF Queued, Due
<1>6. QED
  BY <1>2, <1>3, <1>5, OrderStep, CampaignsAssumption

LEMMA ExecuteOrder ==
  ASSUME CampaignInv, OrderInv, ~overlap, NEW w \in Workers, Execute(w)
  PROVE  OrderInv' /\ Done \subseteq Done'
<1>0. /\ w \in Threads /\ thread \in [Threads -> ThreadState] /\ thread[w] \in ThreadState
      /\ phase \in [Phases -> PhaseStatus] /\ Placed(thread[w])
  BY DEF CampaignInv, TypeOK, Threads, ThreadInv
<1>1. Queued(thread[w])
  BY DEF OrderInv
<1>2. thread[w].ready \subseteq Phases /\ thread[w].at \in Phases \cup {Nobody}
  BY <1>0 DEF ThreadState
<1>3. Nobody \notin Phases
  BY CampaignsAssumption
<1>10. CASE Discover(w)
  <2> DEFINE th == [thread[w] EXCEPT !.pc = "next", !.ready = Ready, !.at = Nobody]
  <2>1. thread' = [thread EXCEPT ![w] = th]
    BY <1>10 DEF Discover, Proceed
  <2>2. Ready \subseteq Phases /\ \A p \in Ready : Due(p) /\ p \notin Done
    BY CampaignsAssumption DEF Ready, Due, Done
  <2>3. th \in ThreadState /\ th.at = Nobody /\ th.ready = Ready /\ th.pc = "next"
    BY <1>0, <2>2 DEF ThreadState, PC
  <2> HIDE DEF th
  <2>4. /\ Active(w) /\ thread[w].at = Nobody
        /\ UNCHANGED <<phase, recorded, overlap>>
    BY <1>1, <1>10 DEF Discover, AtTop, Active, Queued
  <2>5. ASSUME NEW e \in ThreadState, e = th PROVE OrderInv' /\ Done \subseteq Done'
    BY <1>3, <2>1, <2>2, <2>3, <2>4, <2>5, OrderProceed
  <2>6. QED
    BY <2>3, <2>5
<1>20. CASE Leave(w) \/ TimeOut(w)
  <2>1. PICK c \in {"verdict", "raised"} : Goto(w, c)
    BY <1>20 DEF Leave, TimeOut
  <2>2. Active(w) /\ UNCHANGED <<phase, recorded, overlap>>
    BY <1>20 DEF Leave, TimeOut, AtTop, Active
  <2>3. QED
    BY <2>1, <2>2, OrderGoto DEF PC
<1>30. CASE StartPhase(w)
  <2>1. PICK p \in thread[w].ready :
          /\ Mark(p, "running")
          /\ thread' = [thread EXCEPT ![w] = [thread[w] EXCEPT
               !.pc = "goals", !.at = p, !.goal = 0, !.ready = thread[w].ready \ {p}]]
    BY <1>30 DEF StartPhase
  <2>2. /\ Active(w) /\ p \in Phases /\ p # Nobody /\ Due(p) /\ p \notin Done
        /\ UNCHANGED <<recorded, overlap>>
    BY <1>1, <1>2, <1>3, <1>30 DEF StartPhase, Active, Queued
  <2>3. /\ \A u \in Threads \ {w} : thread'[u] = thread[u]
        /\ thread'[w].pc = "goals" /\ thread'[w].at = p
        /\ thread'[w].ready = thread[w].ready \ {p}
    BY <1>0, <2>1 DEF ThreadState
  <2>4. /\ phase' \in [Phases -> PhaseStatus]
        /\ phase'[p] = "running" /\ \A q \in Phases \ {p} : phase'[q] = phase[q]
    BY <1>0, <2>1, <2>2 DEF Mark, PhaseStatus
  <2>5. Done' = Done
    BY <2>2, <2>4 DEF Done
  <2>6. \A q : Due(q)' <=> Due(q)
    BY <2>5 DEF Due
  <2>7. ASSUME NEW e, e = thread'[w] PROVE OrderInv' /\ Done \subseteq Done'
    <3>1. e.pc = "goals" /\ e.at = p /\ e.ready = thread[w].ready \ {p}
      BY <2>3, <2>7
    <3>2. Queued(e)'
      BY <1>1, <2>2, <2>5, <2>6, <3>1 DEF Queued
    <3>3. QED
      BY <2>2, <2>3, <2>4, <2>7, <3>1, <3>2, OrderStep
  <2>8. QED
    BY <2>7
<1>40. CASE RunGoal(w)
  <2>1. Active(w) /\ thread[w].at \in Phases /\ UNCHANGED <<phase, overlap>>
    BY <1>0, <1>40 DEF RunGoal, Active, Placed, InPhase
  <2>2. CASE (Goto(w, "broken") \/ Goto(w, "raised")) /\ UNCHANGED <<log, recorded>>
    BY <2>1, <2>2, OrderGoto DEF PC
  <2>3. CASE /\ recorded' = Append(recorded, thread[w].at)
             /\ thread' = [thread EXCEPT ![w] = [thread[w] EXCEPT !.goal = thread[w].goal + 1]]
    <3>1. /\ \A u \in Threads \ {w} : thread'[u] = thread[u]
          /\ thread'[w].pc = thread[w].pc /\ thread'[w].at = thread[w].at
          /\ thread'[w].ready = thread[w].ready
      BY <1>0, <2>3 DEF ThreadState
    <3>2. Done' = Done /\ phase' \in [Phases -> PhaseStatus]
      BY <1>0, <2>1 DEF Done
    <3>3. Due(thread[w].at) /\ thread[w].at \notin Done
      BY <1>1, <1>3, <2>1 DEF Queued
    <3>4. ASSUME NEW e, e = thread'[w] PROVE OrderInv' /\ Done \subseteq Done'
      <4>1. e.pc = thread[w].pc /\ e.at = thread[w].at /\ e.ready = thread[w].ready
        BY <3>1, <3>4
      <4>2. Queued(e)'
        BY <1>1, <3>2, <4>1 DEF Queued, Due
      <4>3. QED
        BY <2>1, <2>3, <3>1, <3>2, <3>3, <3>4, <4>1, <4>2, OrderStep
    <3>5. QED
      BY <3>4
  <2>4. QED
    BY <1>40, <2>2, <2>3 DEF RunGoal
<1>50. CASE PassGate(w)
  <2>1. PICK c \in {"completed", "broken", "raised"} : Goto(w, c)
    BY <1>50 DEF PassGate
  <2>2. /\ Active(w) /\ UNCHANGED <<recorded, overlap>>
        /\ phase' = phase \/ Mark(thread[w].at, "pending")
    BY <1>50 DEF PassGate, GoalsDone, Active
  <2>3. QED
    BY <2>1, <2>2, OrderGoto DEF PC, PhaseStatus
<1>60. CASE CompletePhase(w)
  <2> DEFINE th == [thread[w] EXCEPT !.pc = "next", !.ready = thread[w].ready, !.at = Nobody]
  <2>1. thread' = [thread EXCEPT ![w] = th]
    BY <1>60 DEF CompletePhase, Proceed
  <2>2. th \in ThreadState /\ th.at = Nobody /\ th.ready = thread[w].ready /\ th.pc = "next"
    BY <1>0 DEF ThreadState, PC
  <2>3. Active(w) /\ Mark(thread[w].at, "completed") /\ UNCHANGED <<recorded, overlap>>
    BY <1>60 DEF CompletePhase, GoalsDone, Active
  <2> HIDE DEF th
  <2>4. ASSUME NEW e \in ThreadState, e = th PROVE OrderInv' /\ Done \subseteq Done'
    BY <1>1, <2>1, <2>2, <2>3, <2>4, OrderProceed DEF Queued, PhaseStatus
  <2>5. QED
    BY <2>2, <2>4
<1>70. CASE FailPhase(w)
  <2> DEFINE th == [thread[w] EXCEPT
                      !.failed = TRUE, !.ready = {},
                      !.pc = IF options.compensate THEN "compensate" ELSE "next",
                      !.at = IF options.compensate THEN thread[w].at ELSE Nobody]
  <2>1. thread' = [thread EXCEPT ![w] = th]
    BY <1>70 DEF FailPhase
  <2>2. /\ th \in ThreadState /\ th.ready = {}
        /\ \/ th.pc = "compensate" /\ th.at = thread[w].at
           \/ th.pc = "next" /\ th.at = Nobody
    BY <1>0 DEF ThreadState, PC
  <2>3. /\ Active(w) /\ thread[w].at \in Phases /\ Mark(thread[w].at, "failed")
        /\ UNCHANGED <<recorded, overlap>>
    BY <1>0, <1>70 DEF FailPhase, Active, Placed, InPhase
  <2> HIDE DEF th
  <2>4. CASE th.pc = "next" /\ th.at = Nobody
    <3>1. ASSUME NEW e \in ThreadState, e = th PROVE OrderInv' /\ Done \subseteq Done'
      BY <2>1, <2>2, <2>3, <2>4, <3>1, OrderProceed DEF PhaseStatus
    <3>2. QED
      BY <2>2, <3>1
  <2>5. CASE th.pc = "compensate" /\ th.at = thread[w].at
    <3>1. thread'[w] = th /\ \A u \in Threads \ {w} : thread'[u] = thread[u]
      BY <1>0, <2>1
    <3>2. /\ phase' \in [Phases -> PhaseStatus] /\ phase'[thread[w].at] = "failed"
          /\ \A q \in Phases \ {thread[w].at} : phase'[q] = phase[q]
      BY <1>0, <2>3 DEF Mark, PhaseStatus
    <3>3. Due(thread[w].at) /\ thread[w].at \notin Done
      BY <1>1, <1>3, <2>3 DEF Queued
    <3>4. Done' = Done
      BY <3>2, <3>3 DEF Done
    <3>5. ASSUME NEW e, e = th PROVE OrderInv' /\ Done \subseteq Done'
      <4>1. e.pc = "compensate" /\ e.at = thread[w].at /\ e.ready = {} /\ e = thread'[w]
        BY <2>2, <2>5, <3>1, <3>5
      <4>2. Queued(e)'
        BY <3>3, <3>4, <4>1 DEF Queued, Due
      <4>3. QED
        BY <2>3, <3>1, <3>2, <3>3, <4>1, <4>2, OrderStep
    <3>6. QED
      BY <3>5
  <2>6. QED
    BY <2>2, <2>4, <2>5
<1>80. CASE PhaseCompensated(w)
  <2> DEFINE th == [thread[w] EXCEPT !.pc = "next", !.ready = {}, !.at = Nobody]
  <2>1. thread' = [thread EXCEPT ![w] = th]
    BY <1>80 DEF PhaseCompensated, Proceed
  <2>2. th \in ThreadState /\ th.at = Nobody /\ th.ready = {} /\ th.pc = "next"
    BY <1>0 DEF ThreadState, PC
  <2>3. Active(w) /\ UNCHANGED <<phase, recorded, overlap>>
    BY <1>80 DEF PhaseCompensated, Active
  <2> HIDE DEF th
  <2>4. ASSUME NEW e \in ThreadState, e = th PROVE OrderInv' /\ Done \subseteq Done'
    BY <2>1, <2>2, <2>3, <2>4, OrderProceed
  <2>5. QED
    BY <2>2, <2>4
<1>90. CASE Conclude(w) \/ Abort(w) \/ Withdrawn(w)
  <2> DEFINE th == IF Abort(w) /\ options.compensate THEN [Resting EXCEPT !.pc = "withdraw"]
                                                     ELSE Resting
  <2>1. thread' = [thread EXCEPT ![w] = th]
    BY <1>90 DEF Conclude, Abort, Withdrawn
  <2>2. th \in ThreadState /\ th.at = Nobody /\ th.ready = {}
    BY RestingState DEF Resting, PC
  <2>3. Active(w) /\ UNCHANGED <<phase, recorded, overlap>>
    BY <1>90 DEF Conclude, Abort, Withdrawn, Active
  <2> HIDE DEF th
  <2>4. ASSUME NEW e \in ThreadState, e = th PROVE OrderInv' /\ Done \subseteq Done'
    BY <2>1, <2>2, <2>3, <2>4, OrderProceed
  <2>5. QED
    BY <2>2, <2>4
<1>100. QED
  BY <1>10, <1>20, <1>30, <1>40, <1>50, <1>60, <1>70, <1>80, <1>90 DEF Execute

LEMMA HealOrder ==
  ASSUME CampaignInv, OrderInv, ~overlap, NEW w \in Workers, Heal(w)
  PROVE  OrderInv' /\ Done \subseteq Done'
<1>1. CASE BeginHealing(w)
  BY <1>1, OrderGoto DEF BeginHealing, Active, PC, PhaseStatus
<1>2. CASE SayRecovering(w)
  BY <1>2, OrderGoto DEF SayRecovering, Active, PC
<1>3. CASE CountAttempt(w) \/ Diagnose(w) \/ RolledBack(w)
  <2>1. PICK c \in {"recovered", "failed", "diagnose", "rollback"} : Goto(w, c)
    BY <1>3 DEF CountAttempt, Diagnose, RolledBack, Healed
  <2>2. Active(w) /\ UNCHANGED <<phase, recorded, overlap>>
    BY <1>3 DEF CountAttempt, Diagnose, RolledBack, Active
  <2>3. QED
    BY <2>1, <2>2, OrderGoto DEF PC
<1>4. CASE RetryPhase(w)
  BY <1>4, OrderGoto DEF RetryPhase, Active, PC, PhaseStatus
<1>5. CASE ResumeCampaign(w)
  <2> DEFINE th == [thread[w] EXCEPT !.pc = "next", !.ready = thread[w].ready, !.at = Nobody]
  <2>0. thread[w] \in ThreadState /\ Queued(thread[w])
    BY DEF CampaignInv, TypeOK, Threads, OrderInv
  <2>1. thread' = [thread EXCEPT ![w] = th]
    BY <1>5 DEF ResumeCampaign, Proceed
  <2>2. th \in ThreadState /\ th.at = Nobody /\ th.ready = thread[w].ready /\ th.pc = "next"
    BY <2>0 DEF ThreadState, PC
  <2>3. Active(w) /\ UNCHANGED <<phase, recorded, overlap>>
    BY <1>5 DEF ResumeCampaign, Active
  <2> HIDE DEF th
  <2>4. ASSUME NEW e \in ThreadState, e = th PROVE OrderInv' /\ Done \subseteq Done'
    BY <2>0, <2>1, <2>2, <2>3, <2>4, OrderProceed DEF Queued
  <2>5. QED
    BY <2>2, <2>4
<1>6. QED
  BY <1>1, <1>2, <1>3, <1>4, <1>5 DEF Heal

\* Nobody moves in the campaign.
LEMMA OrderSame ==
  ASSUME CampaignInv, OrderInv, ~overlap, UNCHANGED <<phase, recorded>>,
         \A w \in Workers : thread'[w] = thread[w]
  PROVE  OrderInv' /\ Done \subseteq Done'
BY DEF OrderInv, Alone, Active, Queued, Due, Done, StepIds

LEMMA EnterOrder ==
  ASSUME CampaignInv, OrderInv, ~overlap, NEW w \in Workers, Enter(w), ~overlap'
  PROVE  OrderInv' /\ Done \subseteq Done'
<1>0. /\ w \in Threads /\ thread \in [Threads -> ThreadState]
      /\ \A v \in Workers : Queued(thread[v])
  BY DEF CampaignInv, TypeOK, Threads, OrderInv
<1>1. /\ UNCHANGED <<phase, recorded>> /\ \A v \in Workers : ~Active(v)
      /\ thread' = [thread EXCEPT ![w] = [Resting EXCEPT !.pc = "next"]]
  BY DEF Enter
<1>2. /\ [Resting EXCEPT !.pc = "next"].at = Nobody /\ [Resting EXCEPT !.pc = "next"].ready = {}
      /\ [Resting EXCEPT !.pc = "next"].pc = "next"
  BY DEF Resting
<1>3. /\ thread'[w].at = Nobody /\ thread'[w].ready = {} /\ thread'[w].pc = "next"
      /\ \A v \in Workers \ {w} : thread'[v] = thread[v]
  BY <1>0, <1>1, <1>2 DEF Threads
<1>4. Alone'
  BY <1>1, <1>3 DEF Alone, Active
<1>5. Done' = Done /\ \A p : Due(p)' <=> Due(p)
  BY <1>1 DEF Done, Due
<1>6. ASSUME NEW v \in Workers PROVE Queued(thread[v])'
  <2>1. CASE v = w
    BY <1>3, <2>1 DEF Queued
  <2>2. CASE v # w
    BY <1>0, <1>3, <1>5, <2>2 DEF Queued
  <2>3. QED
    BY <2>1, <2>2
<1>7. QED
  BY <1>1, <1>4, <1>5, <1>6 DEF OrderInv, StepIds

LEMMA InitOrder == Init => OrderInv
<1> SUFFICES ASSUME Init PROVE OrderInv
  OBVIOUS
<1>1. \A t \in Threads : thread[t].pc = "idle" /\ thread[t].at = Nobody /\ thread[t].ready = {}
  BY DEF Init, Resting
<1>2. StepIds = {} /\ \A p \in Phases : phase[p] = "pending"
  BY DEF Init, StepIds
<1>3. QED
  BY <1>1, <1>2 DEF OrderInv, Alone, Active, Queued, Threads

\* An overlap is not forgotten.
LEMMA OverlapStays ==
  ASSUME [Next]_vars, ~overlap'
  PROVE  ~overlap
<1>1. ASSUME NEW w \in Workers, Enter(w) \/ Execute(w) \/ Heal(w) PROVE ~overlap
  <2>1. CASE Enter(w)
    BY <2>1 DEF Enter
  <2>2. CASE Heal(w)
    BY <2>2 DEF Heal, BeginHealing, SayRecovering, CountAttempt, Diagnose, RolledBack,
                RetryPhase, ResumeCampaign
  <2>3. CASE Execute(w)
    BY <2>3 DEF Execute, Discover, Leave, TimeOut, StartPhase, RunGoal, PassGate,
                CompletePhase, FailPhase, PhaseCompensated, Conclude, Abort, Withdrawn
  <2>4. QED
    BY <1>1, <2>1, <2>2, <2>3
<1>2. ASSUME NEW o \in Operators, Cancel(o) \/ Rollback(o) \/ OperatorDone(o) PROVE ~overlap
  BY <1>2 DEF Cancel, Rollback, OperatorDone
<1>3. ASSUME NEW t \in Threads, Undo(t) PROVE ~overlap
  BY <1>3 DEF Undo, UndoStep, CompensatePhase, CompensateAll
<1>4. CASE UNCHANGED vars
  BY <1>4 DEF vars
<1>5. QED
  BY <1>1, <1>2, <1>3, <1>4 DEF Next

LEMMA NextOrder ==
  CampaignInv /\ OrderInv /\ [Next]_vars => OrderInv' /\ (~overlap' => Done \subseteq Done')
<1> SUFFICES ASSUME CampaignInv, OrderInv, [Next]_vars, ~overlap'
             PROVE  OrderInv' /\ Done \subseteq Done'
  BY DEF OrderInv
<1>0. ~overlap
  BY OverlapStays
<1>1. ASSUME NEW w \in Workers, Enter(w) \/ Execute(w) \/ Heal(w)
      PROVE  OrderInv' /\ Done \subseteq Done'
  BY <1>0, <1>1, EnterOrder, ExecuteOrder, HealOrder
<1>2. ASSUME NEW o \in Operators, Cancel(o) \/ Rollback(o) \/ OperatorDone(o)
      PROVE  OrderInv' /\ Done \subseteq Done'
  <2>1. \A u \in Threads \ {o} : thread'[u] = thread[u]
    BY <1>2 DEF CampaignInv, TypeOK, Threads, Cancel, Rollback, OperatorDone, Goto
  <2>2. \A w \in Workers : thread'[w] = thread[w]
    BY <2>1, CampaignsAssumption DEF Threads
  <2>3. UNCHANGED <<phase, recorded>>
    BY <1>2 DEF Cancel, Rollback, OperatorDone
  <2>4. QED
    BY <1>0, <2>2, <2>3, OrderSame
<1>3. ASSUME NEW t \in Threads, Undo(t) PROVE OrderInv' /\ Done \subseteq Done'
  <2>1. UNCHANGED <<phase, recorded, thread>>
    BY <1>3 DEF Undo, UndoStep, CompensatePhase, CompensateAll
  <2>2. QED
    BY <1>0, <2>1, OrderSame
<1>4. CASE UNCHANGED vars
  BY <1>0, <1>4, OrderSame DEF vars
<1>5. QED
  BY <1>1, <1>2, <1>3, <1>4 DEF Next

\* While one worker at a time executes the campaign, no phase is begun, marked or recorded
\* in the saga before its prerequisites are completed, whatever was healed, retried,
\* compensated or cancelled in between (get_ready_phases, _execute_phase).
THEOREM CampaignsPhasesInOrder == Spec => []PhasesInOrder
<1>1. OrderInv => PhasesInOrder
  BY DEF OrderInv, PhasesInOrder
<1>2. QED
  BY <1>1, InitOrder, NextOrder, CampaignsInductive, PTL DEF Spec

\* While one worker at a time executes the campaign, a phase that is completed stays so.
THEOREM CampaignsCompletedStays == Spec => CompletedStays
<1>1. CampaignInv /\ OrderInv /\ [Next]_vars => [~overlap' => Done \subseteq Done']_vars
  BY NextOrder
<1>2. QED
  BY <1>1, InitOrder, NextOrder, CampaignsInductive, PTL DEF Spec, CompletedStays
=============================================================================
