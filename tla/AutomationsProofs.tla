-------------------------- MODULE AutomationsProofs --------------------------
(***************************************************************************)
(* The safety of Automations for every set of automations and nodes, every *)
(* period, hour, quota and horizon.                                        *)
(***************************************************************************)
EXTENDS Automations, FiniteSetTheorems, TLAPS

-----------------------------------------------------------------------------
(* Slots, hours and keys.                                                  *)

LEMMA Division ==
  ASSUME NEW n \in Nat, NEW d \in Nat \ {0}
  PROVE  /\ n \div d \in Nat
         /\ d * (n \div d) <= n
         /\ n < d * (n \div d + 1)
BY SMT

LEMMA DivisionIsMonotonic ==
  ASSUME NEW m \in Nat, NEW n \in Nat, m <= n, NEW d \in Nat \ {0}
  PROVE  m \div d <= n \div d
BY Division, SMT

LEMMA NextCronIsASlot ==
  ASSUME NEW t \in 0..Horizon
  PROVE  NextCron(t) \in Slots
<1>1. Period \in Nat \ {0} /\ Horizon \in Nat /\ t \in Nat /\ t <= Horizon
  BY AutomationsAssumption
<1>2. t \div Period \in Nat /\ Period * (t \div Period) <= t
  BY <1>1, Division
<1>3. Period * (t \div Period + 1) = Period * (t \div Period) + Period
  BY <1>1, <1>2
<1>4. Period * (t \div Period) \in Nat
  BY <1>1, <1>2
<1>5. QED
  BY <1>1, <1>2, <1>3, <1>4 DEF NextCron, Slots

LEMMA KeysOfSlots ==
  ASSUME NEW s \in Slots
  PROVE  KeyOf(s) \in Keys
<1>1. /\ Second \in Nat \ {0} /\ Horizon + Period \in Nat
      /\ s \in Nat /\ s <= Horizon + Period
  BY AutomationsAssumption DEF Slots
<1>2. /\ s \div Second \in Nat /\ (Horizon + Period) \div Second \in Nat
      /\ s \div Second <= (Horizon + Period) \div Second
  BY <1>1, Division, DivisionIsMonotonic
<1>3. QED
  BY <1>2 DEF KeyOf, Keys

LEMMA ThisHourIsAnHour ==
  ASSUME now \in 0..Horizon
  PROVE  ThisHour \in Hours /\ ThisHour # Never
<1>1. Hour \in Nat \ {0} /\ Horizon \in Nat /\ now \in Nat /\ now <= Horizon
  BY AutomationsAssumption
<1>2. /\ now \div Hour \in Nat /\ Horizon \div Hour \in Nat
      /\ now \div Hour <= Horizon \div Hour
  BY <1>1, Division, DivisionIsMonotonic
<1>3. QED
  BY <1>2 DEF ThisHour, Hours, Never

-----------------------------------------------------------------------------
(* Rows and schedulers.                                                    *)

LEMMA CeilingType == Ceiling \in Nat \ {0} /\ MaxRunsPerHour <= Ceiling
BY AutomationsAssumption DEF Ceiling

\* Both invariants together: the quota is inductive once the types are.
AutomationsInv == TypeOK /\ QuotaIsTasks

LEMMA RowWritten ==
  ASSUME auto \in [Automations -> Row], NEW a \in Automations, NEW row \in Row,
         auto' = [auto EXCEPT ![a] = row]
  PROVE  /\ auto' \in [Automations -> Row]
         /\ auto'[a] = row
         /\ \A b \in Automations \ {a} : auto'[b] = auto[b]
OBVIOUS

LEMMA UnleasedRow ==
  ASSUME NEW row \in Row
  PROVE  /\ Unleased(row) \in Row
         /\ Unleased(row).owner = NoNode
BY DEF Unleased, Row

LEMMA ScheduledRow ==
  ASSUME NEW row \in Row, NEW f \in Slots \cup {NoSlot}
  PROVE  /\ [row EXCEPT !.fire = f] \in Row
         /\ [row EXCEPT !.fire = f].owner = row.owner
BY DEF Row

LEMMA SeenIsATime ==
  ASSUME TypeOK, NEW n \in Nodes, NEW a \in Automations
  PROVE  NextFire(n, a) \in Slots \cup {NoSlot}
<1>1. node[n].seen \in 0..Horizon
  BY DEF TypeOK, Scheduler
<1>2. QED
  BY <1>1, NextCronIsASlot DEF NextFire

LEMMA AdvancedRow ==
  ASSUME TypeOK, NEW n \in Nodes, NEW a \in Automations, AdvanceSchedule(n, a)
  PROVE  auto' \in [Automations -> Row] /\ auto'[a].owner = NoNode
<1>1. auto \in [Automations -> Row] /\ auto[a] \in Row
  BY DEF TypeOK
<1> DEFINE row == [Unleased(auto[a]) EXCEPT !.fire = NextFire(n, a)]
<1>2. row \in Row /\ row.owner = NoNode
  BY <1>1, UnleasedRow, SeenIsATime, ScheduledRow
<1>3. auto' = [auto EXCEPT ![a] = row]
  BY DEF AdvanceSchedule
<1> HIDE DEF row
<1>4. QED
  BY <1>1, <1>2, <1>3, RowWritten

LEMMA PhaseMoved ==
  ASSUME node \in [Nodes -> Scheduler], NEW n \in Nodes,
         NEW p \in {"idle", "ticking", "working", "dispatch", "advance", "release"}, Goto(n, p)
  PROVE  node' \in [Nodes -> Scheduler]
BY DEF Goto, Scheduler

LEMMA ServedIsIdle ==
  ASSUME node \in [Nodes -> Scheduler], NEW n \in Nodes, Served(n)
  PROVE  node' \in [Nodes -> Scheduler]
BY DEF Served, Scheduler

LEMMA IdleIsAScheduler == Idle \in Scheduler
BY AutomationsAssumption DEF Idle, Scheduler

LEMMA Reset ==
  ASSUME node \in [Nodes -> Scheduler], NEW n \in Nodes, node' = [node EXCEPT ![n] = Idle]
  PROVE  node' \in [Nodes -> Scheduler]
BY IdleIsAScheduler

-----------------------------------------------------------------------------
(* The charges.                                                            *)

LEMMA CreatedFinite ==
  ASSUME NEW h \in Hours
  PROVE  IsFiniteSet(CreatedIn(h))
<1>1. IsFiniteSet(Keys)
  <2>1. Second \in Nat \ {0} /\ Horizon + Period \in Nat
    BY AutomationsAssumption
  <2>2. (Horizon + Period) \div Second \in Nat
    BY <2>1, Division
  <2>3. QED
    BY <2>2, FS_Interval DEF Keys
<1>2. IsFiniteSet(Automations \X Keys)
  BY <1>1, AutomationsAssumption, FS_Product
<1>3. QED
  BY <1>2, FS_Subset DEF CreatedIn

\* No task and no charge, and no run that claims a task there is not.
LEMMA QuotaStays ==
  ASSUME QuotaIsTasks, UNCHANGED <<task, used>>,
         \A a \in Automations, s \in Slots :
            run'[a][s] = "enqueued" => \/ run[a][s] = "enqueued"
                                       \/ task[a][KeyOf(s)] # Never
  PROVE  QuotaIsTasks'
BY DEF QuotaIsTasks, CreatedIn

\* One task, charged to the hour it is created in.
LEMMA QuotaCharged ==
  ASSUME TypeOK, QuotaIsTasks, NEW a \in Automations, NEW s \in Slots,
         task[a][KeyOf(s)] = Never,
         used' = [used EXCEPT ![ThisHour] = @ + 1],
         task' = [task EXCEPT ![a][KeyOf(s)] = ThisHour],
         \A b \in Automations, t \in Slots :
            run'[b][t] = "enqueued" => run[b][t] = "enqueued" \/ (b = a /\ t = s)
  PROVE  QuotaIsTasks'
<1>1. KeyOf(s) \in Keys /\ ThisHour \in Hours /\ ThisHour # Never
  BY KeysOfSlots, ThisHourIsAnHour DEF TypeOK
<1> DEFINE k == KeyOf(s)
           hour == ThisHour
<1>2. /\ k \in Keys /\ hour \in Hours /\ hour # Never
      /\ task \in [Automations -> [Keys -> Hours \cup {Never}]]
      /\ used \in [Hours -> 0..Ceiling]
      /\ task[a][k] = Never
      /\ used' = [used EXCEPT ![hour] = @ + 1]
      /\ task' = [task EXCEPT ![a][k] = hour]
  BY <1>1 DEF TypeOK
<1>3. \A t \in Slots : KeyOf(t) \in Keys
  BY KeysOfSlots
<1> HIDE DEF hour
<1>4. /\ task'[a][k] = hour
      /\ \A b \in Automations, j \in Keys : <<b, j>> # <<a, k>> => task'[b][j] = task[b][j]
  BY <1>2
<1>5. ASSUME NEW h \in Hours
      PROVE  used'[h] = Cardinality(CreatedIn(h)')
  <2>1. used[h] = Cardinality(CreatedIn(h)) /\ used[h] \in Nat
    BY <1>2, CeilingType DEF QuotaIsTasks
  <2>2. CASE h = hour
    <3>1. CreatedIn(h)' = CreatedIn(h) \cup {<<a, k>>}
      <4>1. ASSUME NEW b \in Automations, NEW j \in Keys
            PROVE  <<b, j>> \in CreatedIn(h)' <=> <<b, j>> \in CreatedIn(h) \cup {<<a, k>>}
        BY <1>2, <1>4, <2>2 DEF CreatedIn
      <4>2. QED
        BY <1>2, <4>1 DEF CreatedIn
    <3>2. <<a, k>> \notin CreatedIn(h)
      BY <1>2, <2>2 DEF CreatedIn
    <3>3. used'[h] = used[h] + 1
      BY <1>2, <2>2
    <3>4. Cardinality(CreatedIn(h) \cup {<<a, k>>}) = Cardinality(CreatedIn(h)) + 1
      BY <3>2, CreatedFinite, FS_AddElement
    <3>5. QED
      BY <2>1, <3>1, <3>3, <3>4
  <2>3. CASE h # hour
    <3>1. CreatedIn(h)' = CreatedIn(h)
      <4>1. ASSUME NEW b \in Automations, NEW j \in Keys
            PROVE  <<b, j>> \in CreatedIn(h)' <=> <<b, j>> \in CreatedIn(h)
        <5>1. CASE <<b, j>> = <<a, k>>
          <6>1. h # Never
            BY DEF Hours, Never
          <6>2. QED
            BY <1>2, <1>4, <2>3, <5>1, <6>1 DEF CreatedIn
        <5>2. CASE <<b, j>> # <<a, k>>
          BY <1>4, <5>2 DEF CreatedIn
        <5>3. QED
          BY <5>1, <5>2
      <4>2. QED
        BY <4>1 DEF CreatedIn
    <3>2. used'[h] = used[h]
      BY <1>2, <2>3
    <3>3. QED
      BY <2>1, <3>1, <3>2
  <2>4. QED
    BY <2>2, <2>3
<1>6. ASSUME NEW b \in Automations, NEW t \in Slots, run'[b][t] = "enqueued"
      PROVE  task'[b][KeyOf(t)] # Never
  <2>1. CASE run[b][t] = "enqueued"
    <3>1. task[b][KeyOf(t)] # Never
      BY <2>1 DEF QuotaIsTasks
    <3>2. QED
      BY <1>2, <1>3, <1>4, <3>1
  <2>2. CASE b = a /\ t = s
    BY <1>2, <1>4, <2>2
  <2>3. QED
    BY <1>6, <2>1, <2>2
<1>7. QED
  BY <1>5, <1>6 DEF QuotaIsTasks

-----------------------------------------------------------------------------
(* The steps.                                                              *)

\* A step that writes rows or schedulers only.
LEMMA RowsOnly ==
  ASSUME AutomationsInv, auto' \in [Automations -> Row], node' \in [Nodes -> Scheduler],
         faults' \in 0..MaxFaults, UNCHANGED <<now, run, task, used>>
  PROVE  AutomationsInv'
<1>1. QuotaIsTasks'
  BY QuotaStays DEF AutomationsInv
<1>2. QED
  BY <1>1 DEF AutomationsInv, TypeOK

LEMMA Stays ==
  ASSUME AutomationsInv, UNCHANGED vars
  PROVE  AutomationsInv'
BY RowsOnly DEF AutomationsInv, TypeOK, vars

LEMMA PassSafe ==
  ASSUME AutomationsInv, Pass
  PROVE  AutomationsInv'
<1>1. now' \in 0..Horizon
  BY AutomationsAssumption DEF Pass, AutomationsInv, TypeOK
<1>2. QuotaIsTasks'
  BY QuotaStays DEF AutomationsInv, Pass
<1>3. QED
  BY <1>1, <1>2 DEF AutomationsInv, TypeOK, Pass

LEMMA FaultCounted ==
  ASSUME faults \in 0..MaxFaults, faults < MaxFaults, faults' = faults + 1
  PROVE  faults' \in 0..MaxFaults
BY AutomationsAssumption

LEMMA LapseSafe ==
  ASSUME AutomationsInv, NEW a \in Automations, Lapse(a), faults' \in 0..MaxFaults
  PROVE  AutomationsInv'
<1>1. auto' \in [Automations -> Row]
  BY DEF Lapse, AutomationsInv, TypeOK, Row
<1>2. QED
  BY <1>1, RowsOnly DEF Lapse, AutomationsInv, TypeOK

\* What the user's requests write is a row.
LEMMA EditSafe ==
  ASSUME AutomationsInv, NEW a \in Automations, NEW row \in Row, Edit(a, row), UNCHANGED run
  PROVE  AutomationsInv'
<1>1. auto' \in [Automations -> Row]
  BY RowWritten DEF Edit, AutomationsInv, TypeOK
<1>2. QED
  BY <1>1, RowsOnly DEF Edit, AutomationsInv, TypeOK

LEMMA UserSafe ==
  ASSUME AutomationsInv, NEW a \in Automations, User(a)
  PROVE  AutomationsInv'
<1>1. /\ auto[a] \in Row /\ Unleased(auto[a]) \in Row
      /\ now \in 0..Horizon
      /\ NextCron(now) \in Slots \cup {NoSlot}
      /\ NoSlot \in Slots \cup {NoSlot}
      /\ now \in Slots \cup {NoSlot}
  <2>1. auto[a] \in Row /\ now \in 0..Horizon
    BY DEF AutomationsInv, TypeOK
  <2>2. now \in Slots
    BY <2>1, AutomationsAssumption DEF Slots
  <2>3. QED
    BY <2>1, <2>2, UnleasedRow, NextCronIsASlot
<1>2. CASE Create(a)
  <2>1. PICK trigger \in {"recurring", "one_time"} :
          Edit(a, [auto[a] EXCEPT !.status = "active", !.trigger = trigger,
                     !.fire = IF trigger = "recurring" THEN NextCron(now) ELSE NoSlot])
    BY <1>2 DEF Create
  <2>2. [auto[a] EXCEPT !.status = "active", !.trigger = trigger,
           !.fire = IF trigger = "recurring" THEN NextCron(now) ELSE NoSlot] \in Row
    BY <1>1 DEF Row
  <2>3. QED
    BY <1>2, <2>1, <2>2, EditSafe DEF Create
<1>3. CASE Pause(a)
  <2>1. [Unleased(auto[a]) EXCEPT !.status = "paused", !.fire = NoSlot] \in Row
    BY <1>1 DEF Row
  <2>2. QED
    BY <1>3, <2>1, EditSafe DEF Pause
<1>4. CASE Resume(a)
  <2>1. [Unleased(auto[a]) EXCEPT !.status = "active",
                                  !.fire = IF Cron(a) THEN NextCron(now) ELSE @] \in Row
    BY <1>1 DEF Row
  <2>2. QED
    BY <1>4, <2>1, EditSafe DEF Resume
<1>5. CASE Trigger(a)
  BY <1>1, <1>5, ScheduledRow, EditSafe DEF Trigger
<1>6. CASE Patch(a)
  BY <1>1, <1>6, ScheduledRow, EditSafe DEF Patch
<1>7. CASE Delete(a)
  <2>1. auto' \in [Automations -> Row]
    <3>1. [Unleased(auto[a]) EXCEPT !.status = "deleted", !.fire = NoSlot] \in Row
      BY <1>1 DEF Row
    <3>2. QED
      BY <1>7, <3>1, RowWritten DEF Delete, Edit, AutomationsInv, TypeOK
  <2>2. run' \in [Automations -> [Slots -> {"none", "enqueued", "skipped"}]]
    BY <1>7 DEF Delete, AutomationsInv, TypeOK
  <2>3. \A b \in Automations, s \in Slots :
          run'[b][s] = "enqueued" => run[b][s] = "enqueued"
    BY <1>7 DEF Delete, AutomationsInv, TypeOK
  <2>4. QuotaIsTasks'
    BY <1>7, <2>3, QuotaStays DEF Delete, Edit, AutomationsInv
  <2>5. QED
    BY <1>7, <2>1, <2>2, <2>4 DEF Delete, Edit, AutomationsInv, TypeOK
<1>8. QED
  BY <1>2, <1>3, <1>4, <1>5, <1>6, <1>7 DEF User

-----------------------------------------------------------------------------
(* The scheduler.                                                          *)

LEMMA TickSafe ==
  ASSUME AutomationsInv, NEW n \in Nodes, Tick(n)
  PROVE  AutomationsInv'
<1>1. now \in 0..Horizon /\ node \in [Nodes -> Scheduler]
  BY DEF AutomationsInv, TypeOK
<1>2. [Idle EXCEPT !.phase = "ticking", !.seen = now] \in Scheduler
  BY <1>1, IdleIsAScheduler DEF Scheduler
<1>3. node' \in [Nodes -> Scheduler]
  BY <1>1, <1>2 DEF Tick
<1>4. QED
  BY <1>3, RowsOnly DEF Tick, AutomationsInv, TypeOK

LEMMA ClaimSafe ==
  ASSUME AutomationsInv, NEW n \in Nodes, Claim(n)
  PROVE  AutomationsInv'
<1> DEFINE due == {a \in Automations : Claimable(a)}
<1>1. auto \in [Automations -> Row] /\ node \in [Nodes -> Scheduler]
  BY DEF AutomationsInv, TypeOK
<1>2. CASE due = {}
  BY <1>1, <1>2, Reset, RowsOnly DEF Claim, AutomationsInv, TypeOK
<1>3. CASE due # {}
  <2>1. auto' = [a \in Automations |->
                   IF a \in due THEN [auto[a] EXCEPT !.owner = n, !.expired = FALSE]
                   ELSE auto[a]]
    BY <1>3 DEF Claim
  <2>2. ASSUME NEW a \in Automations
        PROVE  [auto[a] EXCEPT !.owner = n, !.expired = FALSE] \in Row
    BY <1>1 DEF Row
  <2>3. auto' \in [Automations -> Row]
    <3> HIDE DEF due
    <3>1. QED
      BY <1>1, <2>1, <2>2
  <2>4. {<<a, auto[a].fire>> : a \in due} \in SUBSET (Automations \X Slots)
    <3>1. ASSUME NEW a \in due
          PROVE  <<a, auto[a].fire>> \in Automations \X Slots
      BY <1>1 DEF Claimable, Due, Row
    <3>2. QED
      BY <3>1
  <2>5. node' = [node EXCEPT ![n].phase = "working",
                             ![n].batch = {<<a, auto[a].fire>> : a \in due}]
    BY <1>3 DEF Claim
  <2>6. node' \in [Nodes -> Scheduler]
    <3> DEFINE claimed == {<<a, auto[a].fire>> : a \in due}
    <3>1. claimed \in SUBSET (Automations \X Slots)
      BY <2>4
    <3>2. node' = [node EXCEPT ![n].phase = "working", ![n].batch = claimed]
      BY <2>5
    <3> HIDE DEF claimed
    <3>3. QED
      BY <1>1, <3>1, <3>2 DEF Scheduler
  <2>7. QED
    BY <2>3, <2>6, RowsOnly DEF Claim, AutomationsInv, TypeOK
<1>4. QED
  BY <1>2, <1>3

LEMMA EvaluateSafe ==
  ASSUME AutomationsInv, NEW n \in Nodes, Evaluate(n)
  PROVE  AutomationsInv'
<1>1. PICK c \in node[n].batch, verdict \in {"dispatch", "advance"} :
        node' = [node EXCEPT ![n].phase = verdict, ![n].cur = {c}, ![n].batch = @ \ {c}]
  BY DEF Evaluate
<1>2. node \in [Nodes -> Scheduler]
  BY DEF AutomationsInv, TypeOK
<1>3. /\ node[n].batch \in SUBSET (Automations \X Slots)
      /\ {c} \in SUBSET (Automations \X Slots)
      /\ node[n].batch \ {c} \in SUBSET (Automations \X Slots)
  BY <1>1, <1>2 DEF Scheduler
<1>4. node' \in [Nodes -> Scheduler]
  BY <1>1, <1>2, <1>3 DEF Scheduler
<1>5. QED
  BY <1>4, RowsOnly DEF Evaluate, AutomationsInv, TypeOK

\* The rows and the scheduler after any dispatch that committed.
LEMMA DispatchTypes ==
  ASSUME AutomationsInv, NEW n \in Nodes, NEW a \in Automations, AdvanceSchedule(n, a), Served(n)
  PROVE  auto' \in [Automations -> Row] /\ node' \in [Nodes -> Scheduler]
BY AdvancedRow, ServedIsIdle DEF AutomationsInv, TypeOK

LEMMA DispatchKnownRunSafe ==
  ASSUME AutomationsInv, NEW n \in Nodes, DispatchKnownRun(n)
  PROVE  AutomationsInv'
BY DispatchTypes, RowsOnly DEF DispatchKnownRun, AutomationsInv, TypeOK

LEMMA DispatchKnownTaskSafe ==
  ASSUME AutomationsInv, NEW n \in Nodes, DispatchKnownTask(n)
  PROVE  AutomationsInv'
<1>1. PICK a \in Automations, s \in Slots :
        /\ task[a][KeyOf(s)] # Never
        /\ run' = [run EXCEPT ![a][s] = IF @ = "none" THEN "enqueued" ELSE @]
        /\ AdvanceSchedule(n, a)
  BY DEF DispatchKnownTask
<1>2. run \in [Automations -> [Slots -> {"none", "enqueued", "skipped"}]]
  BY DEF AutomationsInv, TypeOK
<1>3. run' \in [Automations -> [Slots -> {"none", "enqueued", "skipped"}]]
  BY <1>1, <1>2
<1>4. \A b \in Automations, t \in Slots :
        run'[b][t] = "enqueued" => run[b][t] = "enqueued" \/ (b = a /\ t = s)
  BY <1>1, <1>2
<1>5. QuotaIsTasks'
  BY <1>1, <1>4, QuotaStays DEF DispatchKnownTask, AutomationsInv
<1>6. QED
  BY <1>1, <1>3, <1>5, DispatchTypes DEF DispatchKnownTask, AutomationsInv, TypeOK

LEMMA DispatchOverQuotaSafe ==
  ASSUME AutomationsInv, NEW n \in Nodes, DispatchOverQuota(n)
  PROVE  AutomationsInv'
<1>1. PICK a \in Automations, s \in Slots :
        /\ run' = [run EXCEPT ![a][s] = "skipped"]
        /\ AdvanceSchedule(n, a)
  BY DEF DispatchOverQuota
<1>2. run \in [Automations -> [Slots -> {"none", "enqueued", "skipped"}]]
  BY DEF AutomationsInv, TypeOK
<1>3. /\ run' \in [Automations -> [Slots -> {"none", "enqueued", "skipped"}]]
      /\ \A b \in Automations, t \in Slots :
           run'[b][t] = "enqueued" => run[b][t] = "enqueued"
  BY <1>1, <1>2
<1>4. QuotaIsTasks'
  BY <1>3, QuotaStays DEF DispatchOverQuota, AutomationsInv
<1>5. QED
  BY <1>1, <1>3, <1>4, DispatchTypes DEF DispatchOverQuota, AutomationsInv, TypeOK

LEMMA DispatchNewTaskSafe ==
  ASSUME AutomationsInv, NEW n \in Nodes, DispatchNewTask(n)
  PROVE  AutomationsInv'
<1>1. PICK a \in Automations, s \in Slots :
        /\ task[a][KeyOf(s)] = Never
        /\ used' = [used EXCEPT ![ThisHour] = @ + 1]
        /\ task' = [task EXCEPT ![a][KeyOf(s)] = ThisHour]
        /\ run' = [run EXCEPT ![a][s] = IF @ = "none" THEN "enqueued" ELSE @]
        /\ AdvanceSchedule(n, a)
  BY DEF DispatchNewTask
<1>2. /\ run \in [Automations -> [Slots -> {"none", "enqueued", "skipped"}]]
      /\ task \in [Automations -> [Keys -> Hours \cup {Never}]]
      /\ used \in [Hours -> 0..Ceiling]
  BY DEF AutomationsInv, TypeOK
<1>3. KeyOf(s) \in Keys /\ ThisHour \in Hours
  BY KeysOfSlots, ThisHourIsAnHour DEF AutomationsInv, TypeOK
<1>4. /\ run' \in [Automations -> [Slots -> {"none", "enqueued", "skipped"}]]
      /\ \A b \in Automations, t \in Slots :
           run'[b][t] = "enqueued" => run[b][t] = "enqueued" \/ (b = a /\ t = s)
  BY <1>1, <1>2
<1>5. task' \in [Automations -> [Keys -> Hours \cup {Never}]]
  BY <1>1, <1>2, <1>3
<1>6. used' \in [Hours -> 0..Ceiling]
  <2>1. used[ThisHour] = 0 \/ used[ThisHour] < MaxRunsPerHour
    BY DEF DispatchNewTask, Chargeable
  <2>2. used[ThisHour] + 1 \in 0..Ceiling
    BY <1>2, <1>3, <2>1, CeilingType, AutomationsAssumption
  <2>3. QED
    BY <1>1, <1>2, <2>2
<1>7. QuotaIsTasks'
  BY <1>1, <1>4, QuotaCharged DEF AutomationsInv
<1>8. QED
  BY <1>1, <1>4, <1>5, <1>6, <1>7, DispatchTypes DEF DispatchNewTask, AutomationsInv, TypeOK

LEMMA DispatchSafe ==
  ASSUME AutomationsInv, NEW n \in Nodes, Dispatch(n)
  PROVE  AutomationsInv'
<1>1. CASE DispatchFenced(n)
  BY <1>1, PhaseMoved, RowsOnly DEF DispatchFenced, AutomationsInv, TypeOK
<1>2. QED
  BY <1>1, DispatchKnownRunSafe, DispatchKnownTaskSafe, DispatchOverQuotaSafe,
     DispatchNewTaskSafe DEF Dispatch

LEMMA AdvanceSafe ==
  ASSUME AutomationsInv, NEW n \in Nodes, Advance(n)
  PROVE  AutomationsInv'
<1>1. PICK a \in Automations :
        auto' = [auto EXCEPT ![a] =
                   IF Exists(a)
                   THEN [@ EXCEPT !.fire = NextFire(n, a),
                                  !.status = IF Cron(a) THEN "active" ELSE "completed"]
                   ELSE @]
  BY DEF Advance
<1>2. auto \in [Automations -> Row] /\ node \in [Nodes -> Scheduler]
  BY DEF AutomationsInv, TypeOK
<1>3. NextFire(n, a) \in Slots \cup {NoSlot}
  BY SeenIsATime DEF AutomationsInv
<1>4. [auto[a] EXCEPT !.fire = NextFire(n, a),
                      !.status = IF Cron(a) THEN "active" ELSE "completed"] \in Row
  BY <1>2, <1>3 DEF Row
<1>5. auto' \in [Automations -> Row]
  BY <1>1, <1>2, <1>4
<1>6. node' \in [Nodes -> Scheduler]
  BY <1>2, PhaseMoved DEF Advance
<1>7. QED
  BY <1>5, <1>6, RowsOnly DEF Advance, AutomationsInv, TypeOK

LEMMA ReleaseSafe ==
  ASSUME AutomationsInv, NEW n \in Nodes, Release(n)
  PROVE  AutomationsInv'
<1>1. PICK a \in Automations :
        auto' = [auto EXCEPT ![a] = IF @.owner = n THEN Unleased(@) ELSE @]
  BY DEF Release
<1>2. auto \in [Automations -> Row] /\ node \in [Nodes -> Scheduler]
  BY DEF AutomationsInv, TypeOK
<1>3. Unleased(auto[a]) \in Row
  BY <1>2, UnleasedRow
<1>4. auto' \in [Automations -> Row]
  BY <1>1, <1>2, <1>3
<1>5. node' \in [Nodes -> Scheduler]
  BY <1>2, ServedIsIdle DEF Release
<1>6. QED
  BY <1>4, <1>5, RowsOnly DEF Release, AutomationsInv, TypeOK

LEMMA RecoverSafe ==
  ASSUME AutomationsInv, RecoverStaleLeases
  PROVE  AutomationsInv'
<1>1. auto \in [Automations -> Row]
  BY DEF AutomationsInv, TypeOK
<1>2. \A a \in Automations : Unleased(auto[a]) \in Row
  BY <1>1, UnleasedRow
<1>3. auto' \in [Automations -> Row]
  BY <1>1, <1>2 DEF RecoverStaleLeases
<1>4. QED
  BY <1>3, RowsOnly DEF RecoverStaleLeases, AutomationsInv, TypeOK

-----------------------------------------------------------------------------
(* The theorems.                                                           *)

LEMMA InitSafe == Init => AutomationsInv
<1> SUFFICES ASSUME Init
             PROVE  AutomationsInv
  OBVIOUS
<1>1. auto \in [Automations -> Row]
  BY DEF Init, Row
<1>2. node \in [Nodes -> Scheduler]
  BY IdleIsAScheduler DEF Init
<1>3. /\ now \in 0..Horizon /\ faults \in 0..MaxFaults
      /\ used \in [Hours -> 0..Ceiling]
  <2>1. 0 \in 0..Horizon /\ 0 \in 0..MaxFaults /\ 0 \in 0..Ceiling
    BY CeilingType, AutomationsAssumption
  <2>2. QED
    BY <2>1 DEF Init
<1>4. /\ run \in [Automations -> [Slots -> {"none", "enqueued", "skipped"}]]
      /\ task \in [Automations -> [Keys -> Hours \cup {Never}]]
  BY DEF Init
<1>5. TypeOK
  BY <1>1, <1>2, <1>3, <1>4 DEF TypeOK
<1>6. ASSUME NEW h \in Hours
      PROVE  used[h] = Cardinality(CreatedIn(h))
  <2>1. h # Never
    BY DEF Hours, Never
  <2>2. CreatedIn(h) = {}
    BY <2>1 DEF Init, CreatedIn
  <2>3. QED
    BY <1>6, <2>2, FS_EmptySet DEF Init
<1>7. \A a \in Automations, s \in Slots : run[a][s] # "enqueued"
  BY DEF Init
<1>8. QED
  BY <1>5, <1>6, <1>7 DEF AutomationsInv, QuotaIsTasks

LEMMA NextSafe == AutomationsInv /\ [Next]_vars => AutomationsInv'
<1> SUFFICES ASSUME AutomationsInv, [Next]_vars
             PROVE  AutomationsInv'
  OBVIOUS
<1>1. CASE Pass \/ RecoverStaleLeases
  BY <1>1, PassSafe, RecoverSafe
<1>2. ASSUME NEW a \in Automations, User(a) \/ Expire(a) \/ ExpireUnderway(a)
      PROVE  AutomationsInv'
  <2>1. CASE User(a)
    BY <2>1, UserSafe
  <2>2. CASE Expire(a)
    BY <2>2, LapseSafe DEF Expire, AutomationsInv, TypeOK
  <2>3. CASE ExpireUnderway(a)
    BY <2>3, LapseSafe, FaultCounted DEF ExpireUnderway, AutomationsInv, TypeOK
  <2>4. QED
    BY <1>2, <2>1, <2>2, <2>3
<1>3. ASSUME NEW n \in Nodes, Loop(n) \/ Raise(n) \/ Crash(n)
      PROVE  AutomationsInv'
  <2>1. CASE Done(n)
    BY <2>1, Reset, RowsOnly DEF Done, AutomationsInv, TypeOK
  <2>2. CASE Raise(n)
    BY <2>2, PhaseMoved, FaultCounted, RowsOnly DEF Raise, AutomationsInv, TypeOK
  <2>3. CASE Crash(n)
    BY <2>3, Reset, FaultCounted, RowsOnly DEF Crash, AutomationsInv, TypeOK
  <2>4. QED
    BY <1>3, <2>1, <2>2, <2>3, TickSafe, ClaimSafe, EvaluateSafe, DispatchSafe,
       AdvanceSafe, ReleaseSafe DEF Loop
<1>4. CASE UNCHANGED vars
  BY <1>4, Stays
<1>5. QED
  BY <1>1, <1>2, <1>3, <1>4 DEF Next

THEOREM AutomationsInvariant == Spec => []AutomationsInv
BY InitSafe, NextSafe, PTL DEF Spec

\* The tables and the schedulers are of their types: no hour is charged above
\* max_runs_per_hour, or above its first run, by any number of concurrent dispatches.
THEOREM AutomationTypes == Spec => []TypeOK
<1>1. AutomationsInv => TypeOK
  BY DEF AutomationsInv
<1>2. QED
  BY AutomationsInvariant, <1>1, PTL

\* execute_fenced_dispatch charges an hour exactly for the tasks it created in it,
\* and an enqueued run has its task.
THEOREM QuotaCountsTasks == Spec => []QuotaIsTasks
<1>1. AutomationsInv => QuotaIsTasks
  BY DEF AutomationsInv
<1>2. QED
  BY AutomationsInvariant, <1>1, PTL

-----------------------------------------------------------------------------
(* The lease as a fence.                                                   *)

\* The steps that end a live lease.
LEMMA LeaseEnds ==
  ASSUME AutomationsInv, [Next]_vars, NEW a \in Automations,
         auto[a].owner # NoNode, ~auto[a].expired, auto'[a].owner # auto[a].owner
  PROVE  node'[auto[a].owner] # node[auto[a].owner] \/ User(a)
<1>0. auto \in [Automations -> Row] /\ node \in [Nodes -> Scheduler]
  BY DEF AutomationsInv, TypeOK
<1>1. auto' # auto
  BY <1>0
<1>2. CASE \E b \in Automations : User(b)
  <2>1. PICK b \in Automations : User(b)
    BY <1>2
  <2>2. \E row : auto' = [auto EXCEPT ![b] = row]
    BY <2>1 DEF User, Create, Pause, Resume, Trigger, Patch, Delete, Edit
  <2>3. b = a
    BY <1>0, <2>2
  <2>4. QED
    BY <2>1, <2>3
<1>3. CASE \E b \in Automations : Lapse(b)
  BY <1>0, <1>3 DEF Lapse, Row
<1>4. CASE RecoverStaleLeases
  BY <1>0, <1>4 DEF RecoverStaleLeases
<1>5. CASE \E n \in Nodes : Claim(n)
  <2>1. PICK n \in Nodes : Claim(n)
    BY <1>5
  <2>2. ~Claimable(a)
    BY DEF Claimable
  <2>3. QED
    BY <1>0, <2>1, <2>2 DEF Claim
<1>6. CASE \E n \in Nodes : Advance(n)
  <2>1. PICK n \in Nodes, b \in Automations :
          auto' = [auto EXCEPT ![b] =
                     IF Exists(b)
                     THEN [auto[b] EXCEPT !.fire = NextFire(n, b),
                                    !.status = IF Cron(b) THEN "active" ELSE "completed"]
                     ELSE auto[b]]
    BY <1>6 DEF Advance
  <2>2. QED
    BY <1>0, <2>1 DEF Row
<1>7. ASSUME NEW n \in Nodes, Release(n) PROVE node'[auto[a].owner] # node[auto[a].owner]
  <2>1. PICK b \in Automations, s \in Slots :
          /\ Processing(n, "release", b, s)
          /\ auto' = [auto EXCEPT ![b] = IF auto[b].owner = n THEN Unleased(auto[b]) ELSE auto[b]]
    BY <1>7 DEF Release
  <2>2. auto[a].owner = n
    BY <1>0, <2>1
  <2>3. node[n].phase = "release" /\ node'[n].phase = "working"
    BY <1>0, <1>7, <2>1 DEF Release, Served, Processing, Scheduler
  <2>4. QED
    BY <2>2, <2>3
<1>8. ASSUME NEW n \in Nodes,
             DispatchKnownRun(n) \/ DispatchKnownTask(n) \/ DispatchOverQuota(n) \/ DispatchNewTask(n)
      PROVE  node'[auto[a].owner] # node[auto[a].owner]
  <2>1. PICK b \in Automations, s \in Slots :
          Processing(n, "dispatch", b, s) /\ Holds(n, b) /\ AdvanceSchedule(n, b)
    BY <1>8 DEF DispatchKnownRun, DispatchKnownTask, DispatchOverQuota, DispatchNewTask
  <2>2. b = a
    BY <1>0, <2>1 DEF AdvanceSchedule
  <2>3. auto[a].owner = n
    BY <2>1, <2>2 DEF Holds
  <2>4. Served(n)
    BY <1>8 DEF DispatchKnownRun, DispatchKnownTask, DispatchOverQuota, DispatchNewTask
  <2>5. node[n].phase = "dispatch" /\ node'[n].phase = "working"
    BY <1>0, <2>1, <2>4 DEF Served, Processing, Scheduler
  <2>6. QED
    BY <2>3, <2>5
<1>9. CASE UNCHANGED auto
  BY <1>1, <1>9
<1>10. QED
  BY <1>2, <1>3, <1>4, <1>5, <1>6, <1>7, <1>8, <1>9
     DEF Next, vars, Pass, Expire, ExpireUnderway, Loop, Dispatch, Tick, Evaluate, DispatchFenced,
         Done, Raise, Crash

\* The step that creates a task.
LEMMA TaskCreated ==
  ASSUME AutomationsInv, [Next]_vars, NEW a \in Automations, task'[a] # task[a]
  PROVE  /\ auto[a].status = "active" /\ auto[a].owner # NoNode /\ ~auto[a].expired
         /\ node'[auto[a].owner] # node[auto[a].owner] /\ auto'[a].owner = NoNode
<1>1. PICK n \in Nodes : DispatchNewTask(n)
  BY DEF Next, vars, Pass, RecoverStaleLeases, User, Create, Pause, Resume, Trigger, Patch,
     Delete, Edit, Expire, ExpireUnderway, Lapse, Loop, Tick, Claim, Evaluate, Dispatch,
     DispatchKnownRun, DispatchKnownTask, DispatchOverQuota, DispatchFenced, Advance, Release,
     Done, Raise, Crash
<1>2. PICK b \in Automations, s \in Slots :
        /\ Processing(n, "dispatch", b, s) /\ Holds(n, b)
        /\ task' = [task EXCEPT ![b][KeyOf(s)] = ThisHour]
        /\ AdvanceSchedule(n, b)
  BY <1>1 DEF DispatchNewTask
<1>3. b = a
  BY <1>2 DEF AutomationsInv, TypeOK
<1>4. auto'[a].owner = NoNode
  BY <1>2, <1>3, AdvancedRow DEF AutomationsInv
<1>5. auto[a].owner = n /\ ~auto[a].expired /\ auto[a].status = "active"
  BY <1>2, <1>3 DEF Holds
<1>6. node[n].phase = "dispatch" /\ node'[n].phase = "working"
  BY <1>1, <1>2 DEF DispatchNewTask, Served, Processing, AutomationsInv, TypeOK, Scheduler
<1>7. QED
  BY <1>4, <1>5, <1>6, AutomationsAssumption

\* A lease that has not run out is ended by its holder or by the user only, and is what
\* a task is created under (execute_fenced_dispatch, claim_due_automations,
\* release_lease, recover_stale_leases).
THEOREM LeasesFence == Spec => LeaseFences
<1>1. ASSUME AutomationsInv, [Next]_vars, NEW a \in Automations
      PROVE  /\ auto[a].owner # NoNode /\ ~auto[a].expired /\ auto'[a].owner # auto[a].owner
                  => node'[auto[a].owner] # node[auto[a].owner] \/ User(a)
             /\ task'[a] # task[a] =>
                  /\ auto[a].owner # NoNode /\ ~auto[a].expired /\ auto[a].status = "active"
                  /\ node'[auto[a].owner] # node[auto[a].owner] /\ auto'[a].owner = NoNode
  BY <1>1, LeaseEnds, TaskCreated
<1>2. AutomationsInv /\ [Next]_vars =>
        [\A a \in Automations :
           LET holder == auto[a].owner
               live   == holder # NoNode /\ ~auto[a].expired
           IN /\ live /\ auto'[a].owner # holder => node'[holder] # node[holder] \/ User(a)
              /\ task'[a] # task[a] =>
                   /\ live /\ auto[a].status = "active"
                   /\ node'[holder] # node[holder] /\ auto'[a].owner = NoNode]_vars
  BY <1>1
<1>3. QED
  BY AutomationsInvariant, <1>2, PTL DEF Spec, LeaseFences
=============================================================================
