--------------------------- MODULE AgentMeshProofs ---------------------------
(***************************************************************************)
(* The safety of AgentMesh for every set of runs and threads and every     *)
(* limit of the coordinator.                                               *)
(***************************************************************************)
EXTENDS AgentMesh, TLAPS

ExecutionPoints == {"begin", "plan", "step", "spawn", "record", "raised"}

\* Where a request is agrees with what it holds: an execution has a copy of a run
\* that has not ended, and the callers of a delegation have their step left.
Shape(th) ==
  /\ th.op = "none" \/ th.pc = "idle" => th = Idle
  /\ th.op = "execute" => th.pc \in ExecutionPoints /\ Len(th.stack) > 0
  /\ th.pc \in ExecutionPoints => th.op = "execute"
  /\ th.pc \in {"write", "list"} => Len(th.stack) > 0
  /\ th.child # NoRun <=> th.pc \in {"spawn", "record"}
  /\ th.pc \notin {"read", "list"} =>
       \A i \in 1..Len(th.stack) : th.stack[i].status \notin Terminal
  /\ \A i \in 2..Len(th.stack) : th.stack[i].left > 0
  /\ th.pc \in {"spawn", "record"} => th.stack[1].left > 0

\* The runs that a thread holds were created, a child it is about to create was
\* not, and the one it has created is a level below its parent.
Holding(th, rows) ==
  /\ \A i \in 1..Len(th.stack) : rows[th.stack[i].run].status # "none"
  /\ th.pc = "spawn" => /\ rows[th.child].status = "none"
                        /\ rows[th.stack[1].run].depth + 1 <= MaxDepth
  /\ th.pc = "record" => /\ rows[th.child].status # "none"
                         /\ rows[th.child].parent = th.stack[1].run
                         /\ rows[th.child].depth = rows[th.stack[1].run].depth + 1

ThreadOK(th, rows) == Shape(th) /\ Holding(th, rows)

ThreadInv == \A t \in Threads : ThreadOK(thread[t], row)

\* Two threads never draw the same child.
ChildInv ==
  \A t, u \in Threads : t # u /\ thread[t].child # NoRun => thread[t].child # thread[u].child

\* The foreign key: a run goes with its parent.
RowsOK(rows) ==
  \A r \in Runs :
    /\ rows[r].status = "none" => rows[r].parent = NoRun
    /\ rows[r].status \notin Gone /\ rows[r].parent # NoRun =>
         rows[rows[r].parent].status \notin Gone

Below(pairs, rows) ==
  \A p, c \in Runs :
    <<p, c>> \in pairs =>
      /\ rows[p].status \notin Gone /\ rows[c].status \notin Gone
      /\ rows[c].parent = p /\ rows[c].depth = rows[p].depth + 1

MeshInv ==
  /\ TypeOK
  /\ ThreadInv
  /\ ChildInv
  /\ RowsOK(row)
  /\ Below(delegated, row)
  /\ RunningIsExecuted

-----------------------------------------------------------------------------
(* Stacks and frames.                                                      *)

LEMMA OneOrMore ==
  \A n \in Nat : n > 0 => /\ n = 1 \/ n > 1
                          /\ n > 1 => n # 1
OBVIOUS

LEMMA Popped ==
  ASSUME NEW s \in Seq(Frame), Len(s) > 0
  PROVE  /\ Tail(s) \in Seq(Frame)
         /\ Len(Tail(s)) = Len(s) - 1
         /\ \A i \in 1..Len(Tail(s)) : Tail(s)[i] = s[i + 1]
OBVIOUS

LEMMA Pushed ==
  ASSUME NEW s \in Seq(Frame), NEW f \in Frame
  PROVE  /\ <<f>> \o s \in Seq(Frame)
         /\ Len(<<f>> \o s) = Len(s) + 1
         /\ (<<f>> \o s)[1] = f
         /\ \A i \in 1..Len(s) : (<<f>> \o s)[i + 1] = s[i]
OBVIOUS

LEMMA TopWritten ==
  ASSUME NEW s \in Seq(Frame), Len(s) > 0, NEW f \in Frame
  PROVE  /\ [s EXCEPT ![1] = f] \in Seq(Frame)
         /\ Len([s EXCEPT ![1] = f]) = Len(s)
         /\ [s EXCEPT ![1] = f][1] = f
         /\ \A i \in 2..Len(s) : [s EXCEPT ![1] = f][i] = s[i]
OBVIOUS

LEMMA FrameFields ==
  ASSUME NEW f \in Frame
  PROVE  /\ f.run \in Runs /\ f.status \in Status
         /\ f.iters \in 0..MaxIterations /\ f.left \in 0..MaxSteps
BY DEF Frame

LEMMA CopyIsAFrame ==
  ASSUME NEW r \in Runs, NEW s \in Status
  PROVE  Copy(r, s) \in Frame /\ Copy(r, s).run = r /\ Copy(r, s).status = s
BY MeshAssumption DEF Copy, Frame

LEMMA ThreadFields ==
  ASSUME NEW th \in Thread
  PROVE  /\ th.stack \in Seq(Frame) /\ th.child \in Runs \cup {NoRun} /\ th.todo \in SUBSET Runs
         /\ \A i \in 1..Len(th.stack) : th.stack[i] \in Frame /\ th.stack[i].run \in Runs
<1>1. th.stack \in Seq(Frame) /\ th.child \in Runs \cup {NoRun} /\ th.todo \in SUBSET Runs
  BY DEF Thread
<1>2. \A i \in 1..Len(th.stack) : th.stack[i] \in Frame
  BY <1>1
<1>3. QED
  BY <1>1, <1>2, FrameFields

LEMMA IdleOK ==
  ASSUME NEW rows
  PROVE  Idle \in Thread /\ ThreadOK(Idle, rows) /\ Idle.child = NoRun
<1>1. Idle \in Thread
  BY DEF Idle, Thread
<1>2. /\ Idle.op = "none" /\ Idle.pc = "idle" /\ Idle.child = NoRun
      /\ Idle.stack = <<>> /\ Len(Idle.stack) = 0
  BY DEF Idle
<1>3. QED
  BY <1>1, <1>2 DEF ThreadOK, Shape, Holding, ExecutionPoints

-----------------------------------------------------------------------------
(* The rows.                                                               *)

\* What no step undoes: a run was created, under its parent and at its depth.
Kept(r, rows, rows2) ==
  rows[r].status # "none" =>
    /\ rows2[r].status # "none"
    /\ rows2[r].parent = rows[r].parent
    /\ rows2[r].depth = rows[r].depth

LEMMA RowFields ==
  ASSUME row \in [Runs -> Row], NEW r \in Runs
  PROVE  /\ row[r] \in Row /\ row[r].status \in Status \cup Gone
         /\ row[r].parent \in Runs \cup {NoRun} /\ row[r].depth \in 0..MaxDepth
BY DEF Row

LEMMA StatusIsNotGone ==
  ASSUME NEW s \in Status
  PROVE  s \notin Gone /\ s # "none"
BY DEF Status, Terminal, Gone

\* save_run, of a run that was created once, or of a new one.
LEMMA SavedRow ==
  ASSUME row \in [Runs -> Row], NEW r \in Runs, NEW s \in Status,
         row' = [row EXCEPT ![r].status = s]
  PROVE  /\ row' \in [Runs -> Row]
         /\ row'[r].status = s /\ row'[r].parent = row[r].parent
         /\ row'[r].depth = row[r].depth
         /\ \A q \in Runs : q # r => row'[q] = row[q]
BY DEF Row

LEMMA SaveRunKeeps ==
  ASSUME row \in [Runs -> Row], RowsOK(row), Below(delegated, row),
         NEW r \in Runs, NEW s \in Status, SaveRun(r, s)
  PROVE  /\ row' \in [Runs -> Row] /\ RowsOK(row') /\ Below(delegated, row')
         /\ \A q \in Runs : Kept(q, row, row')
         /\ row'[r].status = s /\ row'[r].parent = row[r].parent
         /\ \A q \in Runs : q # r => row'[q] = row[q]
<1>1. /\ row' \in [Runs -> Row]
      /\ row'[r].status = s /\ row'[r].parent = row[r].parent
      /\ row'[r].depth = row[r].depth
      /\ \A q \in Runs : q # r => row'[q] = row[q]
  BY SavedRow DEF SaveRun
<1>2. s \notin Gone /\ s # "none"
  BY StatusIsNotGone
<1>3. \A q \in Runs : row[q].status \notin Gone => row'[q].status \notin Gone
  BY <1>1, <1>2
<1>4. RowsOK(row')
  <2>1. ASSUME NEW q \in Runs, row'[q].status = "none"
        PROVE  row'[q].parent = NoRun
    BY <1>1, <1>2, <2>1 DEF RowsOK
  <2>2. ASSUME NEW q \in Runs, row'[q].status \notin Gone, row'[q].parent # NoRun
        PROVE  row'[row'[q].parent].status \notin Gone
    <3>1. row'[q].parent = row[q].parent /\ row[q].parent \in Runs
      BY <1>1, <2>2, RowFields
    <3>2. row[row[q].parent].status \notin Gone
      BY <1>1, <2>2, <3>1 DEF RowsOK, SaveRun, Storable, Exists
    <3>3. QED
      BY <1>3, <3>1, <3>2
  <2>3. QED
    BY <2>1, <2>2 DEF RowsOK
<1>5. Below(delegated, row')
  BY <1>1, <1>3 DEF Below
<1>6. \A q \in Runs : Kept(q, row, row')
  BY <1>1, <1>2 DEF Kept
<1>7. QED
  BY <1>1, <1>4, <1>5, <1>6

LEMMA SpawnKeeps ==
  ASSUME row \in [Runs -> Row], RowsOK(row), Below(delegated, row),
         NEW c \in Runs, row[c].status = "none",
         NEW p \in Runs, Exists(p), row[p].depth + 1 <= MaxDepth,
         row' = [row EXCEPT ![c] =
                   [status |-> "pending", parent |-> p, depth |-> row[p].depth + 1]]
  PROVE  /\ row' \in [Runs -> Row] /\ RowsOK(row') /\ Below(delegated, row')
         /\ \A q \in Runs : Kept(q, row, row')
         /\ row'[c].status = "pending" /\ row'[c].parent = p
         /\ row'[c].depth = row[p].depth + 1
         /\ \A q \in Runs : q # c => row'[q] = row[q]
         /\ p # c
<1>1. row[p].depth + 1 \in 0..MaxDepth
  BY RowFields, MeshAssumption
<1>2. p # c
  BY DEF Exists, Gone
<1>3. /\ row' \in [Runs -> Row]
      /\ row'[c].status = "pending" /\ row'[c].parent = p
      /\ row'[c].depth = row[p].depth + 1
      /\ \A q \in Runs : q # c => row'[q] = row[q]
  <2>1. [status |-> "pending", parent |-> p, depth |-> row[p].depth + 1] \in Row
    BY <1>1 DEF Row, Status
  <2>2. QED
    BY <2>1
<1>4. \A q \in Runs : Kept(q, row, row')
  BY <1>3 DEF Kept
<1>5. \A q \in Runs : row[q].status \notin Gone => row'[q].status \notin Gone
  BY <1>3 DEF Gone
<1>6. RowsOK(row')
  <2>1. ASSUME NEW q \in Runs, row'[q].status = "none"
        PROVE  row'[q].parent = NoRun
    BY <1>3, <2>1 DEF RowsOK
  <2>2. ASSUME NEW q \in Runs, row'[q].status \notin Gone, row'[q].parent # NoRun
        PROVE  row'[row'[q].parent].status \notin Gone
    <3>1. CASE q = c
      BY <1>3, <1>5, <3>1 DEF Exists
    <3>2. CASE q # c
      <4>1. row'[q] = row[q] /\ row[q].parent \in Runs
        BY <1>3, <2>2, <3>2, RowFields
      <4>2. row[row[q].parent].status \notin Gone
        BY <2>2, <4>1 DEF RowsOK
      <4>3. QED
        BY <1>5, <4>1, <4>2
    <3>3. QED
      BY <3>1, <3>2
  <2>3. QED
    BY <2>1, <2>2 DEF RowsOK
<1>7. Below(delegated, row')
  <2>1. ASSUME NEW q \in Runs, NEW d \in Runs, <<q, d>> \in delegated
        PROVE  /\ row'[q].status \notin Gone /\ row'[d].status \notin Gone
               /\ row'[d].parent = q /\ row'[d].depth = row'[q].depth + 1
    <3>1. /\ row[q].status \notin Gone /\ row[d].status \notin Gone
          /\ row[d].parent = q /\ row[d].depth = row[q].depth + 1
      BY <2>1 DEF Below
    <3>2. row'[q] = row[q] /\ row'[d] = row[d]
      BY <1>3, <3>1 DEF Gone
    <3>3. QED
      BY <3>1, <3>2
  <2>2. QED
    BY <2>1 DEF Below
<1>8. QED
  BY <1>2, <1>3, <1>4, <1>6, <1>7

LEMMA PurgeKeeps ==
  ASSUME row \in [Runs -> Row], RowsOK(row), Purge
  PROVE  /\ row' \in [Runs -> Row] /\ RowsOK(row') /\ Below(delegated', row')
         /\ \A q \in Runs : Kept(q, row, row')
         /\ \A q \in Runs : row'[q].status \in Gone
         /\ \A q \in Runs : row[q].status = "none" => row'[q].status = "none"
<1>1. \A r \in Runs : [row[r] EXCEPT !.status = "purged"] \in Row
  BY DEF Row, Gone
<1>2. row' \in [Runs -> Row]
  BY <1>1 DEF Purge
<1>3. \A q \in Runs :
        /\ row'[q].parent = row[q].parent /\ row'[q].depth = row[q].depth
        /\ row[q].status = "none" <=> row'[q].status = "none"
        /\ row'[q].status \in Gone
  BY DEF Purge, Exists, Row, Gone
<1>4. RowsOK(row')
  BY <1>3 DEF RowsOK
<1>5. Below(delegated', row')
  BY DEF Purge, Below
<1>6. QED
  BY <1>2, <1>3, <1>4, <1>5 DEF Kept

-----------------------------------------------------------------------------
(* One thread moves.                                                       *)

LEMMA ThreadKept ==
  ASSUME NEW th \in Thread, NEW rows, NEW rows2, ThreadOK(th, rows),
         \A q \in Runs : Kept(q, rows, rows2),
         th.pc = "spawn" => rows2[th.child].status = "none"
  PROVE  ThreadOK(th, rows2)
<1>1. /\ \A i \in 1..Len(th.stack) : th.stack[i].run \in Runs
      /\ th.pc = "spawn" \/ th.pc = "record" => th.stack[1].run \in Runs /\ th.child \in Runs
  BY ThreadFields DEF ThreadOK, Shape, ExecutionPoints
<1>2. /\ \A i \in 1..Len(th.stack) : rows[th.stack[i].run].status # "none"
      /\ th.pc = "spawn" \/ th.pc = "record" => rows[th.stack[1].run].status # "none"
  BY <1>1, ThreadFields DEF ThreadOK, Holding, Shape, ExecutionPoints
<1>3. \A i \in 1..Len(th.stack) : rows2[th.stack[i].run].status # "none"
  BY <1>1, <1>2 DEF Kept
<1>4. th.pc = "spawn" \/ th.pc = "record" =>
        rows2[th.stack[1].run].depth = rows[th.stack[1].run].depth
  BY <1>1, <1>2 DEF Kept
<1>5. th.pc = "record" => /\ rows2[th.child].status # "none"
                          /\ rows2[th.child].parent = rows[th.child].parent
                          /\ rows2[th.child].depth = rows[th.child].depth
  BY <1>1 DEF ThreadOK, Holding, Kept
<1>6. QED
  BY <1>3, <1>4, <1>5 DEF ThreadOK, Holding

LEMMA ThreadMoves ==
  ASSUME MeshInv, NEW t \in Threads, NEW th \in Thread, thread' = [thread EXCEPT ![t] = th],
         \A q \in Runs : Kept(q, row, row'),
         ThreadOK(th, row'),
         \A u \in Threads : u # t /\ thread[u].pc = "spawn" => row'[thread[u].child].status = "none",
         th.child # NoRun => th.child = thread[t].child \/ \A u \in Threads : thread[u].child # th.child
  PROVE  thread' \in [Threads -> Thread] /\ ThreadInv' /\ ChildInv'
<1>1. thread \in [Threads -> Thread]
  BY DEF MeshInv, TypeOK
<1>2. thread' \in [Threads -> Thread] /\ thread'[t] = th
      /\ \A u \in Threads : u # t => thread'[u] = thread[u]
  BY <1>1
<1>3. ASSUME NEW u \in Threads
      PROVE  ThreadOK(thread'[u], row')
  <2>1. CASE u = t
    BY <1>2, <2>1
  <2>2. CASE u # t
    <3>1. thread[u] \in Thread /\ ThreadOK(thread[u], row)
      BY <1>1 DEF MeshInv, ThreadInv
    <3>2. thread[u].pc = "spawn" => row'[thread[u].child].status = "none"
      BY <2>2
    <3>3. ThreadOK(thread[u], row')
      BY <3>1, <3>2, ThreadKept
    <3>4. QED
      BY <1>2, <2>2, <3>3
  <2>3. QED
    BY <2>1, <2>2
<1>4. ASSUME NEW u \in Threads, NEW v \in Threads, u # v, thread'[u].child # NoRun
      PROVE  thread'[u].child # thread'[v].child
  BY <1>2, <1>4 DEF MeshInv, ChildInv
<1>5. QED
  BY <1>2, <1>3, <1>4 DEF ThreadInv, ChildInv

Executes(th, r) ==
  /\ th.op = "execute"
  /\ th.child = r \/ \E i \in DOMAIN th.stack : th.stack[i].run = r

\* A run that would stand still unless a thread executes it.
Needs(r, rows) ==
  rows[r].status = "running" \/ (rows[r].status = "pending" /\ rows[r].parent # NoRun)

LEMMA ExecutionMoves ==
  ASSUME MeshInv, NEW t \in Threads, NEW th \in Thread, thread' = [thread EXCEPT ![t] = th],
         faults' = 0 => faults = 0,
         faults' = 0 =>
           \A r \in Runs : Needs(r, row') =>
             Executes(th, r) \/ (Needs(r, row) /\ ~Executes(thread[t], r))
  PROVE  RunningIsExecuted'
<1>1. /\ thread \in [Threads -> Thread]
      /\ thread'[t] = th
      /\ \A u \in Threads : u # t => thread'[u] = thread[u]
  BY DEF MeshInv, TypeOK
<1>2. ASSUME faults' = 0, NEW r \in Runs, Needs(r, row')
      PROVE  \E u \in Threads : Executes(thread'[u], r)
  <2>1. CASE Executes(th, r)
    BY <1>1, <2>1
  <2>2. CASE Needs(r, row) /\ ~Executes(thread[t], r)
    <3>1. Executing(r)
      BY <1>2, <2>2 DEF MeshInv, RunningIsExecuted, Needs
    <3>2. PICK u \in Threads : Executes(thread[u], r)
      BY <3>1 DEF Executing, Executes
    <3>3. u # t
      BY <2>2, <3>2
    <3>4. QED
      BY <1>1, <3>2, <3>3
  <2>3. QED
    BY <1>2, <2>1, <2>2
<1>3. QED
  BY <1>2 DEF RunningIsExecuted, Executing, Executes, Needs

\* A step of one thread keeps the invariant if it keeps these parts.
LEMMA StepSafe ==
  ASSUME MeshInv, NEW t \in Threads, NEW th \in Thread, thread' = [thread EXCEPT ![t] = th],
         row' \in [Runs -> Row], RowsOK(row'), Below(delegated', row'),
         delegated' \subseteq Runs \X Runs, faults' \in 0..MaxFaults,
         \A q \in Runs : Kept(q, row, row'),
         ThreadOK(th, row'),
         \A u \in Threads : u # t /\ thread[u].pc = "spawn" => row'[thread[u].child].status = "none",
         th.child # NoRun => th.child = thread[t].child \/ \A u \in Threads : thread[u].child # th.child,
         faults' = 0 => faults = 0,
         faults' = 0 =>
           \A r \in Runs : Needs(r, row') =>
             Executes(th, r) \/ (Needs(r, row) /\ ~Executes(thread[t], r))
  PROVE  MeshInv'
<1>1. thread' \in [Threads -> Thread] /\ ThreadInv' /\ ChildInv'
  BY ThreadMoves
<1>2. RunningIsExecuted'
  BY ExecutionMoves
<1>3. QED
  BY <1>1, <1>2 DEF MeshInv, TypeOK

\* A step that writes no row.
LEMMA QuietStep ==
  ASSUME MeshInv, NEW t \in Threads, NEW th \in Thread, thread' = [thread EXCEPT ![t] = th],
         UNCHANGED <<row, delegated>>,
         ThreadOK(th, row),
         th.child # NoRun => th.child = thread[t].child \/ \A u \in Threads : thread[u].child # th.child,
         faults' \in 0..MaxFaults,
         faults' = 0 => /\ faults = 0
                        /\ \A r \in Runs : Needs(r, row) /\ Executes(thread[t], r) => Executes(th, r)
  PROVE  MeshInv'
<1>1. \A q \in Runs : Kept(q, row, row')
  BY DEF Kept
<1>2. \A u \in Threads : u # t /\ thread[u].pc = "spawn" => row'[thread[u].child].status = "none"
  BY DEF MeshInv, ThreadInv, ThreadOK, Holding
<1>3. faults' = 0 =>
        \A r \in Runs : Needs(r, row') =>
          Executes(th, r) \/ (Needs(r, row) /\ ~Executes(thread[t], r))
  OBVIOUS
<1>4. /\ row' \in [Runs -> Row] /\ RowsOK(row') /\ Below(delegated', row')
      /\ delegated' \subseteq Runs \X Runs /\ ThreadOK(th, row')
  BY DEF MeshInv, TypeOK
<1>5. QED
  BY <1>1, <1>2, <1>3, <1>4, StepSafe

-----------------------------------------------------------------------------
(* What a thread becomes.                                                  *)

Points == {"idle", "read", "write", "list"} \cup ExecutionPoints

WithPoint(th, p)        == [th EXCEPT !.pc = p]
WithChild(th, p, c)     == [th EXCEPT !.pc = p, !.child = c]
WithStack(th, p, s)     == [th EXCEPT !.pc = p, !.stack = s]
WithBoth(th, p, s, c)   == [th EXCEPT !.pc = p, !.stack = s, !.child = c]

LEMMA PointWritten ==
  ASSUME NEW th \in Thread, NEW p \in Points
  PROVE  LET th2 == WithPoint(th, p) IN
         /\ th2 \in Thread
         /\ th2.op = th.op /\ th2.pc = p /\ th2.stack = th.stack /\ th2.child = th.child
         /\ th2.todo = th.todo
BY DEF Thread, Points, ExecutionPoints, WithPoint

LEMMA ChildWritten ==
  ASSUME NEW th \in Thread, NEW p \in Points, NEW c \in Runs \cup {NoRun}
  PROVE  LET th2 == WithChild(th, p, c) IN
         /\ th2 \in Thread
         /\ th2.op = th.op /\ th2.pc = p /\ th2.stack = th.stack /\ th2.child = c
         /\ th2.todo = th.todo
BY DEF Thread, Points, ExecutionPoints, WithChild

LEMMA StackWritten ==
  ASSUME NEW th \in Thread, NEW p \in Points, NEW s \in Seq(Frame)
  PROVE  LET th2 == WithStack(th, p, s) IN
         /\ th2 \in Thread
         /\ th2.op = th.op /\ th2.pc = p /\ th2.stack = s /\ th2.child = th.child
         /\ th2.todo = th.todo
BY DEF Thread, Points, ExecutionPoints, WithStack

LEMMA SamePoint ==
  ASSUME NEW th \in Thread, NEW s
  PROVE  [th EXCEPT !.stack = s] = WithStack(th, th.pc, s)
BY DEF Thread, WithStack

LEMMA BothWritten ==
  ASSUME NEW th \in Thread, NEW p \in Points, NEW s \in Seq(Frame), NEW c \in Runs \cup {NoRun}
  PROVE  LET th2 == WithBoth(th, p, s, c) IN
         /\ th2 \in Thread
         /\ th2.op = th.op /\ th2.pc = p /\ th2.stack = s /\ th2.child = c
         /\ th2.todo = th.todo
BY DEF Thread, Points, ExecutionPoints, WithBoth

\* The points of an execution between its delegations.
Plain == {"begin", "plan", "step", "raised"}

LEMMA ExecutesRun ==
  ASSUME NEW th \in Thread, NEW r \in Runs
  PROVE  Executes(th, r) <=>
           /\ th.op = "execute"
           /\ th.child = r \/ \E i \in 1..Len(th.stack) : th.stack[i].run = r
BY ThreadFields DEF Executes

\* The copy of the innermost run changes; the run it is of does not.
LEMMA TopMoves ==
  ASSUME NEW th \in Thread, NEW rows, ThreadOK(th, rows),
         th.op = "execute", th.child = NoRun,
         NEW f \in Frame, f.run = th.stack[1].run, f.status \notin Terminal,
         NEW th2 \in Thread, th2.op = "execute", th2.pc \in Plain, th2.child = NoRun,
         th2.stack = [th.stack EXCEPT ![1] = f]
  PROVE  /\ ThreadOK(th2, rows)
         /\ \A r \in Runs : Executes(th, r) => Executes(th2, r)
<1>1. th.stack \in Seq(Frame) /\ Len(th.stack) > 0
  BY ThreadFields DEF ThreadOK, Shape
<1>2. /\ Len(th2.stack) = Len(th.stack) /\ th2.stack[1] = f
      /\ \A i \in 2..Len(th.stack) : th2.stack[i] = th.stack[i]
  BY <1>1, TopWritten
<1>3. \A i \in 1..Len(th.stack) : th2.stack[i].run = th.stack[i].run
  BY <1>1, <1>2
<1>4. th.pc \in ExecutionPoints
  BY DEF ThreadOK, Shape
<1>5. \A i \in 1..Len(th.stack) : th2.stack[i].status \notin Terminal
  BY <1>1, <1>2, <1>4 DEF ThreadOK, Shape, ExecutionPoints
<1>6. Shape(th2)
  BY <1>1, <1>2, <1>5 DEF ThreadOK, Shape, ExecutionPoints, Plain
<1>7. Holding(th2, rows)
  BY <1>2, <1>3 DEF ThreadOK, Holding, Plain
<1>8. \A r \in Runs : Executes(th, r) => Executes(th2, r)
  BY <1>2, <1>3, ExecutesRun, MeshAssumption
<1>9. QED
  BY <1>6, <1>7, <1>8 DEF ThreadOK

\* The stack stays, and no child is underway.
LEMMA PointMoves ==
  ASSUME NEW th \in Thread, NEW rows, ThreadOK(th, rows), th.op = "execute",
         NEW th2 \in Thread, th2.op = "execute", th2.pc \in Plain, th2.child = NoRun,
         th2.stack = th.stack
  PROVE  /\ ThreadOK(th2, rows)
         /\ \A r \in Runs : Executes(th, r) /\ r # th.child => Executes(th2, r)
<1>1. th.pc \in ExecutionPoints /\ Len(th.stack) > 0
  BY DEF ThreadOK, Shape
<1>2. Shape(th2)
  BY <1>1 DEF ThreadOK, Shape, ExecutionPoints, Plain
<1>3. Holding(th2, rows)
  BY DEF ThreadOK, Holding, Plain
<1>4. \A r \in Runs : Executes(th, r) /\ r # th.child => Executes(th2, r)
  BY DEF Executes
<1>5. QED
  BY <1>2, <1>3, <1>4 DEF ThreadOK

LEMMA UnwoundOK ==
  ASSUME NEW th \in Thread, NEW rows, ThreadOK(th, rows), th.op = "execute", th.child = NoRun
  PROVE  /\ Unwound(th) \in Thread /\ ThreadOK(Unwound(th), rows)
         /\ Unwound(th).child = NoRun
         /\ \A r \in Runs : Executes(th, r) /\ r # th.stack[1].run => Executes(Unwound(th), r)
<1>1. th.stack \in Seq(Frame) /\ Len(th.stack) > 0 /\ Len(th.stack) \in Nat
      /\ th.pc \in ExecutionPoints
  BY ThreadFields DEF ThreadOK, Shape
<1>a. /\ Len(th.stack) = 1 \/ Len(th.stack) > 1
      /\ Len(th.stack) > 1 => Len(th.stack) # 1
  BY <1>1, OneOrMore
<1>2. CASE Len(th.stack) = 1
  <2>1. Unwound(th) = Idle
    BY <1>2 DEF Unwound
  <2>2. \A r \in Runs : Executes(th, r) => r = th.stack[1].run
    BY <1>2, ExecutesRun, MeshAssumption
  <2>3. QED
    BY <2>1, <2>2, IdleOK
<1>3. CASE Len(th.stack) > 1
  <2> DEFINE s   == Tail(th.stack)
             th2 == WithStack(th, "raised", s)
  <2>1. Unwound(th) = th2
    BY <1>3, <1>a DEF Unwound, WithStack
  <2>b. Len(th.stack) > 1
    BY <1>3
  <2>2. /\ s \in Seq(Frame) /\ Len(s) = Len(th.stack) - 1 /\ Len(s) \in Nat
        /\ \A i \in 1..Len(s) : s[i] = th.stack[i + 1]
    BY <1>1, Popped
  <2>a. "raised" \in Points
    BY DEF Points, ExecutionPoints
  <2> HIDE DEF s
  <2>3. /\ th2 \in Thread /\ th2.op = "execute" /\ th2.pc = "raised" /\ th2.child = NoRun
        /\ th2.stack = s
    BY <2>2, <2>a, StackWritten
  <2> HIDE DEF th2
  <2>4. Len(s) > 0
    BY <2>b, <2>2
  <2>5. \A i \in 1..Len(s) : s[i].status \notin Terminal /\ s[i].left > 0
    BY <1>1, <2>2 DEF ThreadOK, Shape, ExecutionPoints
  <2>6. Shape(th2)
    BY <2>3, <2>4, <2>5 DEF Shape, ExecutionPoints
  <2>7. Holding(th2, rows)
    BY <1>1, <2>2, <2>3 DEF ThreadOK, Holding
  <2>8. ASSUME NEW r \in Runs, Executes(th, r), r # th.stack[1].run
        PROVE  Executes(th2, r)
    <3>1. PICK i \in 1..Len(th.stack) : th.stack[i].run = r
      BY <2>8, ExecutesRun, MeshAssumption
    <3>2. i # 1 /\ i - 1 \in 1..Len(s)
      BY <1>1, <2>2, <2>8, <3>1
    <3>3. s[i - 1] = th.stack[i]
      BY <2>2, <3>2
    <3>4. QED
      BY <2>3, <3>1, <3>2, <3>3, ExecutesRun
  <2>9. QED
    BY <2>1, <2>3, <2>6, <2>7, <2>8 DEF ThreadOK
<1>4. QED
  BY <1>a, <1>2, <1>3

\* An execution that ended goes back to the step that delegated it.
LEMMA ReturnedOK ==
  ASSUME NEW th \in Thread, NEW rows, ThreadOK(th, rows), th.op = "execute", th.child = NoRun
  PROVE  /\ Returned(th) \in Thread /\ ThreadOK(Returned(th), rows)
         /\ Returned(th).child = NoRun
         /\ \A r \in Runs : Executes(th, r) /\ r # th.stack[1].run => Executes(Returned(th), r)
<1>1. th.stack \in Seq(Frame) /\ Len(th.stack) > 0 /\ Len(th.stack) \in Nat
  BY ThreadFields DEF ThreadOK, Shape
<1>a. /\ Len(th.stack) = 1 \/ Len(th.stack) > 1
      /\ Len(th.stack) > 1 => Len(th.stack) # 1
  BY <1>1, OneOrMore
<1> DEFINE s == Tail(th.stack)
<1>2. CASE Len(th.stack) = 1 \/ ~Exists(s[1].run)
  <2>1. Returned(th) = Unwound(th)
    BY <1>2 DEF Returned, Unwound
  <2>2. QED
    BY <2>1, UnwoundOK
<1>3. CASE Len(th.stack) > 1 /\ Exists(s[1].run)
  <2> DEFINE th1 == WithStack(th, "raised", s)
  <2>1. Returned(th) = [th EXCEPT !.pc = "step",
                                  !.stack = [s EXCEPT ![1] = [s[1] EXCEPT !.left = s[1].left - 1]]]
    BY <1>3, <1>a DEF Returned
  <2>2. /\ s \in Seq(Frame) /\ Len(s) = Len(th.stack) - 1 /\ Len(s) \in Nat
        /\ \A i \in 1..Len(s) : s[i] = th.stack[i + 1]
    BY <1>1, Popped
  <2>3. Unwound(th) = th1
    BY <1>3, <1>a DEF Unwound, WithStack
  <2> HIDE DEF s
  <2>4. /\ Len(s) > 0 /\ s[1] = th.stack[2] /\ s[1] \in Frame
        /\ 2 \in 2..Len(th.stack)
    <3>1. Len(th.stack) > 1
      BY <1>3
    <3>2. Len(s) > 0
      BY <1>1, <2>2, <3>1
    <3>3. 1 \in 1..Len(s) /\ 2 \in 2..Len(th.stack)
      BY <1>1, <2>2, <3>1
    <3>4. s[1] = th.stack[2]
      BY <2>2, <3>3
    <3>5. s[1] \in Frame
      BY <2>2, <3>3
    <3>6. QED
      BY <3>2, <3>3, <3>4, <3>5
  <2>5. "raised" \in Points /\ "step" \in Points
    BY DEF Points, ExecutionPoints
  <2>6. th1.op = "execute" /\ th1.stack = s /\ th1.pc = "raised" /\ th1.child = NoRun
    BY <2>2, <2>5, StackWritten
  <2>7. /\ th1 \in Thread /\ ThreadOK(th1, rows)
        /\ \A r \in Runs : Executes(th, r) /\ r # th.stack[1].run => Executes(th1, r)
    BY <2>3, UnwoundOK
  <2> HIDE DEF th1
  <2> DEFINE f == [s[1] EXCEPT !.left = s[1].left - 1]
  <2>8. f \in Frame /\ f.run = s[1].run /\ f.status = s[1].status
    <3>1. s[1].left > 0 /\ s[1].left \in 0..MaxSteps /\ MaxSteps \in Nat
      BY <2>4, FrameFields, MeshAssumption DEF ThreadOK, Shape
    <3>2. s[1].left - 1 \in 0..MaxSteps
      BY <3>1
    <3>3. QED
      BY <2>4, <3>2 DEF Frame
  <2> DEFINE s2  == [s EXCEPT ![1] = f]
             th2 == WithStack(th, "step", s2)
  <2>9. Returned(th) = th2
    BY <2>1 DEF WithStack
  <2> HIDE DEF f
  <2>10. s2 \in Seq(Frame)
    BY <2>2, <2>4, <2>8, TopWritten
  <2> HIDE DEF s2
  <2>11. th2 \in Thread /\ th2.op = "execute" /\ th2.pc = "step" /\ th2.stack = s2 /\ th2.child = NoRun
    BY <2>5, <2>10, StackWritten
  <2> HIDE DEF th2
  <2>12. f.status \notin Terminal
    BY <2>2, <2>4, <2>6, <2>7, <2>8 DEF ThreadOK, Shape
  <2>13. /\ ThreadOK(th2, rows)
         /\ \A r \in Runs : Executes(th1, r) => Executes(th2, r)
    BY <2>6, <2>7, <2>8, <2>11, <2>12, TopMoves DEF Plain, s2
  <2>14. QED
    BY <2>7, <2>9, <2>11, <2>13
<1>4. QED
  BY <1>a, <1>2, <1>3

-----------------------------------------------------------------------------
(* The steps of handlers and executions.                                   *)

LEMMA ThreadFacts ==
  ASSUME MeshInv, NEW t \in Threads
  PROVE  /\ thread \in [Threads -> Thread] /\ thread[t] \in Thread
         /\ ThreadOK(thread[t], row) /\ Shape(thread[t])
         /\ thread[t].stack \in Seq(Frame)
BY ThreadFields DEF MeshInv, TypeOK, ThreadInv, ThreadOK

LEMMA TopFacts ==
  ASSUME MeshInv, NEW t \in Threads, Len(thread[t].stack) > 0
  PROVE  /\ Top(t) = thread[t].stack[1] /\ Top(t) \in Frame /\ Top(t).run \in Runs
         /\ row[Top(t).run].status # "none"
<1>1. 1 \in 1..Len(thread[t].stack)
  BY ThreadFacts
<1>2. QED
  BY <1>1, ThreadFacts, ThreadFields DEF Top, ThreadOK, Holding

LEMMA ExecutionFacts ==
  ASSUME MeshInv, NEW t \in Threads, thread[t].op = "execute"
  PROVE  /\ Len(thread[t].stack) > 0
         /\ thread[t].pc \in ExecutionPoints
         /\ Top(t) = thread[t].stack[1] /\ Top(t) \in Frame /\ Top(t).run \in Runs
         /\ Top(t).status \notin Terminal
         /\ row[Top(t).run].status # "none"
         /\ thread[t].pc \in Plain => thread[t].child = NoRun
<1>1. Len(thread[t].stack) > 0 /\ thread[t].pc \in ExecutionPoints
  BY ThreadFacts DEF Shape
<1>2. 1 \in 1..Len(thread[t].stack)
  BY <1>1, ThreadFacts
<1>3. QED
  BY <1>1, <1>2, TopFacts, ThreadFacts DEF Shape, ExecutionPoints, Plain

LEMMA HandlerFacts ==
  ASSUME MeshInv, NEW t \in Threads, thread[t].op # "execute"
  PROVE  /\ thread[t].child = NoRun
         /\ \A r \in Runs : ~Executes(thread[t], r)
BY ThreadFacts DEF Shape, ExecutionPoints, Executes

\* A copy of a run is saved, with a status that is not that of a new one.
LEMMA SaveStep ==
  ASSUME MeshInv, NEW t \in Threads, NEW th \in Thread, thread' = [thread EXCEPT ![t] = th],
         NEW r \in Runs, row[r].status # "none",
         NEW s \in Status \ {"pending"}, SaveRun(r, s), UNCHANGED <<delegated, faults>>,
         ThreadOK(th, row), th.child = NoRun,
         \A q \in Runs : q # r /\ Executes(thread[t], q) => Executes(th, q),
         s = "running" => Executes(th, r)
  PROVE  MeshInv'
<1>1. /\ row \in [Runs -> Row] /\ RowsOK(row) /\ Below(delegated, row)
      /\ delegated \subseteq Runs \X Runs /\ faults \in 0..MaxFaults
  BY DEF MeshInv, TypeOK
<1>2. /\ row' \in [Runs -> Row] /\ RowsOK(row') /\ Below(delegated, row')
      /\ \A q \in Runs : Kept(q, row, row')
      /\ row'[r].status = s
      /\ \A q \in Runs : q # r => row'[q] = row[q]
  BY <1>1, SaveRunKeeps
<1>3. th.pc # "spawn"
  BY DEF ThreadOK, Shape
<1>4. ThreadOK(th, row')
  BY <1>2, <1>3, ThreadKept
<1>5. ASSUME NEW u \in Threads, thread[u].pc = "spawn"
      PROVE  row'[thread[u].child].status = "none"
  <2>1. thread[u].child \in Runs /\ row[thread[u].child].status = "none"
    BY <1>5, ThreadFacts, ThreadFields DEF ThreadOK, Holding, Shape
  <2>2. QED
    BY <1>2, <2>1
<1>6. ASSUME NEW q \in Runs, Needs(q, row')
      PROVE  Executes(th, q) \/ (Needs(q, row) /\ ~Executes(thread[t], q))
  <2>1. CASE q = r
    BY <1>2, <1>6, <2>1 DEF Needs
  <2>2. CASE q # r
    BY <1>2, <1>6, <2>2 DEF Needs
  <2>3. QED
    BY <2>1, <2>2
<1>7. Below(delegated', row') /\ delegated' \subseteq Runs \X Runs /\ faults' \in 0..MaxFaults
  BY <1>1, <1>2
<1>8. QED
  BY <1>2, <1>4, <1>5, <1>6, <1>7, StepSafe

\* A handler that writes no row.
LEMMA HandlerStep ==
  ASSUME MeshInv, NEW t \in Threads, NEW th \in Thread, thread' = [thread EXCEPT ![t] = th],
         thread[t].op # "execute", ThreadOK(th, row), th.child = NoRun,
         UNCHANGED <<row, delegated, faults>>
  PROVE  MeshInv'
<1>1. \A r \in Runs : ~Executes(thread[t], r)
  BY HandlerFacts
<1>2. faults' \in 0..MaxFaults
  BY DEF MeshInv, TypeOK
<1>3. QED
  BY <1>1, <1>2, QuietStep

\* An exception that leaves execute_run: the row of the run has gone with that of
\* its parent, or the database has failed.
LEMMA UnwindStep ==
  ASSUME MeshInv, NEW t \in Threads, thread[t].op = "execute", thread[t].child = NoRun,
         ~Storable(Top(t).run),
         thread' = [thread EXCEPT ![t] = Unwound(thread[t])],
         UNCHANGED <<row, delegated, faults>>
  PROVE  MeshInv'
<1>1. /\ Unwound(thread[t]) \in Thread /\ ThreadOK(Unwound(thread[t]), row)
      /\ Unwound(thread[t]).child = NoRun
      /\ \A r \in Runs : Executes(thread[t], r) /\ r # Top(t).run => Executes(Unwound(thread[t]), r)
  BY ThreadFacts, ExecutionFacts, UnwoundOK
<1>2. ~Needs(Top(t).run, row)
  BY ExecutionFacts DEF MeshInv, RowsOK, Storable, Exists, Needs, Gone
<1>3. faults' \in 0..MaxFaults
  BY DEF MeshInv, TypeOK
<1> DEFINE th == Unwound(thread[t])
<1> HIDE DEF th
<1>4. th \in Thread /\ ThreadOK(th, row) /\ th.child = NoRun /\ thread' = [thread EXCEPT ![t] = th]
  BY <1>1 DEF th
<1>5. \A r \in Runs : Needs(r, row) /\ Executes(thread[t], r) => Executes(th, r)
  BY <1>1, <1>2 DEF th
<1>6. QED
  BY <1>3, <1>4, <1>5, QuietStep

LEMMA ConcludeSafe ==
  ASSUME MeshInv, NEW t \in Threads, thread[t].op = "execute", thread[t].child = NoRun,
         NEW s \in {"completed", "failed", "timed_out"}, Conclude(t, s),
         UNCHANGED <<delegated, faults>>
  PROVE  MeshInv'
<1> DEFINE th == Returned(thread[t])
<1>1. /\ th \in Thread /\ ThreadOK(th, row) /\ th.child = NoRun
      /\ \A r \in Runs : Executes(thread[t], r) /\ r # Top(t).run => Executes(th, r)
  BY ThreadFacts, ExecutionFacts, ReturnedOK
<1>2. thread' = [thread EXCEPT ![t] = th] /\ SaveRun(Top(t).run, s)
  BY DEF Conclude
<1>3. s \in Status \ {"pending"} /\ s # "running"
  BY DEF Status, Terminal
<1> HIDE DEF th
<1>4. QED
  BY <1>1, <1>2, <1>3, ExecutionFacts, SaveStep

\* Begin, Plan and the steps of an execution: the copy of the run changes.
LEMMA FrameWritten ==
  ASSUME MeshInv, NEW t \in Threads, thread[t].op = "execute", thread[t].child = NoRun,
         NEW f \in Frame, f.run = Top(t).run, f.status \notin Terminal, NEW p \in Plain
  PROVE  LET th == WithStack(thread[t], p, [thread[t].stack EXCEPT ![1] = f]) IN
         /\ th \in Thread /\ ThreadOK(th, row) /\ th.child = NoRun
         /\ \A r \in Runs : Executes(thread[t], r) => Executes(th, r)
         /\ Executes(th, Top(t).run)
<1> DEFINE s  == [thread[t].stack EXCEPT ![1] = f]
           th == WithStack(thread[t], p, s)
<1>1. s \in Seq(Frame)
  BY ThreadFacts, ExecutionFacts, TopWritten
<1>2. p \in Points
  BY DEF Plain, Points, ExecutionPoints
<1> HIDE DEF s
<1>3. th \in Thread /\ th.op = "execute" /\ th.pc = p /\ th.stack = s /\ th.child = NoRun
  BY <1>1, <1>2, ThreadFacts, StackWritten
<1> HIDE DEF th
<1>4. /\ ThreadOK(th, row)
      /\ \A r \in Runs : Executes(thread[t], r) => Executes(th, r)
  BY <1>3, ThreadFacts, ExecutionFacts, TopMoves DEF s
<1>5. Executes(thread[t], Top(t).run)
  <2>1. 1 \in 1..Len(thread[t].stack)
    BY ThreadFacts, ExecutionFacts
  <2>2. QED
    BY <2>1, ThreadFacts, ExecutionFacts, ExecutesRun
<1>6. QED
  BY <1>3, <1>4, <1>5, ExecutionFacts DEF th, s

LEMMA BeginSafe ==
  ASSUME MeshInv, NEW t \in Threads, Begin(t)
  PROVE  MeshInv'
<1>1. thread[t].op = "execute" /\ thread[t].pc = "begin" /\ thread[t].child = NoRun
  BY ExecutionFacts DEF Begin, At, Plain
<1>2. CASE ~Storable(Top(t).run)
  BY <1>1, <1>2, UnwindStep DEF Begin
<1>3. CASE Storable(Top(t).run)
  <2> DEFINE f  == [Top(t) EXCEPT !.status = "running"]
             th == WithStack(thread[t], "plan", [thread[t].stack EXCEPT ![1] = f])
  <2>1. f \in Frame /\ f.run = Top(t).run /\ f.status \notin Terminal
    BY <1>1, ExecutionFacts DEF Frame, Status, Terminal
  <2>2. thread' = [thread EXCEPT ![t] = th] /\ SaveRun(Top(t).run, "running")
    <3>1. /\ thread' = [thread EXCEPT ![t].pc = "plan", ![t].stack[1].status = "running"]
          /\ SaveRun(Top(t).run, "running")
      BY <1>3 DEF Begin
    <3>2. QED
      BY <3>1 DEF WithStack, Top
  <2>3. "plan" \in Plain /\ "running" \in Status \ {"pending"}
    BY DEF Plain, Status
  <2> HIDE DEF f
  <2>4. /\ th \in Thread /\ ThreadOK(th, row) /\ th.child = NoRun
        /\ \A r \in Runs : Executes(thread[t], r) => Executes(th, r)
        /\ Executes(th, Top(t).run)
    BY <1>1, <2>1, <2>3, FrameWritten
  <2> HIDE DEF th
  <2>5. UNCHANGED <<delegated, faults>>
    BY DEF Begin
  <2>6. QED
    BY <1>1, <2>2, <2>3, <2>4, <2>5, ExecutionFacts, SaveStep
<1>4. QED
  BY <1>2, <1>3

\* A step of an execution that changes its copy or its point only.
LEMMA FrameStep ==
  ASSUME MeshInv, NEW t \in Threads, thread[t].op = "execute", thread[t].child = NoRun,
         NEW f \in Frame, f.run = Top(t).run, f.status \notin Terminal, NEW p \in Plain,
         thread' = [thread EXCEPT ![t] = WithStack(thread[t], p, [thread[t].stack EXCEPT ![1] = f])],
         UNCHANGED <<row, delegated, faults>>
  PROVE  MeshInv'
<1> DEFINE th == WithStack(thread[t], p, [thread[t].stack EXCEPT ![1] = f])
<1>1. /\ th \in Thread /\ ThreadOK(th, row) /\ th.child = NoRun
      /\ \A r \in Runs : Executes(thread[t], r) => Executes(th, r)
  BY FrameWritten
<1>2. thread' = [thread EXCEPT ![t] = th]
  OBVIOUS
<1> HIDE DEF th
<1>3. faults' \in 0..MaxFaults
  BY DEF MeshInv, TypeOK
<1>4. QED
  BY <1>1, <1>2, <1>3, QuietStep

LEMMA PointStep ==
  ASSUME MeshInv, NEW t \in Threads, thread[t].op = "execute", thread[t].child = NoRun,
         NEW p \in Plain, thread' = [thread EXCEPT ![t] = WithPoint(thread[t], p)],
         UNCHANGED <<row, delegated, faults>>
  PROVE  MeshInv'
<1> DEFINE th == WithPoint(thread[t], p)
<1>1. p \in Points
  BY DEF Plain, Points, ExecutionPoints
<1>2. /\ th \in Thread /\ th.op = "execute" /\ th.pc = p /\ th.stack = thread[t].stack
      /\ th.child = NoRun
  BY <1>1, ThreadFacts, PointWritten
<1>3. thread' = [thread EXCEPT ![t] = th]
  OBVIOUS
<1> HIDE DEF th
<1>4. /\ ThreadOK(th, row)
      /\ \A r \in Runs : Executes(thread[t], r) /\ r # thread[t].child => Executes(th, r)
  BY <1>2, ThreadFacts, PointMoves
<1>5. \A r \in Runs : r # thread[t].child
  BY MeshAssumption
<1>6. faults' \in 0..MaxFaults
  BY DEF MeshInv, TypeOK
<1>7. QED
  BY <1>2, <1>3, <1>4, <1>5, <1>6, QuietStep

LEMMA PlanSafe ==
  ASSUME MeshInv, NEW t \in Threads, Plan(t)
  PROVE  MeshInv'
<1>1. thread[t].op = "execute" /\ thread[t].child = NoRun
  BY ExecutionFacts DEF Plan, At, Plain
<1>2. CASE Goto(t, "raised")
  <2>1. "raised" \in Plain
    BY DEF Plain
  <2>2. thread' = [thread EXCEPT ![t] = WithPoint(thread[t], "raised")]
    BY <1>2 DEF Goto, WithPoint
  <2>3. QED
    BY <1>1, <2>1, <2>2, PointStep DEF Plan
<1>3. ASSUME NEW n \in 1..MaxSteps,
             thread' = [thread EXCEPT ![t].pc = "step", ![t].stack[1].left = n]
      PROVE  MeshInv'
  <2> DEFINE f == [Top(t) EXCEPT !.left = n]
  <2>1. n \in 0..MaxSteps
    BY MeshAssumption
  <2>2. f \in Frame /\ f.run = Top(t).run /\ f.status = Top(t).status
    BY <1>1, <2>1, ExecutionFacts DEF Frame
  <2>3. thread' = [thread EXCEPT ![t] =
                     WithStack(thread[t], "step", [thread[t].stack EXCEPT ![1] = f])]
    BY <1>3 DEF WithStack, Top
  <2>4. "step" \in Plain
    BY DEF Plain
  <2> HIDE DEF f
  <2>5. UNCHANGED <<row, delegated, faults>>
    BY DEF Plan
  <2>6. QED
    BY <1>1, <2>2, <2>3, <2>4, <2>5, ExecutionFacts, FrameStep
<1>4. QED
  BY <1>2, <1>3 DEF Plan

LEMMA EndSafe ==
  ASSUME MeshInv, NEW t \in Threads, TimeOut(t) \/ Finish(t) \/ Fail(t)
  PROVE  MeshInv'
<1>1. thread[t].op = "execute" /\ thread[t].child = NoRun /\ UNCHANGED <<delegated, faults>>
  BY ExecutionFacts DEF TimeOut, Finish, Fail, At, Plain
<1>2. \/ \E s \in {"completed", "failed", "timed_out"} : Conclude(t, s)
      \/ /\ ~Storable(Top(t).run)
         /\ thread' = [thread EXCEPT ![t] = Unwound(thread[t])]
         /\ UNCHANGED row
  BY DEF TimeOut, Finish, Fail
<1>3. QED
  BY <1>1, <1>2, ConcludeSafe, UnwindStep

LEMMA ActSafe ==
  ASSUME MeshInv, NEW t \in Threads, Act(t)
  PROVE  MeshInv'
<1>1. /\ thread[t].op = "execute" /\ thread[t].child = NoRun
      /\ Top(t).left > 0 /\ Top(t).iters < MaxIterations
      /\ UNCHANGED <<row, delegated, faults>>
  BY ExecutionFacts DEF Act, Iterated, At, Plain
<1>2. Top(t).left - 1 \in 0..MaxSteps /\ Top(t).iters + 1 \in 0..MaxIterations
  BY <1>1, ExecutionFacts, FrameFields, MeshAssumption
<1>3. CASE thread' = [thread EXCEPT ![t].stack[1] = [Top(t) EXCEPT !.left = @ - 1,
                                                             !.iters = @ + 1]]
  <2> DEFINE f == [Top(t) EXCEPT !.left = Top(t).left - 1, !.iters = Top(t).iters + 1]
  <2>1. f \in Frame /\ f.run = Top(t).run /\ f.status = Top(t).status
    BY <1>1, <1>2, ExecutionFacts DEF Frame
  <2>2. thread' = [thread EXCEPT ![t] =
                     WithStack(thread[t], "step", [thread[t].stack EXCEPT ![1] = f])]
    <3> DEFINE s == [thread[t].stack EXCEPT ![1] = f]
    <3>1. thread' = [thread EXCEPT ![t] = [thread[t] EXCEPT !.stack = s]]
      <4>1. thread' = [thread EXCEPT ![t].stack[1] = f]
        BY <1>3 DEF Top
      <4>2. QED
        BY <4>1
    <3>2. thread[t].pc = "step"
      BY DEF Act, Iterated, At
    <3> HIDE DEF s
    <3>3. [thread[t] EXCEPT !.stack = s] = WithStack(thread[t], "step", s)
      BY <3>2, ThreadFacts, SamePoint
    <3>4. QED
      BY <3>1, <3>3 DEF s
  <2>3. "step" \in Plain
    BY DEF Plain
  <2> HIDE DEF f
  <2>4. QED
    BY <1>1, <2>1, <2>2, <2>3, ExecutionFacts, FrameStep
<1>4. CASE thread' = [thread EXCEPT ![t].pc = "raised", ![t].stack[1].iters = @ + 1]
  <2> DEFINE f == [Top(t) EXCEPT !.iters = Top(t).iters + 1]
  <2>1. f \in Frame /\ f.run = Top(t).run /\ f.status = Top(t).status
    BY <1>1, <1>2, ExecutionFacts DEF Frame
  <2>2. thread' = [thread EXCEPT ![t] =
                     WithStack(thread[t], "raised", [thread[t].stack EXCEPT ![1] = f])]
    BY <1>4 DEF WithStack, Top
  <2>3. "raised" \in Plain
    BY DEF Plain
  <2> HIDE DEF f
  <2>4. QED
    BY <1>1, <2>1, <2>2, <2>3, ExecutionFacts, FrameStep
<1>5. QED
  BY <1>3, <1>4 DEF Act

-----------------------------------------------------------------------------
(* Delegations.                                                            *)

LEMMA DelegateSafe ==
  ASSUME MeshInv, NEW t \in Threads, Delegate(t)
  PROVE  MeshInv'
<1>1. /\ thread[t].op = "execute" /\ thread[t].pc = "step" /\ thread[t].child = NoRun
      /\ Top(t).left > 0 /\ Top(t).iters < MaxIterations
      /\ UNCHANGED <<row, delegated, faults>>
  BY ExecutionFacts DEF Delegate, Iterated, At, Plain
<1> DEFINE f == [Top(t) EXCEPT !.iters = Top(t).iters + 1]
           s == [thread[t].stack EXCEPT ![1] = f]
<1>2. Top(t).iters + 1 \in 0..MaxIterations
  BY <1>1, ExecutionFacts, FrameFields, MeshAssumption
<1>3. f \in Frame /\ f.run = Top(t).run /\ f.status = Top(t).status /\ f.left = Top(t).left
  BY <1>1, <1>2, ExecutionFacts DEF Frame
<1>4. PICK c \in Fresh :
        thread' = IF MayDelegate(Top(t).run)
                  THEN [thread EXCEPT ![t].stack[1].iters = @ + 1,
                                      ![t].pc = "spawn", ![t].child = c]
                  ELSE [thread EXCEPT ![t].stack[1].iters = @ + 1, ![t].pc = "raised"]
  BY DEF Delegate
<1>5. CASE ~MayDelegate(Top(t).run)
  <2>1. thread' = [thread EXCEPT ![t] = WithStack(thread[t], "raised", s)]
    BY <1>4, <1>5 DEF WithStack, Top
  <2>2. "raised" \in Plain
    BY DEF Plain
  <2> HIDE DEF f
  <2>3. QED
    BY <1>1, <1>3, <2>1, <2>2, ExecutionFacts, FrameStep
<1>6. CASE MayDelegate(Top(t).run)
  <2> DEFINE th == WithBoth(thread[t], "spawn", s, c)
  <2>1. thread' = [thread EXCEPT ![t] = th]
    BY <1>4, <1>6 DEF WithBoth, Top
  <2>2. c \in Runs /\ c # NoRun /\ row[c].status = "none" /\ \A u \in Threads : thread[u].child # c
    BY MeshAssumption DEF Fresh
  <2> HIDE DEF f
  <2>3. s \in Seq(Frame) /\ Len(s) = Len(thread[t].stack) /\ s[1] = f
        /\ \A i \in 2..Len(thread[t].stack) : s[i] = thread[t].stack[i]
    BY <1>1, <1>3, ThreadFacts, ExecutionFacts, TopWritten
  <2> HIDE DEF s
  <2>4. "spawn" \in Points
    BY DEF Points, ExecutionPoints
  <2>5. th \in Thread /\ th.op = "execute" /\ th.pc = "spawn" /\ th.stack = s /\ th.child = c
    BY <1>1, <2>2, <2>3, <2>4, ThreadFacts, BothWritten
  <2> HIDE DEF th
  <2>6. \A i \in 1..Len(s) : /\ s[i].run = thread[t].stack[i].run
                             /\ s[i].status = thread[t].stack[i].status
                             /\ s[i].left = thread[t].stack[i].left
    BY <1>1, <1>3, <2>3, ThreadFacts, ExecutionFacts
  <2>7. \A i \in 1..Len(s) : s[i].status \notin Terminal
    BY <1>1, <2>3, <2>6, ThreadFacts DEF Shape
  <2>8. Len(s) > 0 /\ s[1].left > 0 /\ \A i \in 2..Len(s) : s[i].left > 0
    BY <1>1, <1>3, <2>3, ThreadFacts, ExecutionFacts DEF Shape
  <2>9. Shape(th)
    BY <2>2, <2>5, <2>7, <2>8 DEF Shape, ExecutionPoints
  <2>10. Holding(th, row)
    <3>1. \A i \in 1..Len(s) : row[s[i].run].status # "none"
      BY <2>3, <2>6, ThreadFacts DEF ThreadOK, Holding
    <3>2. row[s[1].run].depth + 1 <= MaxDepth
      BY <1>1, <1>3, <1>6, <2>3 DEF MayDelegate
    <3>3. QED
      BY <2>2, <2>5, <3>1, <3>2 DEF Holding
  <2>11. \A r \in Runs : Executes(thread[t], r) => Executes(th, r)
    <3>1. \A r \in Runs : Executes(thread[t], r) =>
             \E i \in 1..Len(thread[t].stack) : thread[t].stack[i].run = r
      BY <1>1, ThreadFacts, ExecutesRun, MeshAssumption
    <3>2. \A r \in Runs : Executes(thread[t], r) => \E i \in 1..Len(s) : s[i].run = r
      BY <2>3, <2>6, <3>1
    <3>3. QED
      BY <2>5, <3>2, ExecutesRun
  <2>12. faults' \in 0..MaxFaults /\ (faults' = 0 => faults = 0)
    BY <1>1 DEF MeshInv, TypeOK
  <2>13. QED
    BY <1>1, <2>1, <2>2, <2>5, <2>9, <2>10, <2>11, <2>12, QuietStep DEF ThreadOK
<1>7. QED
  BY <1>5, <1>6

\* The child that is given up has not been created, or has gone with its parent.
LEMMA GiveUpStep ==
  ASSUME MeshInv, NEW t \in Threads, thread[t].op = "execute",
         ~Needs(thread[t].child, row),
         thread' = [thread EXCEPT ![t] = WithChild(thread[t], "raised", NoRun)],
         UNCHANGED <<row, delegated, faults>>
  PROVE  MeshInv'
<1> DEFINE th == WithChild(thread[t], "raised", NoRun)
<1>1. "raised" \in Points
  BY DEF Points, ExecutionPoints
<1>2. /\ th \in Thread /\ th.op = "execute" /\ th.pc = "raised"
      /\ th.stack = thread[t].stack /\ th.child = NoRun
  BY <1>1, ThreadFacts, ChildWritten
<1>3. thread' = [thread EXCEPT ![t] = th]
  OBVIOUS
<1> HIDE DEF th
<1>4. /\ ThreadOK(th, row)
      /\ \A r \in Runs : Executes(thread[t], r) /\ r # thread[t].child => Executes(th, r)
  BY <1>2, ThreadFacts, PointMoves DEF Plain
<1>5. \A r \in Runs : Needs(r, row) /\ Executes(thread[t], r) => Executes(th, r)
  BY <1>4
<1>6. faults' \in 0..MaxFaults
  BY DEF MeshInv, TypeOK
<1>7. QED
  BY <1>2, <1>3, <1>4, <1>5, <1>6, QuietStep

LEMMA SpawnSafe ==
  ASSUME MeshInv, NEW t \in Threads, Spawn(t)
  PROVE  MeshInv'
<1> DEFINE p == Top(t).run
           c == thread[t].child
<1>1. /\ thread[t].op = "execute" /\ thread[t].pc = "spawn"
      /\ UNCHANGED <<delegated, faults>>
  BY DEF Spawn, At
<1>2. /\ c \in Runs /\ c # NoRun /\ row[c].status = "none"
      /\ row[p].depth + 1 <= MaxDepth
      /\ p \in Runs /\ row[p].status # "none"
      /\ thread[t].stack[1].run = p /\ thread[t].stack[1].left > 0
  <2>1. c \in Runs /\ c # NoRun
    BY <1>1, ThreadFacts, ThreadFields DEF Shape
  <2>2. p \in Runs /\ row[p].status # "none" /\ thread[t].stack[1].run = p
    BY <1>1, ExecutionFacts
  <2>3. QED
    BY <1>1, <2>1, <2>2, ThreadFacts DEF ThreadOK, Holding, Shape
<1>3. CASE ~Exists(p)
  <2>1. /\ thread' = [thread EXCEPT ![t] = WithChild(thread[t], "raised", NoRun)]
        /\ UNCHANGED row
    BY <1>3 DEF Spawn, WithChild
  <2>2. ~Needs(c, row)
    BY <1>2 DEF Needs
  <2>3. QED
    BY <1>1, <2>1, <2>2, GiveUpStep
<1>4. CASE Exists(p)
  <2> DEFINE th == WithPoint(thread[t], "record")
  <2>1. /\ row' = [row EXCEPT ![c] =
                     [status |-> "pending", parent |-> p, depth |-> row[p].depth + 1]]
        /\ thread' = [thread EXCEPT ![t] = th]
    BY <1>4 DEF Spawn, Goto, WithPoint
  <2> HIDE DEF p
  <2>2. /\ row \in [Runs -> Row] /\ RowsOK(row) /\ Below(delegated, row)
        /\ delegated \subseteq Runs \X Runs /\ faults \in 0..MaxFaults
    BY DEF MeshInv, TypeOK
  <2>3. /\ row' \in [Runs -> Row] /\ RowsOK(row') /\ Below(delegated, row')
        /\ \A q \in Runs : Kept(q, row, row')
        /\ row'[c].status = "pending" /\ row'[c].parent = p
        /\ row'[c].depth = row[p].depth + 1
        /\ \A q \in Runs : q # c => row'[q] = row[q]
        /\ p # c
    BY <1>2, <1>4, <2>1, <2>2, SpawnKeeps
  <2>4. "record" \in Points
    BY DEF Points, ExecutionPoints
  <2>5. /\ th \in Thread /\ th.op = "execute" /\ th.pc = "record"
        /\ th.stack = thread[t].stack /\ th.child = c
    BY <1>1, <2>4, ThreadFacts, PointWritten
  <2> HIDE DEF th
  <2>6. Shape(th)
    BY <1>1, <2>5, ThreadFacts DEF Shape, ExecutionPoints
  <2>7. Holding(th, row')
    <3>1. \A i \in 1..Len(th.stack) : row'[th.stack[i].run].status # "none"
      BY <2>3, <2>5, ThreadFacts, ThreadFields DEF ThreadOK, Holding, Kept
    <3>2. row'[p].depth = row[p].depth
      BY <1>2, <2>3
    <3>3. QED
      BY <1>2, <2>3, <2>5, <3>1, <3>2 DEF Holding
  <2>8. ASSUME NEW u \in Threads, u # t, thread[u].pc = "spawn"
        PROVE  row'[thread[u].child].status = "none"
    <3>1. thread[u].child \in Runs /\ row[thread[u].child].status = "none"
      BY <2>8, ThreadFacts, ThreadFields DEF ThreadOK, Holding, Shape
    <3>2. thread[u].child # c
      BY <1>2, <2>8 DEF MeshInv, ChildInv
    <3>3. QED
      BY <2>3, <3>1, <3>2
  <2>9. ASSUME NEW q \in Runs, Needs(q, row')
        PROVE  Executes(th, q) \/ (Needs(q, row) /\ ~Executes(thread[t], q))
    <3>1. CASE q = c
      BY <2>5, <3>1 DEF Executes
    <3>2. CASE q # c
      BY <2>3, <2>5, <2>9, <3>2 DEF Needs, Executes
    <3>3. QED
      BY <3>1, <3>2
  <2>10. Below(delegated', row') /\ delegated' \subseteq Runs \X Runs /\ faults' \in 0..MaxFaults
         /\ (faults' = 0 => faults = 0)
    BY <1>1, <2>2, <2>3
  <2>11. QED
    BY <2>1, <2>3, <2>5, <2>6, <2>7, <2>8, <2>9, <2>10, StepSafe DEF ThreadOK
<1>5. QED
  BY <1>3, <1>4

LEMMA RecordSafe ==
  ASSUME MeshInv, NEW t \in Threads, Record(t)
  PROVE  MeshInv'
<1> DEFINE p == Top(t).run
           c == thread[t].child
<1>1. /\ thread[t].op = "execute" /\ thread[t].pc = "record"
      /\ UNCHANGED <<row, faults>>
  BY DEF Record, At
<1>2. /\ c \in Runs /\ c # NoRun /\ row[c].status # "none"
      /\ row[c].parent = p /\ row[c].depth = row[p].depth + 1
      /\ p \in Runs /\ p # NoRun
      /\ thread[t].stack[1].run = p /\ thread[t].stack[1].left > 0
  <2>1. c \in Runs /\ c # NoRun
    BY <1>1, ThreadFacts, ThreadFields DEF Shape
  <2>2. p \in Runs /\ thread[t].stack[1].run = p
    BY <1>1, ExecutionFacts
  <2>3. QED
    BY <1>1, <2>1, <2>2, ThreadFacts, MeshAssumption DEF ThreadOK, Holding, Shape
<1>3. CASE ~(Exists(p) /\ Exists(c))
  <2>1. /\ thread' = [thread EXCEPT ![t] = WithChild(thread[t], "raised", NoRun)]
        /\ UNCHANGED delegated
    BY <1>3 DEF Record, WithChild
  <2>2. ~Exists(c)
    BY <1>2, <1>3 DEF MeshInv, RowsOK, Exists
  <2>3. ~Needs(c, row)
    BY <2>2 DEF Needs, Exists, Gone
  <2>4. QED
    BY <1>1, <2>1, <2>3, GiveUpStep
<1>4. CASE Exists(p) /\ Exists(c)
  <2> DEFINE f  == Copy(c, "pending")
             s  == <<f>> \o thread[t].stack
             th == WithBoth(thread[t], "begin", s, NoRun)
  <2>1. /\ delegated' = delegated \cup {<<p, c>>}
        /\ thread' = [thread EXCEPT ![t] = th]
    BY <1>4 DEF Record, WithBoth
  <2> HIDE DEF p
  <2>2. f \in Frame /\ f.run = c /\ f.status = "pending" /\ "pending" \notin Terminal
    BY <1>2, CopyIsAFrame DEF Status, Terminal
  <2> HIDE DEF f
  <2>3. /\ s \in Seq(Frame) /\ Len(s) = Len(thread[t].stack) + 1
        /\ s[1] = f /\ \A i \in 1..Len(thread[t].stack) : s[i + 1] = thread[t].stack[i]
        /\ Len(thread[t].stack) \in Nat /\ Len(s) \in Nat
    BY <2>2, ThreadFacts, Pushed
  <2> HIDE DEF s
  <2>4. \A i \in 2..Len(s) : i - 1 \in 1..Len(thread[t].stack) /\ s[i] = thread[t].stack[i - 1]
    BY <2>3
  <2>5. "begin" \in Points
    BY DEF Points, ExecutionPoints
  <2>6. th \in Thread /\ th.op = "execute" /\ th.pc = "begin" /\ th.stack = s /\ th.child = NoRun
    BY <1>1, <2>3, <2>5, ThreadFacts, BothWritten
  <2> HIDE DEF th
  <2>7. Shape(th)
    <3>1. \A i \in 1..Len(s) : s[i].status \notin Terminal
      <4>1. \A i \in 1..Len(thread[t].stack) : thread[t].stack[i].status \notin Terminal
        BY <1>1, ThreadFacts DEF Shape
      <4>2. \A i \in 2..Len(s) : s[i].status \notin Terminal
        BY <2>4, <4>1
      <4>3. \A i \in 1..Len(s) : i = 1 \/ i \in 2..Len(s)
        BY <2>3
      <4>4. QED
        BY <2>2, <2>3, <4>2, <4>3
    <3>2. \A i \in 2..Len(s) : s[i].left > 0
      BY <1>1, <1>2, <2>3, <2>4, ThreadFacts DEF Shape
    <3>3. QED
      BY <2>3, <2>6, <3>1, <3>2 DEF Shape, ExecutionPoints
  <2>8. Holding(th, row)
    <3>1. \A i \in 1..Len(s) : row[s[i].run].status # "none"
      <4>1. \A i \in 1..Len(thread[t].stack) : row[thread[t].stack[i].run].status # "none"
        BY ThreadFacts DEF ThreadOK, Holding
      <4>2. \A i \in 2..Len(s) : row[s[i].run].status # "none"
        BY <2>4, <4>1
      <4>3. \A i \in 1..Len(s) : i = 1 \/ i \in 2..Len(s)
        BY <2>3
      <4>4. QED
        BY <1>2, <2>2, <2>3, <4>2, <4>3
    <3>2. QED
      BY <2>6, <3>1 DEF Holding
  <2>9. ASSUME NEW r \in Runs, Executes(thread[t], r)
        PROVE  Executes(th, r)
    <3>1. c = r \/ \E i \in 1..Len(thread[t].stack) : thread[t].stack[i].run = r
      BY <2>9, ThreadFacts, ExecutesRun
    <3>2. 1 \in 1..Len(s) /\ \A i \in 1..Len(thread[t].stack) : i + 1 \in 1..Len(s)
      BY <2>3
    <3>3. \E i \in 1..Len(s) : s[i].run = r
      BY <2>2, <2>3, <3>1, <3>2
    <3>4. QED
      BY <2>6, <3>3, ExecutesRun
  <2>10. Below(delegated', row)
    BY <1>2, <1>4, <2>1 DEF MeshInv, Below, Exists
  <2>11. /\ row' = row /\ row' \in [Runs -> Row] /\ RowsOK(row') /\ Below(delegated', row')
         /\ delegated' \subseteq Runs \X Runs /\ faults' \in 0..MaxFaults
         /\ faults' = 0 => faults = 0
    BY <1>1, <1>2, <2>1, <2>10 DEF MeshInv, TypeOK
  <2>12. \A q \in Runs : Kept(q, row, row')
    BY <2>11 DEF Kept
  <2>13. \A u \in Threads : u # t /\ thread[u].pc = "spawn" => row'[thread[u].child].status = "none"
    BY <2>11 DEF MeshInv, ThreadInv, ThreadOK, Holding
  <2>14. \A q \in Runs : Needs(q, row') =>
           Executes(th, q) \/ (Needs(q, row) /\ ~Executes(thread[t], q))
    BY <2>9, <2>11
  <2>15. QED
    BY <2>1, <2>6, <2>7, <2>8, <2>11, <2>12, <2>13, <2>14, StepSafe DEF ThreadOK
<1>5. QED
  BY <1>3, <1>4

LEMMA ExecuteSafe ==
  ASSUME MeshInv, NEW t \in Threads, Execute(t)
  PROVE  MeshInv'
BY BeginSafe, PlanSafe, EndSafe, ActSafe, DelegateSafe, SpawnSafe, RecordSafe DEF Execute

-----------------------------------------------------------------------------
(* The requests.                                                           *)

WithTodo(th, p, T) == [th EXCEPT !.pc = p, !.todo = T]

LEMMA TodoWritten ==
  ASSUME NEW th \in Thread, NEW p \in Points, NEW T \in SUBSET Runs
  PROVE  LET th2 == WithTodo(th, p, T) IN
         /\ th2 \in Thread
         /\ th2.op = th.op /\ th2.pc = p /\ th2.stack = th.stack /\ th2.child = th.child
BY DEF Thread, Points, ExecutionPoints, WithTodo

LEMMA OnlyTodo ==
  ASSUME NEW th \in Thread, NEW T
  PROVE  [th EXCEPT !.todo = T] = WithTodo(th, th.pc, T)
BY DEF Thread, WithTodo

LEMMA StatusesOfCopies ==
  ASSUME NEW r \in Runs, NEW s \in Status
  PROVE  LET f == Copy(r, s) IN
         /\ f \in Frame /\ f.run = r /\ f.status = s
         /\ <<f>> \in Seq(Frame) /\ Len(<<f>>) = 1 /\ <<f>>[1] = f
BY CopyIsAFrame

\* A handler is answered.
LEMMA AnswerStep ==
  ASSUME MeshInv, NEW t \in Threads, thread[t].op # "execute", Answer(t),
         UNCHANGED <<row, delegated, faults>>
  PROVE  MeshInv'
<1>1. Idle \in Thread /\ ThreadOK(Idle, row) /\ Idle.child = NoRun
  BY IdleOK
<1>2. QED
  BY <1>1, HandlerStep DEF Answer

\* A handler goes back to reading, with its last copy.
LEMMA ReadAgainStep ==
  ASSUME MeshInv, NEW t \in Threads, thread[t].op = "cancel", NEW T \in SUBSET Runs,
         thread' = [thread EXCEPT ![t] = WithTodo(thread[t], "read", T)],
         UNCHANGED <<row, delegated, faults>>
  PROVE  MeshInv'
<1> DEFINE th == WithTodo(thread[t], "read", T)
<1>1. "read" \in Points
  BY DEF Points
<1>2. /\ th \in Thread /\ th.op = "cancel" /\ th.pc = "read" /\ th.stack = thread[t].stack
      /\ th.child = NoRun
  BY <1>1, ThreadFacts, HandlerFacts, TodoWritten
<1>3. thread' = [thread EXCEPT ![t] = th]
  OBVIOUS
<1> HIDE DEF th
<1>4. ThreadOK(th, row)
  BY <1>2, ThreadFacts DEF ThreadOK, Shape, Holding, ExecutionPoints
<1>5. QED
  BY <1>2, <1>3, <1>4, HandlerStep

\* A handler takes a copy of a run.
LEMMA HoldStep ==
  ASSUME MeshInv, NEW t \in Threads, thread[t].op \notin {"none", "execute"},
         NEW r \in Runs, Exists(r),
         NEW p \in {"write", "list"}, p = "write" => row[r].status \notin Terminal,
         Hold(t, r, p), UNCHANGED <<row, delegated, faults>>
  PROVE  MeshInv'
<1> DEFINE f  == Copy(r, row[r].status)
           s  == <<f>>
           th == WithStack(thread[t], p, s)
<1>1. row[r].status \in Status /\ row[r].status # "none"
  BY RowFields DEF MeshInv, TypeOK, Exists, Gone
<1>2. thread' = [thread EXCEPT ![t] = th]
  BY DEF Hold, WithStack
<1>3. /\ f.run = r /\ f.status = row[r].status
      /\ s \in Seq(Frame) /\ Len(s) = 1 /\ s[1] = f
  BY <1>1, StatusesOfCopies
<1> HIDE DEF f
<1> HIDE DEF s
<1>4. p \in Points
  BY DEF Points
<1>5. /\ th \in Thread /\ th.op = thread[t].op /\ th.pc = p /\ th.stack = s
      /\ th.child = NoRun
  BY <1>3, <1>4, ThreadFacts, HandlerFacts, StackWritten
<1> HIDE DEF th
<1>6. Shape(th)
  <2>1. \A i \in 1..Len(s) : s[i] = f
    BY <1>3
  <2>2. Len(s) > 0 /\ \A i \in 2..Len(s) : s[i].left > 0
    BY <1>3
  <2>3. p = "write" => \A i \in 1..Len(s) : s[i].status \notin Terminal
    BY <1>3, <2>1
  <2>4. th.op # "none" /\ th.op # "execute" /\ th.pc \in {"write", "list"}
    BY <1>5
  <2>5. QED
    BY <1>5, <2>2, <2>3, <2>4 DEF Shape, ExecutionPoints
<1>7. Holding(th, row)
  <2>1. \A i \in 1..Len(s) : row[s[i].run].status # "none"
    BY <1>1, <1>3
  <2>2. QED
    BY <1>5, <2>1 DEF Holding
<1>8. QED
  BY <1>2, <1>5, <1>6, <1>7, HandlerStep DEF ThreadOK

LEMMA CancelReadSafe ==
  ASSUME MeshInv, NEW t \in Threads, CancelRead(t)
  PROVE  MeshInv'
<1>1. /\ thread[t].op = "cancel" /\ thread[t].pc = "read"
      /\ UNCHANGED <<row, delegated, faults>>
  BY DEF CancelRead
<1>2. CASE thread[t].todo = {}
  BY <1>1, <1>2, AnswerStep DEF CancelRead
<1>3. CASE thread[t].todo # {}
  <2>1. PICK r \in thread[t].todo :
          IF ~Exists(r) THEN thread' = [thread EXCEPT ![t].todo = @ \ {r}]
          ELSE Hold(t, r, IF row[r].status \in Terminal THEN "list" ELSE "write")
    BY <1>3 DEF CancelRead
  <2>2. r \in Runs /\ thread[t].todo \ {r} \in SUBSET Runs
    BY ThreadFacts, ThreadFields
  <2>3. CASE ~Exists(r)
    <3> DEFINE T == thread[t].todo \ {r}
    <3>1. thread' = [thread EXCEPT ![t] = [thread[t] EXCEPT !.todo = T]]
      BY <2>1, <2>3
    <3> HIDE DEF T
    <3>2. [thread[t] EXCEPT !.todo = T] = WithTodo(thread[t], "read", T)
      BY <1>1, ThreadFacts, OnlyTodo
    <3>3. T \in SUBSET Runs
      BY <2>2 DEF T
    <3>4. QED
      BY <1>1, <3>1, <3>2, <3>3, ReadAgainStep
  <2>4. CASE Exists(r) /\ row[r].status \in Terminal
    BY <1>1, <2>1, <2>2, <2>4, HoldStep
  <2>5. CASE Exists(r) /\ row[r].status \notin Terminal
    BY <1>1, <2>1, <2>2, <2>5, HoldStep
  <2>6. QED
    BY <2>3, <2>4, <2>5
<1>4. QED
  BY <1>2, <1>3

LEMMA CancelWriteSafe ==
  ASSUME MeshInv, NEW t \in Threads, CancelWrite(t)
  PROVE  MeshInv'
<1>1. /\ thread[t].op = "cancel" /\ thread[t].pc = "write"
      /\ UNCHANGED <<delegated, faults>> /\ Len(thread[t].stack) > 0
  BY ThreadFacts DEF CancelWrite, Shape
<1>2. CASE ~Storable(Top(t).run)
  <2> DEFINE T == thread[t].todo \ {Top(t).run}
  <2>1. thread' = [thread EXCEPT ![t] = WithTodo(thread[t], "read", T)] /\ UNCHANGED row
    BY <1>2 DEF CancelWrite, WithTodo
  <2>2. T \in SUBSET Runs
    BY ThreadFacts, ThreadFields
  <2> HIDE DEF T
  <2>3. QED
    BY <1>1, <2>1, <2>2, ReadAgainStep
<1>3. CASE Storable(Top(t).run)
  <2> DEFINE th == WithPoint(thread[t], "list")
  <2>1. SaveRun(Top(t).run, "cancelled") /\ thread' = [thread EXCEPT ![t] = th]
    BY <1>3 DEF CancelWrite, Goto, WithPoint
  <2>2. "list" \in Points /\ "cancelled" \in Status \ {"pending"}
    BY DEF Points, Status, Terminal
  <2>3. /\ th \in Thread /\ th.op = "cancel" /\ th.pc = "list"
        /\ th.stack = thread[t].stack /\ th.child = NoRun
    BY <1>1, <2>2, ThreadFacts, HandlerFacts, PointWritten
  <2> HIDE DEF th
  <2>4. ThreadOK(th, row)
    BY <1>1, <2>3, ThreadFacts DEF ThreadOK, Shape, Holding, ExecutionPoints
  <2>5. \A q \in Runs : ~Executes(thread[t], q)
    BY <1>1, HandlerFacts
  <2>6. QED
    BY <1>1, <2>1, <2>2, <2>3, <2>4, <2>5, TopFacts, SaveStep
<1>4. QED
  BY <1>2, <1>3

LEMMA CancelListSafe ==
  ASSUME MeshInv, NEW t \in Threads, CancelList(t)
  PROVE  MeshInv'
<1> DEFINE T == (thread[t].todo \ {Top(t).run}) \cup Children(Top(t).run)
<1>1. /\ thread[t].op = "cancel" /\ UNCHANGED <<row, delegated, faults>>
      /\ thread' = [thread EXCEPT ![t] = WithTodo(thread[t], "read", T)]
  BY DEF CancelList, WithTodo
<1>2. T \in SUBSET Runs
  BY ThreadFacts, ThreadFields DEF Children
<1> HIDE DEF T
<1>3. QED
  BY <1>1, <1>2, ReadAgainStep

LEMMA NotTerminal ==
  ASSUME NEW s \in Status, NEW target \in {"paused", "running"}, CanBecome(s, target)
  PROVE  s \notin Terminal
BY DEF CanBecome, Targets, Status, Terminal

LEMMA ReadForSafe ==
  ASSUME MeshInv, NEW t \in Threads, PauseRead(t) \/ ResumeRead(t)
  PROVE  MeshInv'
<1>1. PICK op \in {"pause", "resume"}, target \in {"paused", "running"} :
        ReadFor(t, op, target)
  BY DEF PauseRead, ResumeRead
<1>2. /\ thread[t].op \notin {"none", "execute"} /\ UNCHANGED <<row, delegated, faults>>
  BY <1>1 DEF ReadFor
<1>3. CASE Answer(t)
  BY <1>2, <1>3, AnswerStep
<1>4. CASE ~Answer(t)
  <2>1. PICK r \in thread[t].todo :
          Exists(r) /\ CanBecome(row[r].status, target) /\ Hold(t, r, "write")
    BY <1>1, <1>4 DEF ReadFor
  <2>2. r \in Runs
    BY ThreadFacts, ThreadFields
  <2>3. row[r].status \in Status
    BY <2>1, <2>2, RowFields DEF MeshInv, TypeOK, Exists
  <2>4. row[r].status \notin Terminal
    BY <2>1, <2>3, NotTerminal
  <2>5. QED
    BY <1>2, <2>1, <2>2, <2>4, HoldStep
<1>5. QED
  BY <1>3, <1>4

LEMMA PauseWriteSafe ==
  ASSUME MeshInv, NEW t \in Threads, PauseWrite(t)
  PROVE  MeshInv'
<1>1. /\ thread[t].op = "pause" /\ thread[t].pc = "write" /\ Answer(t)
      /\ UNCHANGED <<delegated, faults>> /\ Len(thread[t].stack) > 0
  BY ThreadFacts DEF PauseWrite, Shape
<1>2. CASE UNCHANGED row
  BY <1>1, <1>2, AnswerStep
<1>3. CASE SaveRun(Top(t).run, "paused")
  <2>1. Idle \in Thread /\ ThreadOK(Idle, row) /\ Idle.child = NoRun
    BY IdleOK
  <2>2. thread' = [thread EXCEPT ![t] = Idle]
    BY <1>1 DEF Answer
  <2>3. "paused" \in Status \ {"pending"}
    BY DEF Status
  <2>4. \A q \in Runs : ~Executes(thread[t], q)
    BY <1>1, HandlerFacts
  <2>5. QED
    BY <1>1, <1>3, <2>1, <2>2, <2>3, <2>4, TopFacts, SaveStep
<1>4. QED
  BY <1>2, <1>3 DEF PauseWrite

\* What a resumed run starts with.
Resumed(th, s) == [th EXCEPT !.op = "execute", !.pc = "plan", !.todo = {}, !.stack = s]

LEMMA ResumedThread ==
  ASSUME NEW th \in Thread, NEW s \in Seq(Frame)
  PROVE  LET th2 == Resumed(th, s) IN
         /\ th2 \in Thread
         /\ th2.op = "execute" /\ th2.pc = "plan" /\ th2.stack = s /\ th2.child = th.child
BY DEF Thread, Resumed

LEMMA ResumeWriteSafe ==
  ASSUME MeshInv, NEW t \in Threads, ResumeWrite(t)
  PROVE  MeshInv'
<1>1. /\ thread[t].op = "resume" /\ thread[t].pc = "write"
      /\ UNCHANGED <<delegated, faults>> /\ Len(thread[t].stack) > 0
  BY ThreadFacts DEF ResumeWrite, Shape
<1>2. CASE ~Storable(Top(t).run)
  BY <1>1, <1>2, AnswerStep DEF ResumeWrite
<1>3. CASE Storable(Top(t).run)
  <2> DEFINE f  == [Top(t) EXCEPT !.status = "running"]
             s  == [thread[t].stack EXCEPT ![1] = f]
             th == Resumed(thread[t], s)
  <2>1. /\ SaveRun(Top(t).run, "running")
        /\ thread' = [thread EXCEPT ![t].op = "execute", ![t].pc = "plan", ![t].todo = {},
                                    ![t].stack[1].status = "running"]
    BY <1>3 DEF ResumeWrite
  <2>2. thread' = [thread EXCEPT ![t] = th]
    BY <2>1 DEF Resumed, Top
  <2>3. f \in Frame /\ f.run = Top(t).run /\ f.status = "running"
    BY <1>1, TopFacts DEF Frame, Status
  <2> HIDE DEF f
  <2>4. /\ s \in Seq(Frame) /\ Len(s) = Len(thread[t].stack) /\ s[1] = f
        /\ \A i \in 2..Len(thread[t].stack) : s[i] = thread[t].stack[i]
        /\ Len(s) \in Nat
    BY <1>1, <2>3, ThreadFacts, TopWritten
  <2> HIDE DEF s
  <2>5. th \in Thread /\ th.op = "execute" /\ th.pc = "plan" /\ th.stack = s /\ th.child = NoRun
    BY <1>1, <2>4, ThreadFacts, HandlerFacts, ResumedThread
  <2> HIDE DEF th
  <2>6. \A i \in 1..Len(s) : i = 1 \/ i \in 2..Len(s)
    BY <2>4
  <2>7. \A i \in 1..Len(s) : s[i].status \notin Terminal
    <3>1. \A i \in 1..Len(s) : thread[t].stack[i].status \notin Terminal
      BY <1>1, <2>4, ThreadFacts DEF Shape
    <3>2. f.status \notin Terminal
      BY <2>3 DEF Terminal
    <3>3. QED
      BY <2>4, <2>6, <3>1, <3>2
  <2>8. \A i \in 2..Len(s) : s[i].left > 0
    BY <2>4, ThreadFacts DEF Shape
  <2>9. Shape(th)
    BY <1>1, <2>4, <2>5, <2>7, <2>8 DEF Shape, ExecutionPoints
  <2>10. Holding(th, row)
    <3>1. \A i \in 1..Len(s) : row[thread[t].stack[i].run].status # "none"
      BY <2>4, ThreadFacts DEF ThreadOK, Holding
    <3>2. \A i \in 1..Len(s) : row[s[i].run].status # "none"
      BY <1>1, <2>3, <2>4, <2>6, <3>1, TopFacts
    <3>3. QED
      BY <2>5, <3>2 DEF Holding
  <2>11. Executes(th, Top(t).run)
    <3>1. 1 \in 1..Len(s)
      BY <1>1, <2>4
    <3>2. QED
      BY <1>1, <2>3, <2>4, <2>5, <3>1, TopFacts, ExecutesRun
  <2>12. \A q \in Runs : ~Executes(thread[t], q)
    BY <1>1, HandlerFacts
  <2>13. "running" \in Status \ {"pending"}
    BY DEF Status
  <2>14. QED
    BY <1>1, <2>1, <2>2, <2>5, <2>9, <2>10, <2>11, <2>12, <2>13, TopFacts, SaveStep DEF ThreadOK
<1>4. QED
  BY <1>2, <1>3

\* What a request and an execution start with.
Requested(th, op, r) == [th EXCEPT !.op = op, !.pc = "read", !.todo = {r}]
Started(th, s)       == [th EXCEPT !.op = "execute", !.pc = "begin", !.stack = s]

LEMMA RequestedThread ==
  ASSUME NEW th \in Thread, NEW op \in {"cancel", "pause", "resume"}, NEW r \in Runs
  PROVE  LET th2 == Requested(th, op, r) IN
         /\ th2 \in Thread
         /\ th2.op = op /\ th2.pc = "read" /\ th2.stack = th.stack /\ th2.child = th.child
BY DEF Thread, Requested

LEMMA StartedThread ==
  ASSUME NEW th \in Thread, NEW s \in Seq(Frame)
  PROVE  LET th2 == Started(th, s) IN
         /\ th2 \in Thread
         /\ th2.op = "execute" /\ th2.pc = "begin" /\ th2.stack = s /\ th2.child = th.child
BY DEF Thread, Started

LEMMA RequestSafe ==
  ASSUME MeshInv, NEW t \in Threads, Request(t)
  PROVE  MeshInv'
<1>1. PICK r \in Runs, op \in {"cancel", "pause", "resume"} :
        thread' = [thread EXCEPT ![t].op = op, ![t].pc = "read", ![t].todo = {r}]
  BY DEF Request
<1> DEFINE th == Requested(thread[t], op, r)
<1>2. thread[t] = Idle /\ UNCHANGED <<row, delegated, faults>>
  BY DEF Request
<1>3. thread' = [thread EXCEPT ![t] = th]
  BY <1>1 DEF Requested
<1>4. thread[t].stack = <<>> /\ thread[t].child = NoRun
  BY <1>2 DEF Idle
<1>5. th \in Thread
  BY ThreadFacts, RequestedThread
<1>6. /\ th.op = op /\ th.pc = "read" /\ th.stack = <<>> /\ Len(th.stack) = 0
      /\ th.child = NoRun
  BY <1>4, ThreadFacts, RequestedThread
<1> HIDE DEF th
<1>7. ThreadOK(th, row)
  BY <1>6 DEF ThreadOK, Shape, Holding, ExecutionPoints
<1>8. thread[t].op # "execute"
  BY <1>2 DEF Idle
<1>9. QED
  BY <1>2, <1>3, <1>5, <1>6, <1>7, <1>8, HandlerStep

LEMMA CreateSafe ==
  ASSUME MeshInv, NEW t \in Threads, Create(t)
  PROVE  MeshInv'
<1>1. PICK r \in Fresh, auto \in BOOLEAN :
        /\ SaveRun(r, "pending")
        /\ thread' = IF auto
                     THEN [thread EXCEPT ![t].op = "execute", ![t].pc = "begin",
                                         ![t].stack = <<Copy(r, "pending")>>]
                     ELSE thread
  BY DEF Create
<1>2. thread[t] = Idle /\ UNCHANGED <<delegated, faults>>
  BY DEF Create
<1>3. r \in Runs /\ row[r].status = "none" /\ \A u \in Threads : thread[u].child # r
  BY DEF Fresh
<1>4. "pending" \in Status /\ "pending" \notin Terminal
  BY DEF Status, Terminal
<1>5. /\ row \in [Runs -> Row] /\ RowsOK(row) /\ Below(delegated, row)
      /\ delegated \subseteq Runs \X Runs /\ faults \in 0..MaxFaults
  BY DEF MeshInv, TypeOK
<1>6. /\ row' \in [Runs -> Row] /\ RowsOK(row') /\ Below(delegated, row')
      /\ \A q \in Runs : Kept(q, row, row')
      /\ row'[r].status = "pending" /\ row'[r].parent = row[r].parent
      /\ \A q \in Runs : q # r => row'[q] = row[q]
  BY <1>1, <1>3, <1>4, <1>5, SaveRunKeeps
<1>7. row'[r].parent = NoRun
  BY <1>3, <1>5, <1>6 DEF RowsOK
<1>8. ASSUME NEW q \in Runs, Needs(q, row')
      PROVE  Needs(q, row) /\ ~Executes(thread[t], q)
  <2>1. q # r
    BY <1>6, <1>7, <1>8 DEF Needs
  <2>2. thread[t].op # "execute"
    BY <1>2 DEF Idle
  <2>3. QED
    BY <1>6, <1>8, <2>1, <2>2 DEF Needs, Executes
<1>9. ASSUME NEW u \in Threads, thread[u].pc = "spawn"
      PROVE  row'[thread[u].child].status = "none"
  <2>1. thread[u].child \in Runs /\ row[thread[u].child].status = "none"
    BY <1>9, ThreadFacts, ThreadFields DEF ThreadOK, Holding, Shape
  <2>2. QED
    BY <1>3, <1>6, <2>1
<1>10. /\ Below(delegated', row') /\ delegated' \subseteq Runs \X Runs /\ faults' \in 0..MaxFaults
       /\ faults' = 0 => faults = 0
  BY <1>2, <1>5, <1>6
<1>11. ASSUME NEW th \in Thread, thread' = [thread EXCEPT ![t] = th], ThreadOK(th, row'),
              th.child = NoRun
       PROVE  MeshInv'
  BY <1>6, <1>8, <1>9, <1>10, <1>11, StepSafe
<1>12. CASE auto
  <2> DEFINE f  == Copy(r, "pending")
             s  == <<f>>
             th == Started(thread[t], s)
  <2>1. thread' = [thread EXCEPT ![t] = th]
    BY <1>1, <1>12 DEF Started
  <2>2. /\ f.run = r /\ f.status = "pending"
        /\ s \in Seq(Frame) /\ Len(s) = 1 /\ s[1] = f
    BY <1>3, <1>4, StatusesOfCopies
  <2> HIDE DEF f
  <2> HIDE DEF s
  <2>3. thread[t].child = NoRun
    BY <1>2 DEF Idle
  <2>4. th \in Thread
    BY <2>2, ThreadFacts, StartedThread
  <2>5. th.op = "execute" /\ th.pc = "begin" /\ th.stack = s /\ th.child = NoRun
    BY <2>2, <2>3, ThreadFacts, StartedThread
  <2> HIDE DEF th
  <2>6. (\A i \in 1..Len(s) : s[i] = f) /\ (\A i \in 2..Len(s) : FALSE)
    BY <2>2
  <2>7. Shape(th)
    <3>1. Len(s) > 0 /\ \A i \in 2..Len(s) : s[i].left > 0
      BY <2>2, <2>6
    <3>2. \A i \in 1..Len(s) : s[i].status \notin Terminal
      BY <1>4, <2>2, <2>6
    <3>3. QED
      BY <2>5, <3>1, <3>2 DEF Shape, ExecutionPoints
  <2>8. Holding(th, row')
    BY <1>6, <2>2, <2>5, <2>6 DEF Holding
  <2>9. QED
    BY <1>11, <2>1, <2>4, <2>5, <2>7, <2>8 DEF ThreadOK
<1>13. CASE ~auto
  <2>1. thread' = [thread EXCEPT ![t] = Idle]
    BY <1>1, <1>2, <1>13, ThreadFacts
  <2>2. Idle \in Thread /\ ThreadOK(Idle, row') /\ Idle.child = NoRun
    BY IdleOK
  <2>3. QED
    BY <1>11, <2>1, <2>2
<1>14. QED
  BY <1>12, <1>13

LEMMA PurgeSafe ==
  ASSUME MeshInv, Purge
  PROVE  MeshInv'
<1>1. /\ row' \in [Runs -> Row] /\ RowsOK(row') /\ Below(delegated', row')
      /\ \A q \in Runs : Kept(q, row, row')
      /\ \A q \in Runs : row'[q].status \in Gone
      /\ \A q \in Runs : row[q].status = "none" => row'[q].status = "none"
  BY PurgeKeeps DEF MeshInv, TypeOK
<1>2. UNCHANGED <<thread, faults>> /\ delegated' = {}
  BY DEF Purge
<1>3. ASSUME NEW t \in Threads
      PROVE  ThreadOK(thread'[t], row')
  <2>1. thread[t].pc = "spawn" => row'[thread[t].child].status = "none"
    <3>1. thread[t].pc = "spawn" =>
            thread[t].child \in Runs /\ row[thread[t].child].status = "none"
      BY ThreadFacts, ThreadFields DEF ThreadOK, Holding, Shape
    <3>2. QED
      BY <1>1, <3>1
  <2>2. ThreadOK(thread[t], row')
    BY <1>1, <2>1, ThreadFacts, ThreadKept
  <2>3. QED
    BY <1>2, <2>2
<1>4. RunningIsExecuted'
  BY <1>1 DEF RunningIsExecuted, Gone
<1>5. ChildInv'
  BY <1>2 DEF MeshInv, ChildInv
<1>6. TypeOK'
  BY <1>1, <1>2 DEF MeshInv, TypeOK
<1>7. QED
  BY <1>1, <1>3, <1>4, <1>5, <1>6 DEF MeshInv, ThreadInv

-----------------------------------------------------------------------------
(* Faults.                                                                 *)

LEMMA FaultCounted ==
  ASSUME MeshInv, Fault
  PROVE  faults' \in 0..MaxFaults /\ faults' # 0
BY MeshAssumption DEF MeshInv, TypeOK, Fault

LEMMA FaultStep ==
  ASSUME MeshInv, Fault, NEW t \in Threads, NEW th \in Thread,
         thread' = [thread EXCEPT ![t] = th], ThreadOK(th, row), th.child = NoRun,
         UNCHANGED <<row, delegated>>
  PROVE  MeshInv'
BY FaultCounted, QuietStep

LEMMA UnwoundWithoutChild ==
  ASSUME NEW th \in Thread
  PROVE  Unwound([th EXCEPT !.child = NoRun]) = Unwound(WithChild(th, "raised", NoRun))
BY DEF Unwound, WithChild, Thread

LEMMA DatabaseErrorSafe ==
  ASSUME MeshInv, NEW t \in Threads, DatabaseError(t)
  PROVE  MeshInv'
<1>1. Fault /\ UNCHANGED <<row, delegated>>
  BY DEF DatabaseError
<1> DEFINE th == WithChild(thread[t], "raised", NoRun)
<1>2. ASSUME thread[t].op = "execute"
      PROVE  th \in Thread /\ th.op = "execute" /\ th.child = NoRun /\ ThreadOK(th, row)
  <2>1. "raised" \in Points
    BY DEF Points, ExecutionPoints
  <2>2. /\ th \in Thread /\ th.op = "execute" /\ th.pc = "raised"
        /\ th.stack = thread[t].stack /\ th.child = NoRun
    BY <1>2, <2>1, ThreadFacts, ChildWritten
  <2> HIDE DEF th
  <2>3. QED
    BY <1>2, <2>2, ThreadFacts, PointMoves DEF Plain
<1>3. CASE thread[t].op = "execute" /\
           thread' = [thread EXCEPT ![t] = Unwound([@ EXCEPT !.child = NoRun])]
  <2>1. thread' = [thread EXCEPT ![t] = Unwound(th)]
    BY <1>3, ThreadFacts, UnwoundWithoutChild
  <2>2. Unwound(th) \in Thread /\ ThreadOK(Unwound(th), row) /\ Unwound(th).child = NoRun
    <3> HIDE DEF th
    <3>1. QED
      BY <1>2, <1>3, UnwoundOK
  <2>3. QED
    BY <1>1, <2>1, <2>2, FaultStep
<1>4. CASE Answer(t)
  <2>1. Idle \in Thread /\ ThreadOK(Idle, row) /\ Idle.child = NoRun
    BY IdleOK
  <2>2. QED
    BY <1>1, <1>4, <2>1, FaultStep DEF Answer
<1>5. CASE (\E pc \in {"plan", "step", "spawn", "record"} : At(t, pc)) /\
           thread' = [thread EXCEPT ![t].pc = "raised", ![t].child = NoRun]
  <2>1. thread' = [thread EXCEPT ![t] = th]
    BY <1>5 DEF WithChild
  <2>2. thread[t].op = "execute"
    BY <1>5 DEF At
  <2> HIDE DEF th
  <2>3. QED
    BY <1>1, <1>2, <2>1, <2>2, FaultStep
<1>6. QED
  BY <1>3, <1>4, <1>5 DEF DatabaseError

LEMMA CrashSafe ==
  ASSUME MeshInv, Crash
  PROVE  MeshInv'
<1>1. /\ Fault /\ UNCHANGED <<row, delegated>>
      /\ thread' = [t \in Threads |-> Idle]
  BY DEF Crash
<1>2. Idle \in Thread /\ ThreadOK(Idle, row) /\ Idle.child = NoRun
  BY IdleOK
<1>3. ThreadInv' /\ ChildInv'
  BY <1>1, <1>2 DEF ThreadInv, ChildInv
<1>4. TypeOK' /\ RunningIsExecuted'
  BY <1>1, <1>2, FaultCounted DEF MeshInv, TypeOK, RunningIsExecuted
<1>5. RowsOK(row') /\ Below(delegated', row')
  BY <1>1 DEF MeshInv
<1>6. QED
  BY <1>3, <1>4, <1>5 DEF MeshInv

LEMMA StutterSafe ==
  ASSUME MeshInv, UNCHANGED vars
  PROVE  MeshInv'
<1>1. row' = row /\ delegated' = delegated /\ thread' = thread /\ faults' = faults
  BY DEF vars
<1>2. TypeOK' /\ ThreadInv' /\ ChildInv' /\ RowsOK(row') /\ Below(delegated', row')
  BY <1>1 DEF MeshInv, TypeOK, ThreadInv, ChildInv
<1>3. RunningIsExecuted'
  BY <1>1 DEF MeshInv, RunningIsExecuted, Executing
<1>4. QED
  BY <1>2, <1>3 DEF MeshInv

-----------------------------------------------------------------------------
(* The theorems.                                                           *)

LEMMA InitSafe == Init => MeshInv
<1> SUFFICES ASSUME Init
             PROVE  MeshInv
  OBVIOUS
<1>1. row \in [Runs -> Row] /\ faults \in 0..MaxFaults
  BY MeshAssumption DEF Init, Row, Gone
<1>2. thread \in [Threads -> Thread] /\ ThreadInv /\ ChildInv
  BY IdleOK DEF Init, ThreadInv, ChildInv
<1>3. TypeOK
  BY <1>1, <1>2 DEF TypeOK, Init
<1>4. RowsOK(row) /\ Below(delegated, row)
  BY DEF Init, RowsOK, Below, Gone
<1>5. RunningIsExecuted
  BY DEF Init, RunningIsExecuted
<1>6. QED
  BY <1>2, <1>3, <1>4, <1>5 DEF MeshInv

LEMMA NextSafe == MeshInv /\ [Next]_vars => MeshInv'
<1> SUFFICES ASSUME MeshInv, [Next]_vars
             PROVE  MeshInv'
  OBVIOUS
<1>1. CASE Purge \/ Crash
  BY <1>1, PurgeSafe, CrashSafe
<1>2. ASSUME NEW t \in Threads, Create(t) \/ Request(t) \/ Serve(t) \/ DatabaseError(t)
      PROVE  MeshInv'
  BY <1>2, CreateSafe, RequestSafe, ExecuteSafe, CancelReadSafe, CancelWriteSafe, CancelListSafe,
     ReadForSafe, PauseWriteSafe, ResumeWriteSafe, DatabaseErrorSafe DEF Serve
<1>3. CASE UNCHANGED vars
  BY <1>3, StutterSafe
<1>4. QED
  BY <1>1, <1>2, <1>3 DEF Next

THEOREM MeshInvariant == Spec => []MeshInv
BY InitSafe, NextSafe, PTL DEF Spec

\* The rows and the threads are of their types: no run lies below the depth limit,
\* no copy counts more iterations than its budget.
THEOREM MeshTypes == Spec => []TypeOK
<1>1. MeshInv => TypeOK
  BY DEF MeshInv
<1>2. QED
  BY MeshInvariant, <1>1, PTL

\* Without faults a running run, and a pending child, is executed by some thread of
\* the server, whatever cancels, pauses, resumes and purges race for it.
THEOREM RunsAreExecuted == Spec => []RunningIsExecuted
<1>1. MeshInv => RunningIsExecuted
  BY DEF MeshInv
<1>2. QED
  BY MeshInvariant, <1>1, PTL

\* delegate_task and create_run: a delegation leads one level down between runs
\* that exist, and not below max_depth.
THEOREM DelegationsAreALevelDown == Spec => []DelegationIsALevelDown
<1>1. MeshInv => DelegationIsALevelDown
  <2>1. SUFFICES ASSUME MeshInv, NEW p \in Runs, NEW c \in Runs, <<p, c>> \in delegated
                 PROVE  /\ Exists(p) /\ Exists(c)
                        /\ row[c].parent = p /\ row[c].depth = row[p].depth + 1
                        /\ row[c].depth <= MaxDepth
    BY DEF DelegationIsALevelDown
  <2>2. row[c].depth \in 0..MaxDepth
    BY <2>1, RowFields DEF MeshInv, TypeOK
  <2>3. row[c].depth <= MaxDepth
    BY <2>2, MeshAssumption
  <2>4. QED
    BY <2>1, <2>3 DEF MeshInv, Below, Exists
<1>2. QED
  BY MeshInvariant, <1>1, PTL

-----------------------------------------------------------------------------
(* What a step does to a row.                                              *)

LEMMA SavedIsHeld ==
  ASSUME MeshInv, NEW t \in Threads, Len(thread[t].stack) > 0,
         thread[t].pc \notin {"read", "list"}
  PROVE  HeldCopy(Top(t).run)
<1>1. 1 \in 1..Len(thread[t].stack)
  BY ThreadFacts
<1>2. 1 \in DOMAIN thread[t].stack /\ thread[t].stack[1].status \notin Terminal
  BY <1>1, ThreadFacts DEF Shape
<1>3. QED
  BY <1>2 DEF HeldCopy, Top

\* The runs whose row a step may write: those created by it, and those of which
\* a thread holds a copy.
Writable(q) == row[q].status = "none" \/ HeldCopy(q)

LEMMA OnlyWritable ==
  ASSUME MeshInv, NEW q \in Runs, NEW s, SaveRun(q, s), Writable(q)
  PROVE  \A r \in Runs : ~Writable(r) => row'[r] = row[r]
BY DEF SaveRun, MeshInv, TypeOK

LEMMA ExecutionWrites ==
  ASSUME MeshInv, NEW t \in Threads, Execute(t)
  PROVE  \A r \in Runs : ~Writable(r) => row'[r] = row[r]
<1>1. thread[t].op = "execute"
  BY DEF Execute, Begin, Plan, TimeOut, Act, Delegate, Spawn, Record, Finish, Fail, Iterated, At
<1>2. Writable(Top(t).run) /\ Top(t).run \in Runs
  <2>1. thread[t].pc \notin {"read", "list"}
    BY <1>1, ThreadFacts DEF Shape, ExecutionPoints
  <2>2. QED
    BY <1>1, <2>1, ExecutionFacts, SavedIsHeld DEF Writable
<1>3. CASE UNCHANGED row
  BY <1>3
<1>4. CASE \E s \in Status : SaveRun(Top(t).run, s)
  BY <1>2, <1>4, OnlyWritable
<1>5. CASE Spawn(t)
  <2>1. thread[t].child \in Runs /\ row[thread[t].child].status = "none"
    BY <1>5, ThreadFacts, ThreadFields DEF Spawn, At, Shape, ThreadOK, Holding
  <2>2. row' = row \/ row' = [row EXCEPT ![thread[t].child] =
                                [status |-> "pending", parent |-> Top(t).run,
                                 depth |-> row[Top(t).run].depth + 1]]
    BY <1>5 DEF Spawn
  <2>3. QED
    BY <2>1, <2>2 DEF Writable, MeshInv, TypeOK
<1>6. CASE ~Spawn(t)
  <2>1. UNCHANGED row \/ \E s \in {"running", "completed", "failed", "timed_out"} : SaveRun(Top(t).run, s)
    BY <1>6 DEF Execute, Begin, Plan, TimeOut, Act, Delegate, Record, Finish, Fail, Conclude
  <2>2. {"running", "completed", "failed", "timed_out"} \subseteq Status
    BY DEF Status, Terminal
  <2>3. QED
    BY <1>3, <1>4, <2>1, <2>2
<1>7. QED
  BY <1>5, <1>6

LEMMA HandlerWrites ==
  ASSUME MeshInv, NEW t \in Threads, CancelWrite(t) \/ PauseWrite(t) \/ ResumeWrite(t)
  PROVE  \A r \in Runs : ~Writable(r) => row'[r] = row[r]
<1>1. thread[t].pc = "write"
  BY DEF CancelWrite, PauseWrite, ResumeWrite
<1>2. Writable(Top(t).run) /\ Top(t).run \in Runs
  BY <1>1, ThreadFacts, TopFacts, SavedIsHeld DEF Shape, Writable
<1>3. UNCHANGED row \/ \E s \in {"running", "paused", "cancelled"} : SaveRun(Top(t).run, s)
  BY DEF CancelWrite, PauseWrite, ResumeWrite
<1>4. QED
  BY <1>2, <1>3, OnlyWritable

\* As soon as nobody holds a copy, no late save_run starts, pauses or finishes an
\* ended run again.
THEOREM EndedRunsStay == Spec => EndedStaysWhenAlone
<1>1. ASSUME MeshInv, [Next]_vars, NEW r \in Runs,
             row[r].status \in Terminal \cup {"purged"}, ~HeldCopy(r)
      PROVE  row'[r].status \in {row[r].status, "purged"}
  <2>1. ~Writable(r)
    BY <1>1 DEF Writable, Terminal
  <2>2. CASE Purge
    BY <1>1, <2>2 DEF Purge, MeshInv, TypeOK, Row
  <2>3. CASE UNCHANGED row
    BY <2>3
  <2>4. ASSUME NEW t \in Threads, Create(t)
        PROVE  row'[r] = row[r]
    <3>1. PICK q \in Fresh : SaveRun(q, "pending")
      BY <2>4 DEF Create
    <3>2. q \in Runs /\ Writable(q)
      BY DEF Fresh, Writable
    <3>3. QED
      BY <1>1, <2>1, <3>1, <3>2, OnlyWritable
  <2>5. ASSUME NEW t \in Threads, Execute(t) \/ CancelWrite(t) \/ PauseWrite(t) \/ ResumeWrite(t)
        PROVE  row'[r] = row[r]
    BY <1>1, <2>1, <2>5, ExecutionWrites, HandlerWrites
  <2>6. ASSUME NEW t \in Threads,
               \/ Request(t) \/ DatabaseError(t)
               \/ CancelRead(t) \/ CancelList(t) \/ PauseRead(t) \/ ResumeRead(t)
        PROVE  row'[r] = row[r]
    BY <2>6 DEF Request, DatabaseError, CancelRead, CancelList, PauseRead, ResumeRead, ReadFor
  <2>7. QED
    BY <1>1, <2>2, <2>3, <2>4, <2>5, <2>6 DEF Next, Serve, Crash, vars
<1>2. MeshInv /\ [Next]_vars =>
        [\A r \in Runs :
           row[r].status \in Terminal \cup {"purged"} /\ ~HeldCopy(r) =>
             row'[r].status \in {row[r].status, "purged"}]_vars
  BY <1>1
<1>3. QED
  BY MeshInvariant, <1>2, PTL DEF Spec, EndedStaysWhenAlone
=============================================================================
