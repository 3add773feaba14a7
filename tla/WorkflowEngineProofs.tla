------------------------ MODULE WorkflowEngineProofs ------------------------
(* What holds of workflows for every program, any number of attempts and   *)
(* of failures: the invariant, and the theorems that rest on it.           *)
EXTENDS WorkflowEngine, FiniteSetTheorems, SequenceTheorems, WellFoundedInduction, TLAPS

-----------------------------------------------------------------------------
(* Checkpoints.                                                            *)

Recorded(cp, id) == cp.steps[id].status # "none"
Done(cp, id) == cp.steps[id].status = "completed"

(* The child that a record names belongs to the step and was created; that *)
(* of a completed step has completed.                                      *)
ChildIsReal(cp, k, s) ==
  LET c == cp.steps[s].child IN
  /\ c \in Children /\ c[1] = s /\ k[c].status # "none"
  /\ Done(cp, s) => k[c].status = "completed"

(* Only completed steps are compensated; a step is recorded after the      *)
(* items before its own are done, a parallel step is done after its tasks; *)
(* only agent steps have children.                                         *)
SoundCheckpoint(cp, k) ==
  /\ \A id \in StepIds : cp.steps[id].comp # "none" => Done(cp, id)
  /\ \A i, j \in Items : \A id \in StepsOf(j), x \in StepsOf(i) :
       i < j /\ Recorded(cp, id) => Done(cp, x)
  /\ \A i \in Items : \A s \in Tasks(i) : Done(cp, Program[i].id) => Done(cp, s)
  /\ \A s \in Agents : Recorded(cp, s) => ChildIsReal(cp, k, s)
  /\ \A id \in StepIds \ Agents : cp.steps[id].child = NoChild

(* What a knows of a step, b knows too, and of the same child. *)
CoversAt(a, b, id) ==
  Recorded(a, id) =>
    /\ Recorded(b, id) /\ b.steps[id].child = a.steps[id].child
    /\ Done(a, id) => Done(b, id)

Names(cp, c) == Recorded(cp, c[1]) /\ cp.steps[c[1]].child = c

-----------------------------------------------------------------------------
(* The invariant.                                                          *)

StoreIsSound(s, k) ==
  /\ SoundCheckpoint(s.cp, k)
  /\ s.status = "none" => s.cp = EmptyCheckpoint
  /\ \A w \in WaitIds : s.status = "paused" /\ WaitFor(w) \in s.pause =>
       Recorded(s.cp, w) /\ ~Done(s.cp, w)
  /\ \A c \in s.pause \cap Children : Names(s.cp, c)
  /\ s.status = "completed" => \A id \in StepIds : Done(s.cp, id)

(* Children are numbered in the order of their creation, only a child that *)
(* the store has on record can complete, and only a running one is at work. *)
ChildrenAreSound(s, k) ==
  /\ \A a \in Agents : \A m, n \in 1 .. MaxChildren :
       m < n /\ k[<<a, n>>].status # "none" => k[<<a, m>>].status # "none"
  /\ \A c \in Children : /\ k[c].status = "completed" => Names(s.cp, c)
                         /\ k[c].worker # NoOwner => k[c].status = "running"

Reading == {"read", "cancelRead", "leased", "cancelLeased", "child", "answered", "expired"}

(* The attempt at the stored revision has what the store has, and more     *)
(* only after a commit that threw.                                         *)
IsInStep(e, s) ==
  e.fresh /\ e.phase \notin {"idle", "dead", "over"} =>
    /\ s.status \in Active
    /\ \A id \in StepIds : CoversAt(s.cp, e.cp, id)
    /\ ~e.poisoned => e.cp = s.cp
    /\ e.phase \in Reading => e.status = s.status /\ e.pause = s.pause
    /\ e.phase \in Advancing \cup {"stuck"} => s.status = "running"

(* What an attempt has in memory the store knows, but for the update of a  *)
(* rejected commit.                                                        *)
KnowsTheStore(e, s) ==
  /\ \A id \in StepIds :
       \/ e.poisoned /\ (e.phase = "working" /\ id \in Agents => e.tasks[id].st = "failed")
       \/ CoversAt(e.cp, s.cp, id)
  /\ \A c \in e.pause \cap Children : Names(s.cp, c)
  /\ e.phase = "child" => e.cursor \in Children /\ Names(s.cp, e.cursor)
  /\ e.phase \in {"child", "answered", "expired"} => e.status = "paused"
  /\ e.phase \in Reading \cup {"idle", "dead"} =>
       ~e.poisoned /\ e.pc = 1 /\ ~e.open /\ e.tasks = [a \in Agents |-> NoTask]

(* Tasks of a parallel step start after its own record is made. *)
MayWork(e) == Program[e.pc].kind = "agent" \/ e.open

TaskIsSound(e, k, s) ==
  LET t == e.tasks[s]
      record == e.cp.steps[s] IN
  /\ t.st # "new" => e.pc <= Len(Program) /\ s \in Tasks(e.pc) /\ MayWork(e)
  /\ t.st = "done" => Done(e.cp, s)
  /\ t.st = "created" => /\ ~Recorded(e.cp, s)
                         /\ t.child \in Children /\ t.child[1] = s /\ k[t.child].status # "none"
  /\ t.st \in {"running", "recovered", "settled", "paused", "reporting"} =>
       record.status = "running" /\ record.child = t.child
  /\ t.st = "settled" => k[t.child].status = "completed"

(* The replay: what is before the current item is done. *)
ReplayIsSound(e, k) ==
  e.phase = "working" =>
    /\ e.status = "running"
    /\ \A i \in Items : \A x \in StepsOf(i) : i < e.pc => Done(e.cp, x)
    /\ \A s \in Agents : TaskIsSound(e, k, s)
    /\ e.poisoned => \E s \in Agents : e.tasks[s].st = "failed"
    /\ e.open => /\ e.pc <= Len(Program) /\ Program[e.pc].kind = "parallel"
                 /\ e.cp.steps[Program[e.pc].id].status = "running"

UndoingIsSound(e) ==
  /\ e.phase \in {"compensating", "undoing", "undone"} => ~e.poisoned
  /\ e.phase \in {"undoing", "undone", "undoFailed"} /\ ~e.poisoned =>
       e.undoing \in StepIds /\ e.cp.steps[e.undoing].comp = "pending"

AttemptIsSound(e, s, k) ==
  /\ SoundCheckpoint(e.cp, k) /\ IsInStep(e, s) /\ KnowsTheStore(e, s)
  /\ ReplayIsSound(e, k) /\ UndoingIsSound(e)

EngineInv ==
  /\ TypeOK
  /\ StoreIsSound(stored, child) /\ ChildrenAreSound(stored, child)
  /\ \A o \in Owners : AttemptIsSound(exec[o], stored, child)

-----------------------------------------------------------------------------
(* The program and its checkpoints.                                        *)

LEMMA ProgramIsTyped ==
  /\ Len(Program) \in Nat /\ Items = 1 .. Len(Program) /\ Agents \subseteq StepIds
  /\ \A i \in Items : /\ Program[i].id \in StepIds /\ Tasks(i) \subseteq Agents
                      /\ StepsOf(i) \subseteq StepIds /\ Program[i].kind \in Kinds
  /\ \A id \in StepIds : \E i \in Items : id \in StepsOf(i)
<1>1. Len(Program) \in Nat /\ Items = 1 .. Len(Program) /\ Agents \subseteq StepIds
  BY ConstantsAssumption DEF Items, StepIds
<1>2. ASSUME NEW i \in Items
      PROVE  /\ Program[i].id \in StepIds /\ Tasks(i) \subseteq Agents
             /\ StepsOf(i) \subseteq StepIds /\ Program[i].kind \in Kinds
  <2>1. Program[i] \in [kind : Kinds, id : StepIds, tasks : Seq(Agents)]
    <3> DEFINE R == [kind : Kinds, id : StepIds, tasks : Seq(Agents)]
    <3>1. Program \in Seq(R) /\ i \in 1 .. Len(Program)
      BY <1>1, ConstantsAssumption
    <3> HIDE DEF R
    <3>2. Program[i] \in R
      BY <3>1, ElementOfSeq
    <3> QED BY <3>2 DEF R
  <2>2. Program[i].tasks \in Seq(Agents)
    BY <2>1
  <2>3. \A n \in DOMAIN Program[i].tasks : Program[i].tasks[n] \in Agents
    BY <2>2, ElementOfSeq, LenProperties
  <2>4. Tasks(i) \subseteq Agents
    BY <2>3 DEF Tasks, ToSet
  <2> QED BY <1>1, <2>1, <2>4 DEF StepsOf
<1>3. ASSUME NEW id \in StepIds PROVE \E i \in Items : id \in StepsOf(i)
  BY ConstantsAssumption DEF StepIds, StepsOf
<1> QED BY <1>1, <1>2, <1>3

LEMMA StepsAreDistinct ==
  ASSUME NEW i \in Items, NEW j \in Items, NEW id \in StepsOf(i), id \in StepsOf(j)
  PROVE  i = j
BY ConstantsAssumption

LEMMA CheckpointOfType ==
  ASSUME NEW cp, Checkpoint(cp)
  PROVE  /\ cp \in Checkpoints
         /\ \A id \in StepIds : cp.steps[id] \in Records
BY DEF Checkpoint, Checkpoints

(* A record that is put leaves the others as they are and, if it is new,   *)
(* adds its key behind them.                                               *)
LEMMA PutKeepsType ==
  ASSUME NEW cp, Checkpoint(cp), NEW id \in StepIds, NEW record \in Records,
         record.status # "none"
  PROVE  /\ Checkpoint(Put(cp, id, record))
         /\ \A x \in StepIds : Put(cp, id, record).steps[x] =
                                IF x = id THEN record ELSE cp.steps[x]
         /\ Put(cp, id, record).budget = cp.budget
<1> DEFINE cq == Put(cp, id, record)
           recorded == {x \in StepIds : cp.steps[x].status # "none"}
<1>1. cp \in Checkpoints /\ IsInjective(cp.order) /\ ToSet(cp.order) = recorded
  BY DEF Checkpoint
<1>2. cp.order \in Seq(StepIds) /\ cp.steps \in [StepIds -> Records] /\ cp.budget \in Nat
  BY <1>1 DEF Checkpoints
<1>3. /\ cq.steps = [cp.steps EXCEPT ![id] = record]
      /\ cq.order = IF cp.steps[id].status = "none" THEN Append(cp.order, id) ELSE cp.order
      /\ cq.budget = cp.budget
  <2>1. cq.steps = [cp.steps EXCEPT ![id] = record]
    BY <1>1 DEF Put, Checkpoints
  <2>2. cq.order = IF cp.steps[id].status = "none" THEN Append(cp.order, id) ELSE cp.order
    BY <1>1 DEF Put, Checkpoints
  <2>3. cq.budget = cp.budget
    BY <1>1 DEF Put, Checkpoints
  <2> QED BY <2>1, <2>2, <2>3
<1>4. cq.steps \in [StepIds -> Records]
      /\ \A x \in StepIds : cq.steps[x] = IF x = id THEN record ELSE cp.steps[x]
  BY <1>2, <1>3
<1>5. CASE cp.steps[id].status # "none"
  <2>1. cq.order = cp.order
    BY <1>3, <1>5
  <2>2. {x \in StepIds : cq.steps[x].status # "none"} = recorded
    BY <1>4, <1>5
  <2>3. cq \in Checkpoints
    BY <1>1, <1>5 DEF Checkpoints, Put
  <2> HIDE DEF cq
  <2> QED BY <1>1, <1>3, <1>4, <2>1, <2>2, <2>3 DEF Checkpoint, cq
<1>6. CASE cp.steps[id].status = "none"
  <2>1. cq.order = Append(cp.order, id)
    BY <1>3, <1>6
  <2>2. {x \in StepIds : cq.steps[x].status # "none"} = recorded \cup {id}
    BY <1>4, <1>6
  <2>3. /\ Len(cp.order) \in Nat /\ cq.order \in Seq(StepIds)
        /\ Len(cq.order) = Len(cp.order) + 1
        /\ \A i \in 1 .. Len(cp.order) : cq.order[i] = cp.order[i]
        /\ cq.order[Len(cp.order) + 1] = id
    BY <1>2, <2>1, AppendProperties
  <2>4. DOMAIN cp.order = 1 .. Len(cp.order) /\ DOMAIN cq.order = 1 .. Len(cq.order)
    BY <1>2, <2>3
  <2> HIDE DEF cq
  <2>5. id \notin ToSet(cp.order)
    BY <1>1, <1>6
  <2>6. IsInjective(cq.order)
    <3> SUFFICES ASSUME NEW a \in DOMAIN cq.order, NEW b \in DOMAIN cq.order,
                        cq.order[a] = cq.order[b]
                 PROVE  a = b
      BY DEF IsInjective
    <3>1. \A n \in 1 .. Len(cp.order) : cp.order[n] # id
      BY <2>4, <2>5 DEF ToSet
    <3>2. CASE a \in 1 .. Len(cp.order) /\ b \in 1 .. Len(cp.order)
      BY <1>1, <2>3, <2>4, <3>2 DEF IsInjective
    <3>3. CASE a = Len(cp.order) + 1 \/ b = Len(cp.order) + 1
      BY <2>3, <2>4, <3>1, <3>3
    <3> QED BY <2>3, <2>4, <3>2, <3>3
  <2>7. ToSet(cq.order) = ToSet(cp.order) \cup {id}
    <3>1. ASSUME NEW x \in ToSet(cq.order) PROVE x \in ToSet(cp.order) \cup {id}
      BY <3>1, <2>3, <2>4 DEF ToSet
    <3>2. ASSUME NEW x \in ToSet(cp.order) PROVE x \in ToSet(cq.order)
      BY <3>2, <2>3, <2>4 DEF ToSet
    <3>3. id \in ToSet(cq.order)
      BY <2>3, <2>4 DEF ToSet
    <3> QED BY <3>1, <3>2, <3>3
  <2>8. cq \in Checkpoints
    <3>1. cq = [[cp EXCEPT !.steps = cq.steps] EXCEPT !.order = cq.order]
      BY <1>1 DEF Checkpoints, Put, cq
    <3> QED BY <1>1, <1>4, <2>3, <3>1 DEF Checkpoints
  <2> QED BY <1>1, <1>3, <1>4, <2>2, <2>6, <2>7, <2>8 DEF Checkpoint, cq
<1> QED BY <1>5, <1>6

(* Children are never forgotten, and a completed one stays completed. *)
ChildrenRemain(k, l) ==
  \A c \in Children : /\ k[c].status # "none" => l[c].status # "none"
                      /\ k[c].status = "completed" => l[c].status = "completed"

LEMMA CheckpointStaysSound ==
  ASSUME NEW cp, NEW k, NEW l, SoundCheckpoint(cp, k), ChildrenRemain(k, l)
  PROVE  SoundCheckpoint(cp, l)
<1>1. \A s \in Agents : Recorded(cp, s) => ChildIsReal(cp, k, s)
  BY DEF SoundCheckpoint
<1>2. \A s \in Agents : Recorded(cp, s) => ChildIsReal(cp, l, s)
  BY <1>1 DEF ChildIsReal, ChildrenRemain
<1> QED BY <1>2 DEF SoundCheckpoint

LEMMA EmptyIsSound ==
  ASSUME NEW k PROVE Checkpoint(EmptyCheckpoint) /\ SoundCheckpoint(EmptyCheckpoint, k)
<1> DEFINE cp == EmptyCheckpoint
<1>1. cp.steps = [id \in StepIds |-> NoRecord] /\ cp.order = <<>> /\ cp.budget = 0
  BY DEF EmptyCheckpoint
<1>2. NoRecord \in Records
  BY DEF NoRecord, Records
<1>3. cp \in Checkpoints
  BY <1>1, <1>2 DEF EmptyCheckpoint, Checkpoints
<1>4. IsInjective(cp.order) /\ ToSet(cp.order) = {}
  BY <1>1 DEF IsInjective, ToSet
<1>5. \A id \in StepIds : /\ cp.steps[id].status = "none" /\ cp.steps[id].comp = "none"
                         /\ cp.steps[id].child = NoChild
  BY <1>1 DEF NoRecord
<1> HIDE DEF cp
<1>6. SoundCheckpoint(cp, k)
  BY <1>5, ProgramIsTyped DEF SoundCheckpoint, Recorded, Done
<1> QED BY <1>3, <1>4, <1>5, <1>6 DEF Checkpoint, cp

(* What a record may be put for: the step comes next, a completed step     *)
(* stays completed, and the record names a real child.                     *)
MayPut(cp, k, i, id, record) ==
  /\ i \in Items /\ id \in StepsOf(i)
  /\ record \in Records /\ record.status # "none"
  /\ record.comp # "none" => record.status = "completed"
  /\ \A j \in Items : \A x \in StepsOf(j) : j < i => Done(cp, x)
  /\ id = Program[i].id /\ record.status = "completed" =>
       \A s \in Tasks(i) : s # id => Done(cp, s)
  /\ Recorded(cp, id) => record.child = cp.steps[id].child
  /\ Done(cp, id) => record.status = "completed"
  /\ id \in Agents => /\ record.child \in Children /\ record.child[1] = id
                      /\ k[record.child].status # "none"
                      /\ record.status = "completed" => k[record.child].status = "completed"
  /\ id \notin Agents => record.child = NoChild

LEMMA PutIsSound ==
  ASSUME NEW cp, NEW k, NEW i, NEW id, NEW record,
         Checkpoint(cp), SoundCheckpoint(cp, k), MayPut(cp, k, i, id, record)
  PROVE  /\ Checkpoint(Put(cp, id, record)) /\ SoundCheckpoint(Put(cp, id, record), k)
         /\ \A x \in StepIds : CoversAt(cp, Put(cp, id, record), x)
         /\ \A x \in StepIds : Put(cp, id, record).steps[x] =
                                IF x = id THEN record ELSE cp.steps[x]
<1> DEFINE cq == Put(cp, id, record)
<1>1. i \in Items /\ id \in StepsOf(i) /\ id \in StepIds
  BY ProgramIsTyped DEF MayPut
<1>2. Checkpoint(cq) /\ \A x \in StepIds : cq.steps[x] = IF x = id THEN record ELSE cp.steps[x]
  BY <1>1, PutKeepsType DEF MayPut
<1> HIDE DEF cq
<1>3. \A x \in StepIds : CoversAt(cp, cq, x)
  BY <1>1, <1>2 DEF CoversAt, MayPut, Recorded, Done
<1>4. \A x \in StepIds : cq.steps[x].comp # "none" => Done(cq, x)
  BY <1>1, <1>2 DEF SoundCheckpoint, MayPut, Done
<1>5. ASSUME NEW m \in Items, NEW n \in Items, NEW y \in StepsOf(n), NEW x \in StepsOf(m),
             m < n, Recorded(cq, y)
      PROVE  Done(cq, x)
  <2>1. x \in StepIds /\ y \in StepIds
    BY <1>5, ProgramIsTyped
  <2>2. CASE y = id
    <3>1. n = i
      BY <2>2, <1>1, StepsAreDistinct
    <3>2. Done(cp, x)
      BY <1>5, <3>1 DEF MayPut
    <3> QED BY <2>1, <3>2, <1>3 DEF CoversAt, Recorded, Done
  <2>3. CASE y # id
    <3>1. Recorded(cp, y)
      BY <1>2, <1>5, <2>1, <2>3 DEF Recorded
    <3>2. Done(cp, x)
      BY <1>5, <3>1 DEF SoundCheckpoint
    <3> QED BY <2>1, <3>2, <1>3 DEF CoversAt, Recorded, Done
  <2> QED BY <2>2, <2>3
<1>6. ASSUME NEW m \in Items, NEW s \in Tasks(m), Done(cq, Program[m].id)
      PROVE  Done(cq, s)
  <2>1. s \in StepIds /\ Program[m].id \in StepIds
    BY ProgramIsTyped
  <2>2. CASE Program[m].id = id
    <3>1. m = i
      BY <2>2, <1>1, StepsAreDistinct DEF StepsOf
    <3>2. record.status = "completed"
      BY <1>2, <1>6, <2>1, <2>2 DEF Done
    <3>3. s = id \/ Done(cp, s)
      BY <3>1, <3>2, <2>2 DEF MayPut
    <3> QED BY <2>1, <3>2, <3>3, <1>2, <1>3 DEF CoversAt, Recorded, Done
  <2>3. CASE Program[m].id # id
    <3>1. Done(cp, Program[m].id)
      BY <1>2, <1>6, <2>1, <2>3 DEF Done
    <3>2. Done(cp, s)
      BY <3>1 DEF SoundCheckpoint
    <3> QED BY <2>1, <3>2, <1>3 DEF CoversAt, Recorded, Done
  <2> QED BY <2>2, <2>3
<1>7. ASSUME NEW s \in Agents, Recorded(cq, s) PROVE ChildIsReal(cq, k, s)
  <2>1. s \in StepIds
    BY ProgramIsTyped
  <2>2. CASE s = id
    BY <2>1, <2>2, <1>2, <1>7 DEF MayPut, ChildIsReal, Done
  <2>3. CASE s # id
    BY <2>1, <2>3, <1>2, <1>7 DEF SoundCheckpoint, ChildIsReal, Done, Recorded
  <2> QED BY <2>2, <2>3
<1>9. \A x \in StepIds \ Agents : cq.steps[x].child = NoChild
  BY <1>2 DEF SoundCheckpoint, MayPut
<1>8. SoundCheckpoint(cq, k)
  BY <1>4, <1>5, <1>6, <1>7, <1>9 DEF SoundCheckpoint
<1> QED BY <1>2, <1>3, <1>8 DEF cq

(* The compensation of a completed step is marked. *)
LEMMA MarkIsSound ==
  ASSUME NEW cp, NEW k, NEW id \in StepIds, NEW how \in {"completed", "failed"},
         Checkpoint(cp), SoundCheckpoint(cp, k), cp.steps[id].comp = "pending"
  PROVE  LET cq == [cp EXCEPT !.steps[id].comp = how] IN
         /\ Checkpoint(cq) /\ SoundCheckpoint(cq, k)
         /\ \A x \in StepIds : CoversAt(cp, cq, x)
         /\ \A x \in StepIds : /\ cq.steps[x].status = cp.steps[x].status
                               /\ cq.steps[x].child = cp.steps[x].child
                               /\ cq.steps[x].comp = IF x = id THEN how ELSE cp.steps[x].comp
<1> DEFINE cq == [cp EXCEPT !.steps[id].comp = how]
<1>1. cp \in Checkpoints
  BY DEF Checkpoint
<1>2. cp.steps \in [StepIds -> Records] /\ cp.steps[id] \in Records
  BY <1>1 DEF Checkpoints
<1>3. /\ cq.steps = [cp.steps EXCEPT ![id].comp = how]
      /\ cq.order = cp.order
  BY <1>1 DEF Checkpoints
<1>4. [cp.steps[id] EXCEPT !.comp = how] \in Records
  BY <1>2 DEF Records
<1>5. cq.steps \in [StepIds -> Records]
  BY <1>2, <1>3, <1>4
<1>6. cq \in Checkpoints
  <2>1. cq = [cp EXCEPT !.steps = cq.steps]
    BY <1>1, <1>3 DEF Checkpoints
  <2> HIDE DEF cq
  <2> QED BY <1>1, <1>5, <2>1 DEF Checkpoints
<1>7. \A x \in StepIds : /\ cq.steps[x].status = cp.steps[x].status
                         /\ cq.steps[x].child = cp.steps[x].child
                         /\ cq.steps[x].comp = IF x = id THEN how ELSE cp.steps[x].comp
  <2>1. \A x \in StepIds : cq.steps[x] = IF x = id THEN [cp.steps[id] EXCEPT !.comp = how] ELSE cp.steps[x]
    BY <1>2, <1>3
  <2>2. LET r == [cp.steps[id] EXCEPT !.comp = how] IN
        r.status = cp.steps[id].status /\ r.child = cp.steps[id].child /\ r.comp = how
    BY <1>2 DEF Records
  <2> HIDE DEF cq
  <2> QED BY <2>1, <2>2
<1> HIDE DEF cq
<1>8. {x \in StepIds : cq.steps[x].status # "none"} = {x \in StepIds : cp.steps[x].status # "none"}
  BY <1>7
<1>9. Checkpoint(cq)
  BY <1>3, <1>6, <1>8 DEF Checkpoint
<1>10. \A x \in StepIds : /\ Done(cq, x) <=> Done(cp, x)
                          /\ Recorded(cq, x) <=> Recorded(cp, x)
  BY <1>7 DEF Done, Recorded
<1>11. \A i \in Items : StepsOf(i) \subseteq StepIds /\ Tasks(i) \subseteq StepIds /\ Program[i].id \in StepIds
  BY ProgramIsTyped
<1>12. SoundCheckpoint(cq, k)
  <2>1. \A x \in StepIds : cq.steps[x].comp # "none" => Done(cq, x)
    BY <1>7, <1>10 DEF SoundCheckpoint
  <2>2. \A i, j \in Items : \A y \in StepsOf(j), x \in StepsOf(i) :
          i < j /\ Recorded(cq, y) => Done(cq, x)
    BY <1>10, <1>11 DEF SoundCheckpoint
  <2>3. \A i \in Items : \A s \in Tasks(i) : Done(cq, Program[i].id) => Done(cq, s)
    BY <1>10, <1>11 DEF SoundCheckpoint
  <2>4. \A s \in Agents : Recorded(cq, s) => ChildIsReal(cq, k, s)
    BY <1>7, <1>10, ProgramIsTyped DEF SoundCheckpoint, ChildIsReal
  <2>5. \A x \in StepIds \ Agents : cq.steps[x].child = NoChild
    BY <1>7 DEF SoundCheckpoint
  <2> QED BY <2>1, <2>2, <2>3, <2>4, <2>5 DEF SoundCheckpoint
<1>13. \A x \in StepIds : CoversAt(cp, cq, x)
  BY <1>7, <1>10 DEF CoversAt
<1> QED BY <1>7, <1>9, <1>12, <1>13 DEF cq

-----------------------------------------------------------------------------
(* Attempts, as the store and the children move on.                        *)

Covers(a, b) == \A id \in StepIds : CoversAt(a, b, id)
Same(s, t) == t.cp = s.cp /\ t.status = s.status /\ t.pause = s.pause

LEMMA CoversIsPreorder ==
  ASSUME NEW a, NEW b, NEW c
  PROVE  /\ Covers(a, a)
         /\ Covers(a, b) /\ Covers(b, c) => Covers(a, c)
         /\ \A id \in StepIds : CoversAt(a, b, id) /\ Covers(b, c) => CoversAt(a, c, id)
BY DEF Covers, CoversAt

LEMMA NamesStay ==
  ASSUME NEW a, NEW b, Covers(a, b), NEW c \in Children, Names(a, c)
  PROVE  Names(b, c)
<1>1. c[1] \in StepIds
  BY ProgramIsTyped DEF Children
<1> QED BY <1>1 DEF Covers, CoversAt, Names

(* The soundness of an attempt does not depend on its lease, its signal,   *)
(* its handlers or its last error.                                         *)
LEMMA SoundIgnores ==
  ASSUME NEW e, NEW f, NEW s, NEW k, AttemptIsSound(e, s, k),
         f.phase = e.phase, f.status = e.status, f.cp = e.cp, f.pause = e.pause,
         f.poisoned = e.poisoned, f.pc = e.pc, f.open = e.open, f.cursor = e.cursor,
         f.tasks = e.tasks, f.undoing = e.undoing, f.fresh => e.fresh
  PROVE  AttemptIsSound(f, s, k)
<1>1. IsInStep(f, s)
  BY DEF AttemptIsSound, IsInStep
<1>2. KnowsTheStore(f, s)
  BY DEF AttemptIsSound, KnowsTheStore
<1>3. \A a \in Agents : TaskIsSound(e, k, a) => TaskIsSound(f, k, a)
  BY DEF TaskIsSound, MayWork
<1>4. ReplayIsSound(f, k)
  BY <1>3 DEF AttemptIsSound, ReplayIsSound
<1>5. UndoingIsSound(f)
  BY DEF AttemptIsSound, UndoingIsSound
<1> QED BY <1>1, <1>2, <1>4, <1>5 DEF AttemptIsSound

(* An attempt stays sound while the store changes nothing but the lease,   *)
(* or changes behind the back of an attempt that is not fresh any more.    *)
LEMMA SoundFollows ==
  ASSUME NEW e, NEW s, NEW t, NEW k, NEW l, AttemptIsSound(e, s, k),
         ChildrenRemain(k, l), Covers(s.cp, t.cp),
         Same(s, t) \/ ~e.fresh \/ s.status \notin Active
  PROVE  AttemptIsSound(e, t, l)
<1>1. SoundCheckpoint(e.cp, l)
  BY CheckpointStaysSound DEF AttemptIsSound
<1>2. IsInStep(e, t)
  <2>1. CASE Same(s, t)
    BY <2>1 DEF AttemptIsSound, IsInStep, Same
  <2>2. CASE ~e.fresh \/ s.status \notin Active
    BY <2>2 DEF AttemptIsSound, IsInStep
  <2> QED BY <2>1, <2>2
<1>3. KnowsTheStore(e, t)
  <2>1. \A id \in StepIds : CoversAt(e.cp, s.cp, id) => CoversAt(e.cp, t.cp, id)
    BY CoversIsPreorder
  <2>2. \A c \in Children : Names(s.cp, c) => Names(t.cp, c)
    BY NamesStay
  <2> QED BY <2>1, <2>2 DEF AttemptIsSound, KnowsTheStore
<1>4. \A a \in Agents : TaskIsSound(e, k, a) => TaskIsSound(e, l, a)
  <2> SUFFICES ASSUME NEW a \in Agents, TaskIsSound(e, k, a) PROVE TaskIsSound(e, l, a)
    OBVIOUS
  <2>1. e.tasks[a].st = "created" => l[e.tasks[a].child].status # "none"
    BY DEF TaskIsSound, ChildrenRemain
  <2>2. e.tasks[a].st = "settled" => l[e.tasks[a].child].status = "completed"
    <3>1. SUFFICES ASSUME e.tasks[a].st = "settled"
                   PROVE  l[e.tasks[a].child].status = "completed"
      OBVIOUS
    <3>2. /\ e.cp.steps[a].status = "running" /\ e.cp.steps[a].child = e.tasks[a].child
          /\ k[e.tasks[a].child].status = "completed"
      BY <3>1 DEF TaskIsSound
    <3>3. e.tasks[a].child \in Children
      BY <3>2 DEF AttemptIsSound, SoundCheckpoint, ChildIsReal, Recorded
    <3> QED BY <3>2, <3>3 DEF ChildrenRemain
  <2> QED BY <2>1, <2>2 DEF TaskIsSound
<1>5. ReplayIsSound(e, l)
  BY <1>4 DEF AttemptIsSound, ReplayIsSound
<1> QED BY <1>1, <1>2, <1>3, <1>5 DEF AttemptIsSound

LEMMA StoreFollows ==
  ASSUME NEW s, NEW t, NEW k, NEW l, StoreIsSound(s, k), ChildrenRemain(k, l), Same(s, t)
  PROVE  StoreIsSound(t, l)
BY CheckpointStaysSound DEF StoreIsSound, Same

Stores == [status : Statuses, cp : Checkpoints, pause : SUBSET (StepIds \X (0 .. MaxChildren)),
           holder : Owners \cup {NoOwner}]
ChildStates == [Children -> [status : Statuses, worker : Owners \cup {NoOwner}, able : BOOLEAN]]

LEMMA StateOfType ==
  ASSUME TypeOK
  PROVE  /\ stored \in Stores /\ Checkpoint(stored.cp) /\ child \in ChildStates
         /\ \A o \in Owners : exec[o] \in Attempts /\ Checkpoint(exec[o].cp)
         /\ exec \in [Owners -> Attempts] /\ failures \in Nat /\ crashes \in Nat
         /\ stored.holder \in Owners \cup {NoOwner} /\ stored.status \in Statuses
BY DEF TypeOK, Stores, ChildStates

(* One attempt moves: what has to be shown of a step. *)
LEMMA OneAttemptMoves ==
  ASSUME EngineInv, NEW o \in Owners, NEW e, e \in Attempts, Checkpoint(e.cp),
         stored' \in Stores, Checkpoint(stored'.cp), child' \in ChildStates,
         failures' \in Nat, crashes' \in Nat,
         ChildrenRemain(child, child'), ChildrenAreSound(stored', child'),
         StoreIsSound(stored', child'), Covers(stored.cp, stored'.cp),
         AttemptIsSound(e, stored', child'),
         \/ /\ Same(stored, stored') \/ stored.status \notin Active
            /\ exec' = [exec EXCEPT ![o] = e]
         \/ exec' = Installed(o, e)
  PROVE  EngineInv'
<1>1. /\ \A p \in Owners : exec[p] \in Attempts /\ Checkpoint(exec[p].cp)
      /\ exec \in [Owners -> Attempts]
  BY StateOfType DEF EngineInv
<1>2. \A p \in Owners : AttemptIsSound(exec[p], stored, child)
  BY DEF EngineInv
<1>3. /\ exec' = [p \in Owners |-> exec'[p]]
      /\ \A p \in Owners : exec'[p] \in Attempts /\ Checkpoint(exec'[p].cp)
                           /\ AttemptIsSound(exec'[p], stored', child')
  <2>1. CASE /\ Same(stored, stored') \/ stored.status \notin Active
             /\ exec' = [exec EXCEPT ![o] = e]
    <3>1. exec'[o] = e /\ \A p \in Owners \ {o} : exec'[p] = exec[p]
      BY <2>1, <1>1
    <3>2. \A p \in Owners : AttemptIsSound(exec[p], stored', child')
      BY <2>1, <1>2, SoundFollows
    <3> QED BY <2>1, <3>1, <3>2, <1>1
  <2>2. CASE exec' = Installed(o, e)
    <3>1. exec'[o] = e
      BY <2>2 DEF Installed
    <3>2. exec' = [p \in Owners |-> exec'[p]]
      BY <2>2 DEF Installed
    <3>3. ASSUME NEW p \in Owners, p # o
          PROVE  exec'[p] \in Attempts /\ Checkpoint(exec'[p].cp)
                 /\ AttemptIsSound(exec'[p], stored', child')
      <4> DEFINE f == [exec[p] EXCEPT !.fresh = FALSE]
      <4>1. exec'[p] = f
        BY <2>2, <3>3 DEF Installed
      <4>2. /\ f \in Attempts /\ ~f.fresh
            /\ f.phase = exec[p].phase /\ f.status = exec[p].status /\ f.cp = exec[p].cp
            /\ f.pause = exec[p].pause /\ f.poisoned = exec[p].poisoned /\ f.pc = exec[p].pc
            /\ f.open = exec[p].open /\ f.cursor = exec[p].cursor
            /\ f.tasks = exec[p].tasks /\ f.undoing = exec[p].undoing
        BY <1>1 DEF Attempts
      <4> HIDE DEF f
      <4>3. AttemptIsSound(f, stored, child)
        BY <4>2, <1>2, SoundIgnores
      <4>4. AttemptIsSound(f, stored', child')
        BY <4>2, <4>3, SoundFollows
      <4> QED BY <4>1, <4>2, <4>4, <1>1
    <3> QED BY <3>1, <3>2, <3>3
  <2> QED BY <2>1, <2>2
<1>4. exec' \in [Owners -> Attempts]
  BY <1>3
<1>5. TypeOK'
  BY <1>3, <1>4 DEF TypeOK, Stores, ChildStates
<1> QED BY <1>3, <1>5 DEF EngineInv

-----------------------------------------------------------------------------
(* Commits.                                                                *)

Later == {"failing", "stuck", "over", "cancelling", "committing"}

(* In the phases after the items only what is in memory matters. *)
LEMMA LaterIsSound ==
  ASSUME NEW e, NEW s, NEW k, e.phase \in Later \/ (e.phase = "undoFailed" /\ e.poisoned),
         SoundCheckpoint(e.cp, k), IsInStep(e, s),
         e.poisoned \/ Covers(e.cp, s.cp),
         \A c \in e.pause \cap Children : Names(s.cp, c)
  PROVE  AttemptIsSound(e, s, k)
<1>1. KnowsTheStore(e, s)
  BY DEF KnowsTheStore, Covers, Later, Reading
<1>2. ReplayIsSound(e, k) /\ UndoingIsSound(e)
  BY DEF ReplayIsSound, UndoingIsSound, Later
<1> QED BY <1>1, <1>2 DEF AttemptIsSound

LEMMA OverIsSound ==
  ASSUME NEW e \in Attempts, NEW s, NEW k, AttemptIsSound(e, s, k)
  PROVE  Over(e) \in Attempts /\ Over(e).cp = e.cp /\ AttemptIsSound(Over(e), s, k)
<1> DEFINE f == Over(e)
<1>1. /\ f \in Attempts /\ f.cp = e.cp /\ f.phase = "over" /\ f.pause = e.pause
      /\ f.poisoned = e.poisoned
  BY DEF Attempts, Over, Phases
<1> HIDE DEF f
<1>2. IsInStep(f, s)
  BY <1>1 DEF IsInStep
<1>3. KnowsTheStore(f, s)
  BY <1>1 DEF AttemptIsSound, KnowsTheStore, Reading
<1>4. ReplayIsSound(f, k) /\ UndoingIsSound(f)
  BY <1>1 DEF ReplayIsSound, UndoingIsSound
<1>5. AttemptIsSound(f, s, k)
  BY <1>1, <1>2, <1>3, <1>4 DEF AttemptIsSound
<1> QED BY <1>1, <1>5 DEF f

LEMMA RefusedIsSound ==
  ASSUME NEW e \in Attempts, NEW s, NEW k, AttemptIsSound(e, s, k)
  PROVE  Refused(e) \in Attempts /\ Refused(e).cp = e.cp /\ AttemptIsSound(Refused(e), s, k)
<1> DEFINE f == Refused(e)
<1>1. /\ f \in Attempts /\ f.cp = e.cp /\ f.phase = e.phase /\ f.pause = e.pause
      /\ f.poisoned = e.poisoned /\ f.status = e.status /\ f.pc = e.pc /\ f.open = e.open
      /\ f.cursor = e.cursor /\ f.tasks = e.tasks /\ f.undoing = e.undoing /\ f.fresh = e.fresh
  BY DEF Attempts, Refused
<1> HIDE DEF f
<1>2. AttemptIsSound(f, s, k)
  BY <1>1, SoundIgnores
<1> QED BY <1>1, <1>2 DEF f

LEMMA StaleIsSound ==
  ASSUME NEW e \in Attempts, NEW s, NEW t, NEW k, AttemptIsSound(e, s, k), Covers(s.cp, t.cp)
  PROVE  LET f == [e EXCEPT !.fresh = FALSE] IN
         f \in Attempts /\ f.cp = e.cp /\ AttemptIsSound(f, t, k)
<1> DEFINE f == [e EXCEPT !.fresh = FALSE]
<1>1. /\ f \in Attempts /\ f.cp = e.cp /\ f.phase = e.phase /\ f.pause = e.pause
      /\ f.poisoned = e.poisoned /\ f.status = e.status /\ f.pc = e.pc /\ f.open = e.open
      /\ f.cursor = e.cursor /\ f.tasks = e.tasks /\ f.undoing = e.undoing /\ ~f.fresh
  BY DEF Attempts
<1> HIDE DEF f
<1>2. AttemptIsSound(f, s, k)
  BY <1>1, SoundIgnores
<1>3. ChildrenRemain(k, k)
  BY DEF ChildrenRemain
<1>4. AttemptIsSound(f, t, k)
  BY <1>1, <1>2, <1>3, SoundFollows
<1> QED BY <1>1, <1>4 DEF f

(* What a commit that is applied has to keep of the store. *)
MayStore(img, l) ==
  /\ img \in Stores /\ Checkpoint(img.cp) /\ Covers(stored.cp, img.cp)
  /\ StoreIsSound(img, l) /\ ChildrenAreSound(img, l)
MayBecome(e, s, l) == e \in Attempts /\ Checkpoint(e.cp) /\ AttemptIsSound(e, s, l)
(* What a step may do to the children. *)
MayLeave(l) ==
  l \in ChildStates /\ ChildrenRemain(child, l) /\ ChildrenAreSound(stored, l)

LEMMA ChildrenMayStay == EngineInv => MayLeave(child)
BY StateOfType DEF EngineInv, MayLeave, ChildrenRemain

LEMMA StoreMayStay ==
  ASSUME EngineInv, NEW s, s \in Stores, Same(stored, s), NEW l, MayLeave(l)
  PROVE  MayStore(s, l)
<1>1. StoreIsSound(stored, child) /\ Checkpoint(stored.cp)
  BY StateOfType DEF EngineInv
<1>2. StoreIsSound(s, l)
  BY <1>1, StoreFollows DEF MayLeave
<1>3. ChildrenAreSound(s, l)
  BY DEF MayLeave, ChildrenAreSound, Same
<1>4. Covers(stored.cp, s.cp)
  BY CoversIsPreorder DEF Same
<1> QED BY <1>1, <1>2, <1>3, <1>4 DEF MayStore, Same

LEMMA StoredIsSame == EngineInv => stored \in Stores /\ Same(stored, stored)
BY StateOfType DEF EngineInv, Same

(* An attempt that moves leaves the run as it is, up to its lease. *)
LEMMA AttemptMoves ==
  ASSUME EngineInv, NEW o \in Owners, NEW e, exec' = [exec EXCEPT ![o] = e],
         stored' \in Stores, Same(stored, stored'), MayLeave(child'),
         MayBecome(e, stored, child'), failures' \in Nat, crashes' \in Nat
  PROVE  EngineInv'
<1>1. MayStore(stored', child')
  BY StoreMayStay
<1>2. AttemptIsSound(e, stored', child')
  <2>1. Covers(stored.cp, stored'.cp)
    BY <1>1 DEF MayStore
  <2>2. ChildrenRemain(child', child')
    BY DEF ChildrenRemain
  <2> QED BY <2>1, <2>2, SoundFollows DEF MayBecome
<1> QED BY <1>1, <1>2, OneAttemptMoves DEF MayStore, MayBecome, MayLeave

LEMMA AttemptInstalls ==
  ASSUME EngineInv, NEW o \in Owners, NEW e, exec' = Installed(o, e),
         MayStore(stored', child'), MayLeave(child'),
         MayBecome(e, stored', child'), failures' \in Nat, crashes' \in Nat
  PROVE  EngineInv'
BY OneAttemptMoves DEF MayStore, MayBecome, MayLeave

LEMMA CommitKeepsInv ==
  ASSUME EngineInv, NEW o \in Owners, NEW img, NEW ok, NEW thrown,
         CommitStep(o, img, ok, thrown), MayLeave(child'), UNCHANGED crashes,
         MayBecome(thrown, stored, child'),
         StoreAccepts(o) => MayStore(img, child') /\ MayBecome(ok, img, child')
  PROVE  EngineInv'
<1>1. failures \in Nat /\ crashes' \in Nat
  BY StateOfType DEF EngineInv
<1>2. CASE /\ StoreAccepts(o) /\ stored' = img /\ exec' = Installed(o, ok) /\ UNCHANGED failures
  BY <1>1, <1>2, AttemptInstalls
<1>3. CASE exec' = [exec EXCEPT ![o] = Refused(thrown)] /\ UNCHANGED <<stored, failures>>
  <2>1. MayBecome(Refused(thrown), stored, child')
    BY RefusedIsSound DEF MayBecome
  <2> QED BY <1>1, <1>3, <2>1, StoredIsSame, AttemptMoves
<1>4. CASE exec' = [exec EXCEPT ![o] = thrown] /\ UNCHANGED stored /\ failures' = failures + 1
  <2>1. failures' \in Nat
    BY <1>1, <1>4
  <2>2. stored' \in Stores /\ Same(stored, stored')
    BY <1>4, StoredIsSame
  <2> QED BY <1>1, <1>4, <2>1, <2>2, AttemptMoves
<1>5. CASE /\ StoreAccepts(o) /\ stored' = img /\ failures' = failures + 1
           /\ exec' = Installed(o, [thrown EXCEPT !.fresh = FALSE])
  <2> DEFINE f == [thrown EXCEPT !.fresh = FALSE]
  <2>1. thrown \in Attempts /\ Checkpoint(thrown.cp) /\ AttemptIsSound(thrown, stored, child')
        /\ Covers(stored.cp, img.cp)
    BY <1>5 DEF MayBecome, MayStore
  <2>2. f \in Attempts /\ f.cp = thrown.cp /\ AttemptIsSound(f, img, child')
    BY <2>1, StaleIsSound
  <2>3. exec' = Installed(o, f) /\ MayStore(stored', child') /\ failures' \in Nat /\ stored' = img
    BY <1>1, <1>5
  <2> HIDE DEF f
  <2>4. MayBecome(f, stored', child')
    BY <2>1, <2>2, <2>3 DEF MayBecome
  <2> QED BY <1>1, <2>3, <2>4, AttemptInstalls
<1> QED BY <1>2, <1>3, <1>4, <1>5 DEF CommitStep

LEMMA FreedIsSame ==
  ASSUME NEW s \in Stores, NEW o
  PROVE  FreedBy(o, s) \in Stores /\ Same(s, FreedBy(o, s))
BY DEF FreedBy, Stores, Same

LEMMA ReleaseKeepsInv ==
  ASSUME EngineInv, NEW o \in Owners, Release(o), MayLeave(child'),
         failures' \in Nat, UNCHANGED crashes
  PROVE  EngineInv'
<1>1. exec[o] \in Attempts /\ Checkpoint(exec[o].cp) /\ crashes' \in Nat
      /\ AttemptIsSound(exec[o], stored, child) /\ stored \in Stores
  BY StateOfType DEF EngineInv
<1>2. AttemptIsSound(exec[o], stored, child')
  BY <1>1, StoredIsSame, CoversIsPreorder, SoundFollows DEF MayLeave
<1>3. MayBecome(Over(exec[o]), stored, child')
  BY <1>1, <1>2, OverIsSound DEF MayBecome
<1>4. stored' \in Stores /\ Same(stored, stored')
  BY <1>1, FreedIsSame DEF Release
<1>5. exec' = [exec EXCEPT ![o] = Over(exec[o])]
  BY DEF Release
<1> QED BY <1>1, <1>3, <1>4, <1>5, AttemptMoves

LEMMA ReleasingKeepsInv ==
  ASSUME EngineInv, NEW o \in Owners, NEW img, NEW ok,
         ReleasingCommit(o, img, ok), UNCHANGED child, UNCHANGED crashes,
         StoreAccepts(o) => MayStore(img, child) /\ MayBecome(ok, img, child)
  PROVE  EngineInv'
<1>1. failures \in Nat /\ crashes' \in Nat /\ MayLeave(child')
      /\ exec[o] \in Attempts /\ Checkpoint(exec[o].cp) /\ AttemptIsSound(exec[o], stored, child)
  BY ChildrenMayStay, StateOfType DEF EngineInv
<1>2. CASE /\ StoreAccepts(o) /\ stored' = img /\ exec' = Installed(o, ok) /\ UNCHANGED failures
  BY <1>1, <1>2, AttemptInstalls
<1>3. CASE Release(o) /\ (failures' = failures \/ failures' = failures + 1)
  BY <1>1, <1>3, ReleaseKeepsInv
<1>4. CASE /\ StoreAccepts(o) /\ stored' = [img EXCEPT !.holder = NoOwner]
           /\ exec' = Installed(o, Over(exec[o])) /\ failures' = failures + 1
  <2>1. stored' \in Stores /\ Same(img, stored')
    BY <1>4 DEF MayStore, Stores, Same
  <2>2. MayStore(stored', child')
    <3>1. ChildrenRemain(child, child)
      BY DEF ChildrenRemain
    <3>2. StoreIsSound(stored', child)
      BY <1>4, <2>1, <3>1, StoreFollows DEF MayStore
    <3> QED BY <1>4, <2>1, <3>2 DEF MayStore, Same, ChildrenAreSound
  <2>3. MayBecome(Over(exec[o]), stored', child')
    <3>1. Over(exec[o]) \in Attempts /\ Over(exec[o]).cp = exec[o].cp
          /\ AttemptIsSound(Over(exec[o]), stored, child)
      BY <1>1, OverIsSound
    <3>2. Over(exec[o]).phase = "over"
      BY <1>1 DEF Over, Attempts
    <3>3. AttemptIsSound(Over(exec[o]), stored', child)
      <4>1. Covers(stored.cp, stored'.cp)
        BY <2>2 DEF MayStore
      <4> DEFINE f == Over(exec[o])
      <4> HIDE DEF f
      <4>2. SoundCheckpoint(f.cp, child) /\ KnowsTheStore(f, stored)
        BY <3>1 DEF AttemptIsSound, f
      <4>3. f.poisoned \/ Covers(f.cp, stored'.cp)
        <5>1. f.poisoned \/ Covers(f.cp, stored.cp)
          BY <4>2, <3>2 DEF KnowsTheStore, f, Covers
        <5> QED BY <5>1, <4>1, CoversIsPreorder
      <4>4. \A c \in f.pause \cap Children : Names(stored'.cp, c)
        BY <4>1, <4>2, NamesStay DEF KnowsTheStore
      <4>5. IsInStep(f, stored')
        BY <3>2 DEF IsInStep, f
      <4>6. f.phase \in Later
        BY <3>2 DEF f, Later
      <4>7. AttemptIsSound(f, stored', child)
        BY <4>2, <4>3, <4>4, <4>5, <4>6, LaterIsSound
      <4> QED BY <4>7 DEF f
    <3> QED BY <1>1, <3>1, <3>3 DEF MayBecome
  <2> QED BY <1>1, <1>4, <2>2, <2>3, AttemptInstalls
<1> QED BY <1>1, <1>2, <1>3, <1>4 DEF ReleasingCommit

(* What the invariant says of one attempt. *)
LEMMA AttemptOfInv ==
  ASSUME EngineInv, NEW o \in Owners
  PROVE  /\ exec[o] \in Attempts /\ Checkpoint(exec[o].cp) /\ AttemptIsSound(exec[o], stored, child)
         /\ SoundCheckpoint(exec[o].cp, child) /\ IsInStep(exec[o], stored)
         /\ KnowsTheStore(exec[o], stored) /\ ReplayIsSound(exec[o], child)
         /\ UndoingIsSound(exec[o])
         /\ \A l : MayLeave(l) => /\ AttemptIsSound(exec[o], stored, l)
                                  /\ SoundCheckpoint(exec[o].cp, l)
<1>1. exec[o] \in Attempts /\ Checkpoint(exec[o].cp) /\ AttemptIsSound(exec[o], stored, child)
  BY StateOfType DEF EngineInv
<1>2. ASSUME NEW l, MayLeave(l) PROVE AttemptIsSound(exec[o], stored, l)
  BY <1>1, <1>2, StoredIsSame, CoversIsPreorder, SoundFollows DEF MayLeave
<1> QED BY <1>1, <1>2 DEF AttemptIsSound

(* The attempt whose commit is accepted has what the store has. *)
LEMMA AcceptedIsInStep ==
  ASSUME EngineInv, NEW o \in Owners, StoreAccepts(o), exec[o].phase \notin {"idle", "dead", "over"}
  PROVE  /\ stored.status \in Active /\ exec[o].fresh
         /\ exec[o].phase \in Reading => /\ exec[o].cp = stored.cp
                                        /\ exec[o].status = stored.status
                                        /\ exec[o].pause = stored.pause
         /\ exec[o].phase \in Advancing => stored.status = "running"
         /\ ~exec[o].poisoned => exec[o].cp = stored.cp
BY AttemptOfInv DEF IsInStep, KnowsTheStore, StoreAccepts

(* The checkpoint of a running workflow moves on. *)
LEMMA RunningMayStore ==
  ASSUME EngineInv, NEW cp, Checkpoint(cp), Covers(stored.cp, cp), NEW l, MayLeave(l),
         SoundCheckpoint(cp, l), NEW img, img \in Stores, img.cp = cp, img.status = "running",
         img.pause = {}
  PROVE  MayStore(img, l)
<1>1. StoreIsSound(img, l)
  BY DEF StoreIsSound
<1>2. ChildrenAreSound(img, l)
  BY NamesStay DEF MayLeave, ChildrenAreSound
<1> QED BY <1>1, <1>2 DEF MayStore

LEMMA QueuedKeepsInv ==
  ASSUME EngineInv, NEW o \in Owners, NEW cp, NEW ok, NEW bad,
         exec[o].phase \in Advancing,
         QueuedCommit(o, cp, ok, bad), MayLeave(child'), UNCHANGED crashes,
         exec[o].poisoned \/ exec[o].status # "running" =>
           MayBecome([bad EXCEPT !.poisoned = TRUE], stored, child'),
         ~exec[o].poisoned =>
           /\ Checkpoint(cp) /\ Covers(exec[o].cp, cp) /\ SoundCheckpoint(cp, child')
           /\ MayBecome([bad EXCEPT !.cp = cp, !.poisoned = TRUE], stored, child')
           /\ StoreAccepts(o) =>
                \A img : img.cp = cp /\ img.status = "running" /\ img.pause = {} =>
                  MayBecome([ok EXCEPT !.cp = cp], img, child')
  PROVE  EngineInv'
<1>1. failures \in Nat /\ crashes' \in Nat /\ stored \in Stores
  BY StateOfType DEF EngineInv
<1>2. CASE exec[o].poisoned \/ exec[o].status # "running"
  <2>1. /\ exec' = [exec EXCEPT ![o] = [bad EXCEPT !.poisoned = TRUE]]
        /\ UNCHANGED <<stored, failures>>
    BY <1>2 DEF QueuedCommit
  <2>2. MayBecome([bad EXCEPT !.poisoned = TRUE], stored, child')
    BY <1>2
  <2> QED BY <1>1, <2>1, <2>2, StoredIsSame, AttemptMoves
<1>3. CASE ~(exec[o].poisoned \/ exec[o].status # "running")
  <2> DEFINE img == [stored EXCEPT !.cp = cp, !.status = "running", !.pause = {}]
             fine == [ok EXCEPT !.cp = cp]
             thrown == [bad EXCEPT !.cp = cp, !.poisoned = TRUE]
  <2>1. CommitStep(o, img, fine, thrown)
    BY <1>3 DEF QueuedCommit
  <2>2. Checkpoint(cp) /\ Covers(exec[o].cp, cp) /\ SoundCheckpoint(cp, child')
        /\ MayBecome(thrown, stored, child')
    BY <1>3
  <2>3. img \in Stores /\ img.cp = cp /\ img.status = "running" /\ img.pause = {}
    BY <1>1, <2>2 DEF Stores, Checkpoint, Statuses, Active
  <2>4. StoreAccepts(o) => MayBecome(fine, img, child')
    BY <1>3, <2>3
  <2> HIDE DEF img, fine, thrown
  <2>5. ASSUME StoreAccepts(o) PROVE MayStore(img, child')
    <3>1. Covers(stored.cp, cp)
      BY <1>3, <2>2, <2>5, AcceptedIsInStep DEF Advancing
    <3> QED BY <2>2, <2>3, <3>1, RunningMayStore
  <2> QED BY <2>1, <2>2, <2>4, <2>5, CommitKeepsInv
<1> QED BY <1>2, <1>3

(* A rejection or an error takes the attempt out of the items. *)
LEMMA RejectionIsSound ==
  ASSUME EngineInv, NEW o \in Owners, exec[o].phase \in Advancing,
         NEW f \in Attempts, NEW l, MayLeave(l),
         f.phase \in {"failing", "committing"} \/ (f.phase = "undoFailed" /\ f.poisoned),
         f.fresh = exec[o].fresh, f.pause = exec[o].pause,
         Checkpoint(f.cp), SoundCheckpoint(f.cp, l), Covers(exec[o].cp, f.cp),
         f.poisoned \/ (f.cp = exec[o].cp /\ ~exec[o].poisoned)
  PROVE  MayBecome(f, stored, l)
<1> DEFINE e == exec[o]
<1>1. IsInStep(e, stored) /\ KnowsTheStore(e, stored)
  BY AttemptOfInv
<1> HIDE DEF e
<1>2. f.phase \in Advancing /\ e.phase \in Advancing /\ "idle" \notin Advancing
      /\ "dead" \notin Advancing /\ "over" \notin Advancing /\ Advancing \cap Reading = {}
  BY DEF Advancing, Reading, e
<1>3. IsInStep(f, stored)
  <2> SUFFICES ASSUME f.fresh PROVE /\ stored.status \in Active /\ Covers(stored.cp, f.cp)
                                    /\ ~f.poisoned => f.cp = stored.cp
                                    /\ stored.status = "running"
    BY <1>2 DEF IsInStep, Covers
  <2>1. /\ stored.status \in Active /\ Covers(stored.cp, e.cp) /\ stored.status = "running"
        /\ ~e.poisoned => e.cp = stored.cp
    BY <1>1, <1>2 DEF IsInStep, Covers, e
  <2> QED BY <2>1, CoversIsPreorder DEF e
<1>4. f.poisoned \/ Covers(f.cp, stored.cp)
  BY <1>1 DEF KnowsTheStore, Covers, e
<1>5. \A c \in f.pause \cap Children : Names(stored.cp, c)
  BY <1>1 DEF KnowsTheStore, e
<1> QED BY <1>3, <1>4, <1>5, LaterIsSound DEF MayBecome, Later

(* After an accepted commit the attempt has what the store has. *)
LEMMA AcceptanceIsSound ==
  ASSUME EngineInv, NEW o \in Owners, exec[o].phase \in Advancing, ~exec[o].poisoned, StoreAccepts(o),
         NEW f \in Attempts, NEW l, NEW img, f.cp = img.cp, img.status = "running",
         f.phase \in Advancing \ {"working"}, UndoingIsSound(f), ~f.poisoned, f.pause = exec[o].pause,
         Checkpoint(f.cp), SoundCheckpoint(f.cp, l), Covers(exec[o].cp, f.cp)
  PROVE  MayBecome(f, img, l)
<1>1. Covers(img.cp, f.cp) /\ Covers(f.cp, img.cp)
  BY CoversIsPreorder
<1>2. IsInStep(f, img)
  BY <1>1 DEF IsInStep, Covers, Active, Reading, Advancing
<1>3. stored.cp = exec[o].cp
  BY AcceptedIsInStep DEF Advancing
<1>4. \A c \in f.pause \cap Children : Names(img.cp, c)
  BY <1>3, NamesStay, AttemptOfInv DEF KnowsTheStore
<1>5. KnowsTheStore(f, img)
  BY <1>1, <1>4 DEF KnowsTheStore, Covers, Advancing, Reading
<1>6. ReplayIsSound(f, l)
  BY DEF ReplayIsSound
<1> QED BY <1>2, <1>5, <1>6 DEF MayBecome, AttemptIsSound

-----------------------------------------------------------------------------
(* Tasks of the current item.                                              *)

TaskMoved(f, e, a, t) ==
  /\ f.phase = e.phase /\ f.status = e.status /\ f.pause = e.pause /\ f.pc = e.pc
  /\ f.open = e.open /\ f.cursor = e.cursor
  /\ f.tasks = [e.tasks EXCEPT ![a] = t]

LEMMA TaskFollows ==
  ASSUME NEW e, NEW f, NEW k, NEW l, NEW b \in Agents, TaskIsSound(e, k, b), ChildrenRemain(k, l),
         SoundCheckpoint(e.cp, k), f.pc = e.pc, f.open = e.open, f.tasks[b] = e.tasks[b],
         f.cp.steps[b] = e.cp.steps[b]
  PROVE  TaskIsSound(f, l, b)
<1>1. e.tasks[b].st = "settled" => l[e.tasks[b].child].status = "completed"
  <2> SUFFICES ASSUME e.tasks[b].st = "settled" PROVE l[e.tasks[b].child].status = "completed"
    OBVIOUS
  <2>1. /\ e.cp.steps[b].status = "running" /\ e.cp.steps[b].child = e.tasks[b].child
        /\ k[e.tasks[b].child].status = "completed"
    BY DEF TaskIsSound
  <2>2. e.tasks[b].child \in Children
    BY <2>1 DEF SoundCheckpoint, ChildIsReal, Recorded
  <2> QED BY <2>1, <2>2 DEF ChildrenRemain
<1>2. e.tasks[b].st = "created" => l[e.tasks[b].child].status # "none"
  BY DEF TaskIsSound, ChildrenRemain
<1> QED BY <1>1, <1>2 DEF TaskIsSound, MayWork, Done, Recorded

LEMMA TaskMoves ==
  ASSUME NEW e \in Attempts, e.phase = "working", NEW s, NEW k, AttemptIsSound(e, s, k),
         NEW a \in Agents, NEW t, NEW f \in Attempts, TaskMoved(f, e, a, t),
         NEW u, NEW l, ChildrenRemain(k, l), Covers(s.cp, u.cp), IsInStep(f, u),
         SoundCheckpoint(f.cp, l), Covers(e.cp, f.cp),
         \A x \in StepIds \ {a} : f.cp.steps[x] = e.cp.steps[x],
         e.tasks[a].st # "failed", e.poisoned => f.poisoned,
         f.poisoned => e.poisoned \/ t.st = "failed",
         (f.poisoned /\ t.st = "failed") \/ CoversAt(f.cp, u.cp, a),
         TaskIsSound(f, l, a)
  PROVE  AttemptIsSound(f, u, l)
<1>1. /\ f.tasks[a] = t /\ \A b \in Agents \ {a} : f.tasks[b] = e.tasks[b]
      /\ f.phase = "working" /\ Agents \subseteq StepIds
  BY ProgramIsTyped DEF TaskMoved, Attempts
<1>2. KnowsTheStore(e, s) /\ ReplayIsSound(e, k) /\ SoundCheckpoint(e.cp, k)
  BY DEF AttemptIsSound
<1>3. ASSUME NEW id \in StepIds
      PROVE  \/ f.poisoned /\ (id \in Agents => f.tasks[id].st = "failed")
             \/ CoversAt(f.cp, u.cp, id)
  <2>1. CASE id = a
    BY <1>1, <2>1
  <2>2. CASE id # a
    <3>1. CASE CoversAt(e.cp, s.cp, id)
      <4>1. CoversAt(e.cp, u.cp, id)
        BY <3>1, CoversIsPreorder
      <4> QED BY <2>2, <4>1 DEF CoversAt, Recorded, Done
    <3>2. CASE e.poisoned /\ (id \in Agents => e.tasks[id].st = "failed")
      BY <2>2, <3>2, <1>1
    <3> QED BY <3>1, <3>2, <1>2 DEF KnowsTheStore
  <2> QED BY <2>1, <2>2
<1>4. \A c \in f.pause \cap Children : Names(u.cp, c)
  BY <1>2, NamesStay DEF KnowsTheStore, TaskMoved
<1>5. KnowsTheStore(f, u)
  BY <1>1, <1>3, <1>4 DEF KnowsTheStore, Reading
<1>6. \A b \in Agents : TaskIsSound(f, l, b)
  <2> SUFFICES ASSUME NEW b \in Agents, b # a PROVE TaskIsSound(f, l, b)
    OBVIOUS
  <2>1. TaskIsSound(e, k, b)
    BY <1>2 DEF ReplayIsSound
  <2>2. f.pc = e.pc /\ f.open = e.open /\ f.tasks[b] = e.tasks[b] /\ f.cp.steps[b] = e.cp.steps[b]
    BY <1>1 DEF TaskMoved
  <2> QED BY <1>2, <2>1, <2>2, TaskFollows
<1>7. \A i \in Items : \A x \in StepsOf(i) : i < f.pc => Done(f.cp, x)
  BY <1>2, ProgramIsTyped DEF ReplayIsSound, TaskMoved, Covers, CoversAt, Recorded, Done
<1>8. f.poisoned => \E b \in Agents : f.tasks[b].st = "failed"
  <2>1. e.poisoned => \E b \in Agents : e.tasks[b].st = "failed"
    BY <1>2 DEF ReplayIsSound
  <2> QED BY <2>1, <1>1
<1>9. f.open => /\ f.pc <= Len(Program) /\ Program[f.pc].kind = "parallel"
                /\ f.cp.steps[Program[f.pc].id].status = "running"
  <2> SUFFICES ASSUME f.open
               PROVE  /\ f.pc <= Len(Program) /\ Program[f.pc].kind = "parallel"
                      /\ f.cp.steps[Program[f.pc].id].status = "running"
    OBVIOUS
  <2>1. /\ f.pc <= Len(Program) /\ Program[f.pc].kind = "parallel"
        /\ e.cp.steps[Program[f.pc].id].status = "running" /\ f.pc \in Items
    BY <1>2, ProgramIsTyped DEF ReplayIsSound, TaskMoved, Attempts
  <2>2. Program[f.pc].id \in StepIds /\ Program[f.pc].id \notin Agents
    BY <2>1, ProgramIsTyped, ConstantsAssumption
  <2> QED BY <2>1, <2>2
<1>10. ReplayIsSound(f, l)
  BY <1>1, <1>2, <1>6, <1>7, <1>8, <1>9 DEF ReplayIsSound, TaskMoved
<1>11. UndoingIsSound(f)
  BY <1>1 DEF UndoingIsSound
<1> QED BY <1>5, <1>10, <1>11 DEF AttemptIsSound

(* A task moves on in memory. *)
LEMMA TaskMovesAlone ==
  ASSUME EngineInv, NEW o \in Owners, exec[o].phase = "working", NEW a \in Agents, NEW t,
         NEW f \in Attempts, TaskMoved(f, exec[o], a, t), f.cp = exec[o].cp, f.fresh = exec[o].fresh,
         exec' = [exec EXCEPT ![o] = f], UNCHANGED <<stored, crashes>>, failures' \in Nat,
         exec[o].tasks[a].st # "failed",
         f.poisoned = exec[o].poisoned \/ (f.poisoned /\ t.st = "failed"),
         MayLeave(child'), TaskIsSound(f, child', a)
  PROVE  EngineInv'
<1> DEFINE e == exec[o]
<1>1. /\ e \in Attempts /\ Checkpoint(e.cp) /\ AttemptIsSound(e, stored, child) /\ IsInStep(e, stored)
      /\ KnowsTheStore(e, stored) /\ SoundCheckpoint(e.cp, child')
  BY AttemptOfInv
<1>2. crashes' \in Nat /\ stored' \in Stores /\ Same(stored, stored') /\ ChildrenRemain(child, child')
      /\ a \in StepIds
  BY StoredIsSame, StateOfType, ProgramIsTyped DEF MayLeave, EngineInv
<1> HIDE DEF e
<1>3. IsInStep(f, stored)
  BY <1>1 DEF IsInStep, TaskMoved, e
<1>4. CoversAt(f.cp, stored.cp, a)
  BY <1>1, <1>2 DEF KnowsTheStore, e
<1>5. Covers(f.cp, f.cp) /\ Covers(stored.cp, stored.cp)
  BY CoversIsPreorder
<1>6. AttemptIsSound(f, stored, child')
  BY <1>1, <1>2, <1>3, <1>4, <1>5, TaskMoves DEF e
<1> QED BY <1>1, <1>2, <1>6, AttemptMoves DEF MayBecome, e

LEMMA WithFields ==
  ASSUME NEW e \in Attempts, NEW a \in Agents, NEW st \in TaskStates
  PROVE  LET f == With(e, a, st) IN
         /\ f \in Attempts /\ TaskMoved(f, e, a, [e.tasks[a] EXCEPT !.st = st])
         /\ f.tasks[a].st = st /\ f.tasks[a].child = e.tasks[a].child
         /\ f.cp = e.cp /\ f.fresh = e.fresh /\ f.poisoned = e.poisoned
         /\ f.handlers = e.handlers /\ f.tasks \in [Agents -> [st : TaskStates, child : Children \cup {NoChild}]]
<1> DEFINE T == [Agents -> [st : TaskStates, child : Children \cup {NoChild}]]
           ts == [e.tasks EXCEPT ![a].st = st]
           f == [e EXCEPT !.tasks = ts]
<1>1. With(e, a, st) = f /\ e.tasks \in T
  BY DEF With, Attempts
<1>2. ts = [e.tasks EXCEPT ![a] = [e.tasks[a] EXCEPT !.st = st]]
  BY <1>1
<1>3. ts \in T /\ ts[a].st = st /\ ts[a].child = e.tasks[a].child
  BY <1>1
<1> HIDE DEF ts
<1>4. f \in Attempts /\ f.tasks = ts
  BY <1>3 DEF Attempts
<1>5. TaskMoved(f, e, a, [e.tasks[a] EXCEPT !.st = st])
  BY <1>2 DEF TaskMoved, Attempts
<1>6. f.cp = e.cp /\ f.fresh = e.fresh /\ f.poisoned = e.poisoned /\ f.handlers = e.handlers
  BY DEF Attempts
<1> QED BY <1>1, <1>3, <1>4, <1>5, <1>6

(* A task commits, and fails if the commit is rejected. *)
LEMMA TaskCommits ==
  ASSUME EngineInv, NEW o \in Owners, exec[o].phase = "working", NEW a \in Agents,
         a \in Tasks(exec[o].pc), exec[o].pc <= Len(Program), MayWork(exec[o]),
         NEW cp, NEW t, NEW ok \in Attempts, TaskMoved(ok, exec[o], a, t),
         ok.poisoned = exec[o].poisoned, ok.fresh = exec[o].fresh,
         QueuedCommit(o, cp, ok, With(exec[o], a, "failed")), UNCHANGED <<child, crashes>>,
         exec[o].tasks[a].st # "failed",
         ~exec[o].poisoned => /\ Checkpoint(cp) /\ Covers(exec[o].cp, cp) /\ SoundCheckpoint(cp, child)
                              /\ \A x \in StepIds \ {a} : cp.steps[x] = exec[o].cp.steps[x]
                              /\ TaskIsSound([ok EXCEPT !.cp = cp], child, a)
  PROVE  EngineInv'
<1> DEFINE e == exec[o]
           bad == With(e, a, "failed")
           t2 == [e.tasks[a] EXCEPT !.st = "failed"]
<1>1. /\ e \in Attempts /\ Checkpoint(e.cp) /\ AttemptIsSound(e, stored, child) /\ IsInStep(e, stored)
      /\ SoundCheckpoint(e.cp, child) /\ e.phase = "working"
      /\ MayLeave(child') /\ child' = child /\ ReplayIsSound(e, child) /\ ChildrenRemain(child, child)
  BY AttemptOfInv, ChildrenMayStay DEF MayLeave
<1>2. /\ bad \in Attempts /\ TaskMoved(bad, e, a, t2)
      /\ bad.tasks[a].st = "failed" /\ t2.st = "failed"
      /\ bad.cp = e.cp /\ bad.fresh = e.fresh /\ bad.poisoned = e.poisoned
  <2>1. "failed" \in TaskStates
    BY DEF TaskStates
  <2>2. e.tasks \in [Agents -> [st : TaskStates, child : Children \cup {NoChild}]]
    BY <1>1 DEF Attempts
  <2>3. t2.st = "failed"
    BY <2>2
  <2> HIDE DEF e, t2
  <2>4. LET f == With(e, a, "failed") IN
        /\ f \in Attempts /\ TaskMoved(f, e, a, [e.tasks[a] EXCEPT !.st = "failed"])
        /\ f.tasks[a].st = "failed" /\ f.cp = e.cp /\ f.fresh = e.fresh /\ f.poisoned = e.poisoned
    BY <1>1, <2>1, WithFields
  <2> QED BY <2>3, <2>4 DEF t2
<1> HIDE DEF e, bad, t2
<1>3. ASSUME NEW f \in Attempts, TaskMoved(f, e, a, t2), f.poisoned, f.fresh = e.fresh, f.tasks[a].st = "failed",
             Checkpoint(f.cp), SoundCheckpoint(f.cp, child), Covers(e.cp, f.cp),
             \A x \in StepIds \ {a} : f.cp.steps[x] = e.cp.steps[x]
      PROVE  MayBecome(f, stored, child')
  <2>1. IsInStep(f, stored)
    <3>1. e.phase = f.phase /\ f.phase = "working"
      BY <1>1, <1>3 DEF TaskMoved
    <3>2. e.fresh => Covers(stored.cp, e.cp) /\ stored.status \in Active /\ stored.status = "running"
      BY <1>1, <3>1 DEF IsInStep, Covers, Advancing
    <3>3. e.fresh => Covers(stored.cp, f.cp)
      BY <3>2, <1>3, CoversIsPreorder
    <3> QED BY <1>3, <3>1, <3>2, <3>3 DEF IsInStep, Covers, Reading
  <2>2. TaskIsSound(f, child, a)
    BY <1>3 DEF TaskIsSound, TaskMoved, MayWork, e
  <2>3. AttemptIsSound(f, stored, child)
    BY <1>1, <1>2, <1>3, <2>1, <2>2, CoversIsPreorder, TaskMoves DEF e
  <2> QED BY <1>1, <1>3, <2>3 DEF MayBecome
<1>4. MayBecome([bad EXCEPT !.poisoned = TRUE], stored, child')
  <2> DEFINE f == [bad EXCEPT !.poisoned = TRUE]
  <2>1. /\ f \in Attempts /\ f.poisoned /\ f.fresh = bad.fresh /\ f.tasks = bad.tasks /\ f.cp = bad.cp
        /\ TaskMoved(f, e, a, t2)
    BY <1>2 DEF Attempts, TaskMoved
  <2> HIDE DEF f
  <2>2. MayBecome(f, stored, child')
    BY <1>1, <1>2, <1>3, <2>1, CoversIsPreorder
  <2> QED BY <2>2 DEF f
<1>5. ASSUME ~e.poisoned
      PROVE  MayBecome([bad EXCEPT !.cp = cp, !.poisoned = TRUE], stored, child')
  <2> DEFINE f == [bad EXCEPT !.cp = cp, !.poisoned = TRUE]
  <2>0. Checkpoint(cp) /\ Covers(e.cp, cp) /\ SoundCheckpoint(cp, child)
        /\ \A x \in StepIds \ {a} : cp.steps[x] = e.cp.steps[x]
    BY <1>5 DEF e
  <2>1. /\ f \in Attempts /\ f.poisoned /\ f.fresh = bad.fresh /\ f.tasks = bad.tasks /\ f.cp = cp
        /\ TaskMoved(f, e, a, t2)
    BY <1>2, <2>0 DEF Attempts, TaskMoved, Checkpoint
  <2> HIDE DEF f
  <2>2. MayBecome(f, stored, child')
    BY <1>1, <1>2, <1>3, <2>0, <2>1
  <2> QED BY <2>2 DEF f
<1>6. ASSUME ~e.poisoned, StoreAccepts(o),
             NEW img, img.cp = cp, img.status = "running", img.pause = {}
      PROVE  MayBecome([ok EXCEPT !.cp = cp], img, child')
  <2> DEFINE f == [ok EXCEPT !.cp = cp]
  <2>0. Checkpoint(cp) /\ Covers(e.cp, cp) /\ SoundCheckpoint(cp, child)
        /\ (\A x \in StepIds \ {a} : cp.steps[x] = e.cp.steps[x])
        /\ TaskIsSound(f, child, a)
    BY <1>6 DEF e
  <2>1. /\ f \in Attempts /\ f.poisoned = ok.poisoned /\ f.fresh = ok.fresh /\ f.cp = cp
        /\ TaskMoved(f, e, a, t)
    BY <2>0 DEF Attempts, TaskMoved, Checkpoint, e
  <2> HIDE DEF f
  <2>2. stored.cp = e.cp
    BY <1>1, <1>6, AcceptedIsInStep DEF e
  <2>3. ~f.poisoned /\ f.phase = "working" /\ f.status = "running"
    BY <1>1, <1>6, <2>1 DEF TaskMoved, e, ReplayIsSound
  <2>4. IsInStep(f, img) /\ CoversAt(f.cp, img.cp, a)
    <3>1. Covers(img.cp, f.cp) /\ Covers(f.cp, img.cp) /\ f.cp = img.cp
      BY <1>6, <2>1, CoversIsPreorder
    <3> QED BY <1>6, <2>3, <3>1, ProgramIsTyped DEF IsInStep, Covers, Reading, Active
  <2>5. AttemptIsSound(f, img, child)
    <3>1. Covers(stored.cp, img.cp) /\ Covers(e.cp, f.cp) /\ e.tasks[a].st # "failed"
          /\ SoundCheckpoint(f.cp, child)
      BY <2>0, <2>1, <2>2, <1>6 DEF e
    <3>2. \A x \in StepIds \ {a} : f.cp.steps[x] = e.cp.steps[x]
      BY <2>0, <2>1
    <3> QED BY <1>1, <1>6, <2>0, <2>1, <2>3, <2>4, <3>1, <3>2, TaskMoves
  <2>6. MayBecome(f, img, child')
    BY <1>1, <2>0, <2>1, <2>5 DEF MayBecome
  <2> QED BY <2>6 DEF f
<1>7. exec[o].phase \in Advancing
  BY DEF Advancing
<1>8. QueuedCommit(o, cp, ok, bad)
  BY DEF bad, e
<1> QED BY <1>1, <1>4, <1>5, <1>6, <1>7, <1>8, QueuedKeepsInv DEF e

-----------------------------------------------------------------------------
(* The children.                                                           *)

LEMMA LeastNatural ==
  ASSUME NEW T, T \subseteq Nat, T # {}
  PROVE  \E x \in T : \A y \in T : x <= y
<1> DEFINE R == OpToRel(<, Nat)
<1>1. IsWellFoundedOn(R, Nat)
  BY NatLessThanWellFounded
<1>2. ASSUME NEW x \in Nat, NEW y \in Nat, x < y PROVE <<x, y>> \in R
  <2> DEFINE p == <<x, y>>
  <2>1. p \in Nat \X Nat /\ p[1] < p[2]
    BY <1>2
  <2> HIDE DEF p
  <2>2. p \in OpToRel(<, Nat)
    BY <2>1, Zenon DEF OpToRel
  <2> QED BY <2>2 DEF p
<1> HIDE DEF R
<1>3. PICK x \in T : \A y \in T : <<y, x>> \notin R
  BY <1>1, WFMin
<1>4. ASSUME NEW y \in T PROVE x <= y
  <2>1. x \in Nat /\ y \in Nat /\ <<y, x>> \notin R
    BY <1>3
  <2>2. ~(y < x)
    BY <2>1, <1>2
  <2> QED BY <2>1, <2>2
<1> QED BY <1>4

(* The next child of a step is the first one that was not created yet. *)
LEMMA NextChildIsNew ==
  ASSUME EngineInv, NEW s \in Agents, NextChild(s) <= MaxChildren
  PROVE  /\ NextChild(s) \in 1 .. MaxChildren /\ child[<<s, NextChild(s)>>].status = "none"
         /\ \A m \in 1 .. MaxChildren : m < NextChild(s) => child[<<s, m>>].status # "none"
<1> DEFINE S == {n \in 1 .. MaxChildren : child[<<s, n>>].status # "none"}
           T == {n \in Nat : n >= 1 /\ n \notin S}
<1>1. MaxChildren \in Nat
  BY ConstantsAssumption
<1>2. \A m, n \in 1 .. MaxChildren : m < n /\ n \in S => m \in S
  BY DEF EngineInv, ChildrenAreSound
<1>3. T \subseteq Nat /\ MaxChildren + 1 \in T
  BY <1>1
<1>4. PICK x \in T : \A y \in T : x <= y
  BY <1>3, LeastNatural
<1>5. x \in Nat /\ x >= 1 /\ x \notin S /\ x <= MaxChildren + 1
  BY <1>3, <1>4
<1>6. S = 1 .. x - 1
  <2>1. ASSUME NEW n \in 1 .. x - 1 PROVE n \in S
    BY <1>4, <1>5
  <2>2. ASSUME NEW n \in S PROVE n \in 1 .. x - 1
    BY <1>1, <1>2, <1>5
  <2> HIDE DEF S
  <2> QED BY <2>1, <2>2
<1>7. NextChild(s) = x
  <2>1. Cardinality(1 .. x - 1) = x - 1
    BY <1>5, FS_Interval
  <2>2. NextChild(s) = Cardinality(S) + 1
    BY DEF NextChild
  <2> HIDE DEF S
  <2> QED BY <1>5, <1>6, <2>1, <2>2
<1>8. \A m \in 1 .. MaxChildren : m < x => m \in S
  BY <1>1, <1>5, <1>6
<1> QED BY <1>1, <1>5, <1>7, <1>8

(* Children move, none is forgotten, and only recorded ones complete. *)
LEMMA ChildrenMove ==
  ASSUME EngineInv, NEW l \in ChildStates,
         \A c \in Children : /\ child[c].status # "none" <=> l[c].status # "none"
                             /\ child[c].status = "completed" => l[c].status = "completed"
                             /\ l[c].status = "completed" =>
                                  child[c].status = "completed" \/ Names(stored.cp, c)
                             /\ l[c].worker # NoOwner => l[c].status = "running"
  PROVE  MayLeave(l)
<1>1. ChildrenAreSound(stored, child)
  BY DEF EngineInv
<1>2. \A a \in Agents : \A n \in 1 .. MaxChildren : <<a, n>> \in Children
  BY DEF Children
<1>3. ChildrenAreSound(stored, l)
  BY <1>1, <1>2 DEF ChildrenAreSound
<1> QED BY <1>3 DEF MayLeave, ChildrenRemain

(* A child ends: it completes only if the store knows of it. *)
LEMMA ChildMayEndIsSound ==
  ASSUME EngineInv, NEW c \in Children, NEW status \in Terminal \cup Active,
         child[c].status = "running" \/ (child[c].status = "paused" /\ status # "completed"),
         status = "completed" => Names(stored.cp, c)
  PROVE  MayLeave(ChildEnded(c, status)) /\ ChildEnded(c, status)[c].status = status
<1>1. child \in ChildStates
  BY StateOfType DEF EngineInv
<1>2. /\ ChildEnded(c, status) \in ChildStates
      /\ \A d \in Children : ChildEnded(c, status)[d].status = IF d = c THEN status ELSE child[d].status
      /\ \A d \in Children : ChildEnded(c, status)[d].worker = IF d = c THEN NoOwner ELSE child[d].worker
  <2> DEFINE k == [child EXCEPT ![c].status = status]
             l == [k EXCEPT ![c].worker = NoOwner]
  <2>1. ChildEnded(c, status) = l
    BY DEF ChildEnded
  <2>2. status \in Statuses
    BY DEF Statuses
  <2>3. k \in ChildStates /\ k[c].status = status /\ \A d \in Children \ {c} : k[d] = child[d]
    BY <1>1, <2>2 DEF ChildStates
  <2> HIDE DEF k
  <2>4. l \in ChildStates /\ l[c].status = k[c].status /\ (\A d \in Children \ {c} : l[d] = k[d])
        /\ l[c].worker = NoOwner
    BY <2>3 DEF ChildStates
  <2> HIDE DEF l
  <2> QED BY <2>1, <2>3, <2>4
<1>3. status # "none"
  BY DEF Terminal, Active
<1>4. \A d \in Children : child[d].worker # NoOwner => child[d].status = "running"
  BY DEF EngineInv, ChildrenAreSound
<1> QED BY <1>2, <1>3, <1>4, ChildrenMove

LEMMA WorkerMoves ==
  ASSUME EngineInv, NEW c \in Children, NEW w \in Owners \cup {NoOwner}, child[c].status # "none",
         w # NoOwner => child[c].status = "running"
  PROVE  MayLeave([child EXCEPT ![c].worker = w])
<1>1. child \in ChildStates
  BY StateOfType DEF EngineInv
<1> DEFINE l == [child EXCEPT ![c].worker = w]
<1>2. /\ l \in ChildStates /\ l[c].worker = w
      /\ \A d \in Children : /\ l[d].status = child[d].status
                             /\ d # c => l[d].worker = child[d].worker
  <2>1. l[c] = [child[c] EXCEPT !.worker = w] /\ \A d \in Children \ {c} : l[d] = child[d]
    BY <1>1 DEF ChildStates
  <2>2. l[c].worker = w /\ l[c].status = child[c].status
    BY <1>1, <2>1 DEF ChildStates
  <2>3. l \in ChildStates
    BY <1>1 DEF ChildStates
  <2> HIDE DEF l
  <2> QED BY <2>1, <2>2, <2>3
<1>4. \A d \in Children : child[d].worker # NoOwner => child[d].status = "running"
  BY DEF EngineInv, ChildrenAreSound
<1> HIDE DEF l
<1>5. \A d \in Children : l[d].worker # NoOwner => l[d].status = "running"
  BY <1>2, <1>4
<1>6. \A d \in Children : /\ child[d].status # "none" <=> l[d].status # "none"
                          /\ child[d].status = "completed" => l[d].status = "completed"
                          /\ l[d].status = "completed" =>
                               child[d].status = "completed" \/ Names(stored.cp, d)
                          /\ l[d].worker # NoOwner => l[d].status = "running"
  BY <1>2, <1>5
<1>3. MayLeave(l)
  BY <1>2, <1>6, ChildrenMove
<1> QED BY <1>3 DEF l

LEMMA CancelAllIsSound ==
  ASSUME EngineInv, NEW cs PROVE MayLeave(CancelAll(cs))
<1>1. child \in ChildStates
  BY StateOfType DEF EngineInv
<1> DEFINE l == CancelAll(cs)
<1>2. ASSUME NEW c \in Children
      PROVE  /\ l[c] \in [status : Statuses, worker : Owners \cup {NoOwner}, able : BOOLEAN]
             /\ l[c].status = IF c \in cs /\ child[c].status \in Active THEN "cancelled" ELSE child[c].status
             /\ l[c].worker = IF c \in cs /\ child[c].status \in Active THEN NoOwner ELSE child[c].worker
  BY <1>1 DEF CancelAll, ChildStates, Statuses, Terminal
<1>3. l \in ChildStates
  BY <1>2 DEF CancelAll, ChildStates
<1>5. \A d \in Children : child[d].worker # NoOwner => child[d].status = "running"
  BY DEF EngineInv, ChildrenAreSound
<1> HIDE DEF l
<1>4. MayLeave(l)
  BY <1>2, <1>3, <1>5, ChildrenMove DEF Active
<1> QED BY <1>4 DEF l

-----------------------------------------------------------------------------
(* The steps of a task.                                                    *)

LEMMA CurrentTask ==
  ASSUME EngineInv, NEW o \in Owners, exec[o].phase = "working", NEW s \in Agents,
         exec[o].tasks[s].st # "new" \/ TaskMayStart(o, s)
  PROVE  /\ exec[o].pc \in Items /\ exec[o].pc <= Len(Program) /\ s \in Tasks(exec[o].pc)
         /\ MayWork(exec[o])
         /\ exec[o].tasks[s] \in [st : TaskStates, child : Children \cup {NoChild}]
         /\ TaskIsSound(exec[o], child, s)
         /\ exec[o].tasks[s].st # "failed" => CoversAt(exec[o].cp, stored.cp, s)
<1>1. exec[o] \in Attempts /\ ReplayIsSound(exec[o], child) /\ KnowsTheStore(exec[o], stored)
  BY AttemptOfInv
<1>2. TaskIsSound(exec[o], child, s)
  BY <1>1 DEF ReplayIsSound
<1>3. exec[o].pc <= Len(Program) /\ s \in Tasks(exec[o].pc) /\ MayWork(exec[o])
  BY <1>2 DEF TaskIsSound, TaskMayStart, Working, MayWork, Item
<1>4. exec[o].pc \in Items
  BY <1>1, <1>3, ProgramIsTyped DEF Attempts
<1>5. exec[o].tasks[s].st # "failed" => CoversAt(exec[o].cp, stored.cp, s)
  BY <1>1, ProgramIsTyped DEF KnowsTheStore
<1> QED BY <1>1, <1>2, <1>3, <1>4, <1>5 DEF Attempts

(* The child of a record that is known to the store. *)
LEMMA ChildOfRecord ==
  ASSUME EngineInv, NEW o \in Owners, exec[o].phase = "working", NEW s \in Agents,
         exec[o].tasks[s].st # "failed", exec[o].tasks[s].st # "new" \/ TaskMayStart(o, s),
         Recorded(exec[o].cp, s), NEW c, c = exec[o].cp.steps[s].child
  PROVE  c \in Children /\ c[1] = s /\ child[c].status # "none" /\ Names(stored.cp, c)
<1>1. ChildIsReal(exec[o].cp, child, s)
  BY AttemptOfInv DEF SoundCheckpoint
<1>2. CoversAt(exec[o].cp, stored.cp, s)
  BY CurrentTask
<1> QED BY <1>1, <1>2 DEF ChildIsReal, CoversAt, Names

(* The task gets a state and its child. *)
Took(e, a, st, c) == [With(e, a, st) EXCEPT !.tasks[a].child = c]

LEMMA TookFields ==
  ASSUME NEW e \in Attempts, NEW a \in Agents, NEW st \in TaskStates, NEW c \in Children
  PROVE  LET f == Took(e, a, st, c) IN
         /\ f \in Attempts /\ TaskMoved(f, e, a, [[e.tasks[a] EXCEPT !.st = st] EXCEPT !.child = c])
         /\ f.tasks[a].st = st /\ f.tasks[a].child = c
         /\ f.cp = e.cp /\ f.fresh = e.fresh /\ f.poisoned = e.poisoned
<1> DEFINE w == With(e, a, st)
           T == [Agents -> [st : TaskStates, child : Children \cup {NoChild}]]
           ts == [w.tasks EXCEPT ![a].child = c]
           f == [w EXCEPT !.tasks = ts]
<1>1. /\ w \in Attempts /\ TaskMoved(w, e, a, [e.tasks[a] EXCEPT !.st = st])
      /\ w.tasks[a].st = st /\ w.cp = e.cp /\ w.fresh = e.fresh /\ w.poisoned = e.poisoned
      /\ w.tasks \in T
  BY WithFields
<1> HIDE DEF w
<1>2. ts \in T /\ ts[a].st = st /\ ts[a].child = c
      /\ ts = [w.tasks EXCEPT ![a] = [w.tasks[a] EXCEPT !.child = c]]
  BY <1>1
<1>3. Took(e, a, st, c) = f
  <2>1. [w EXCEPT !.tasks[a].child = c] = f
    BY <1>1 DEF Attempts
  <2> QED BY <2>1 DEF Took, w
<1>4. e.tasks \in T
  BY DEF Attempts
<1>5. ts = [e.tasks EXCEPT ![a] = [[e.tasks[a] EXCEPT !.st = st] EXCEPT !.child = c]]
  BY <1>1, <1>2, <1>4 DEF TaskMoved
<1> HIDE DEF ts
<1>6. f \in Attempts /\ f.tasks = ts /\ f.cp = w.cp /\ f.fresh = w.fresh /\ f.poisoned = w.poisoned
      /\ f.phase = w.phase /\ f.status = w.status /\ f.pause = w.pause /\ f.pc = w.pc
      /\ f.open = w.open /\ f.cursor = w.cursor
  BY <1>1, <1>2 DEF Attempts
<1> HIDE DEF f
<1>7. TaskMoved(f, e, a, [[e.tasks[a] EXCEPT !.st = st] EXCEPT !.child = c])
  BY <1>1, <1>5, <1>6 DEF TaskMoved
<1> QED BY <1>1, <1>2, <1>3, <1>6, <1>7 DEF w

LEMMA HandledFields ==
  ASSUME NEW e \in Attempts, NEW id \in StepIds
  PROVE  LET f == Handled(e, id) IN
         /\ f \in Attempts /\ f.phase = e.phase /\ f.status = e.status /\ f.cp = e.cp
         /\ f.pause = e.pause /\ f.fresh = e.fresh /\ f.poisoned = e.poisoned /\ f.pc = e.pc
         /\ f.open = e.open /\ f.cursor = e.cursor /\ f.tasks = e.tasks /\ f.undoing = e.undoing
         /\ f.lost = e.lost /\ f.aborted = e.aborted /\ f.error = e.error
         /\ f.handlers = IF id \in Compensated THEN e.handlers \cup {id} ELSE e.handlers
BY DEF Handled, Attempts

LEMMA TaskBecomes ==
  ASSUME EngineInv, NEW o \in Owners, NEW s \in Agents, TaskMayStart(o, s), NEW c,
         c = exec[o].cp.steps[s].child, exec[o].cp.steps[s].status = "running",
         NEW st \in {"recovered", "conflict", "failed", "settled", "paused"},
         exec' = [exec EXCEPT ![o] = [With(exec[o], s, st) EXCEPT !.tasks[s].child = c]],
         UNCHANGED <<stored, failures, crashes>>, MayLeave(child'),
         st = "settled" => child'[c].status = "completed"
  PROVE  EngineInv'
<1> DEFINE e == exec[o]
           f == Took(e, s, st, c)
           t == [[e.tasks[s] EXCEPT !.st = st] EXCEPT !.child = c]
<1>1. /\ e.phase = "working" /\ e.tasks[s].st = "new" /\ e \in Attempts /\ failures' \in Nat
      /\ e.pc <= Len(Program) /\ s \in Tasks(e.pc) /\ MayWork(e)
  BY AttemptOfInv, StateOfType DEF TaskMayStart, Working, MayWork, Item, EngineInv
<1>2. c \in Children
  BY <1>1, ChildOfRecord DEF Recorded
<1>3. st \in TaskStates
  BY DEF TaskStates
<1>4. /\ f \in Attempts /\ TaskMoved(f, e, s, t) /\ f.tasks[s].st = st /\ f.tasks[s].child = c
      /\ f.cp = e.cp /\ f.fresh = e.fresh /\ f.poisoned = e.poisoned
  <2> HIDE DEF e
  <2> QED BY <1>1, <1>2, <1>3, TookFields
<1> HIDE DEF f, t
<1>5. TaskIsSound(f, child', s)
  BY <1>1, <1>4 DEF TaskIsSound, TaskMoved, MayWork
<1>6. exec' = [exec EXCEPT ![o] = f]
  BY DEF f, Took
<1> QED BY <1>1, <1>4, <1>5, <1>6, TaskMovesAlone

LEMMA ReuseKeepsInv ==
  ASSUME EngineInv, NEW o \in Owners, NEW s \in Agents, ReuseRecord(o, s) PROVE EngineInv'
<1> DEFINE e == exec[o]
           c == e.cp.steps[s].child
           f == Handled(With(e, s, "done"), s)
<1>1. /\ e.phase = "working" /\ e.tasks[s].st = "new" /\ TaskMayStart(o, s) /\ e \in Attempts
      /\ e.pc <= Len(Program) /\ s \in Tasks(e.pc) /\ MayWork(e)
      /\ UNCHANGED <<stored, crashes, failures>> /\ failures' \in Nat /\ s \in StepIds
  BY AttemptOfInv, StateOfType, ProgramIsTyped
     DEF ReuseRecord, TaskMayStart, Working, MayWork, Item, Untouched, EngineInv
<1>2. CASE /\ e.cp.steps[s].status = "completed" /\ exec' = [exec EXCEPT ![o] = f] /\ UNCHANGED child
  <2> DEFINE t == [e.tasks[s] EXCEPT !.st = "done"]
             w == With(e, s, "done")
  <2>1. "done" \in TaskStates
    BY DEF TaskStates
  <2> HIDE DEF e
  <2>2. /\ w \in Attempts /\ TaskMoved(w, e, s, t) /\ w.tasks[s].st = "done"
        /\ w.cp = e.cp /\ w.fresh = e.fresh /\ w.poisoned = e.poisoned
    BY <1>1, <2>1, WithFields
  <2> HIDE DEF w, t
  <2>3. /\ f \in Attempts /\ TaskMoved(f, e, s, t) /\ f.tasks[s].st = "done"
        /\ f.cp = e.cp /\ f.fresh = e.fresh /\ f.poisoned = e.poisoned /\ f.pc = e.pc /\ f.open = e.open
    BY <1>1, <2>2, HandledFields DEF TaskMoved, w
  <2> HIDE DEF f
  <2>4. TaskIsSound(f, child', s)
    BY <1>1, <1>2, <2>3 DEF TaskIsSound, Done, MayWork
  <2>5. MayLeave(child')
    BY <1>2, ChildrenMayStay
  <2> QED BY <1>1, <1>2, <2>3, <2>4, <2>5, TaskMovesAlone DEF e
<1>3. CASE /\ e.cp.steps[s].status = "running" /\ child[c].status = "running" /\ e.recovering
           /\ child' = [child EXCEPT ![c].worker = o]
           /\ exec' = [exec EXCEPT ![o] = [With(e, s, "recovered") EXCEPT !.tasks[s].child = c]]
  <2>1. c \in Children /\ child[c].status # "none"
    BY <1>1, <1>3, ChildOfRecord DEF Recorded
  <2>2. MayLeave(child')
    BY <1>3, <2>1, WorkerMoves
  <2> QED BY <1>1, <1>3, <2>2, TaskBecomes
<1>4. CASE /\ e.cp.steps[s].status = "running" /\ UNCHANGED child
           /\ \E st \in {"conflict", "failed", "settled", "paused"} :
                /\ exec' = [exec EXCEPT ![o] = [With(e, s, st) EXCEPT !.tasks[s].child = c]]
                /\ st = "settled" => child[c].status = "completed"
  <2>1. MayLeave(child')
    BY <1>4, ChildrenMayStay
  <2>2. PICK st \in {"conflict", "failed", "settled", "paused"} :
          /\ exec' = [exec EXCEPT ![o] = [With(e, s, st) EXCEPT !.tasks[s].child = c]]
          /\ st = "settled" => child[c].status = "completed"
    BY <1>4
  <2>3. st = "settled" => child'[c].status = "completed"
    BY <1>4, <2>2
  <2> QED BY <1>1, <1>4, <2>1, <2>2, <2>3, TaskBecomes
<1>5. \/ /\ e.cp.steps[s].status = "completed" /\ exec' = [exec EXCEPT ![o] = f] /\ UNCHANGED child
      \/ /\ e.cp.steps[s].status = "running" /\ child[c].status = "running" /\ e.recovering
         /\ child' = [child EXCEPT ![c].worker = o]
         /\ exec' = [exec EXCEPT ![o] = [With(e, s, "recovered") EXCEPT !.tasks[s].child = c]]
      \/ /\ e.cp.steps[s].status = "running" /\ UNCHANGED child
         /\ \/ exec' = [exec EXCEPT ![o] = [With(e, s, "conflict") EXCEPT !.tasks[s].child = c]]
            \/ exec' = [exec EXCEPT ![o] = [With(e, s, "failed") EXCEPT !.tasks[s].child = c]]
            \/ /\ child[c].status = "completed"
               /\ exec' = [exec EXCEPT ![o] = [With(e, s, "settled") EXCEPT !.tasks[s].child = c]]
            \/ exec' = [exec EXCEPT ![o] = [With(e, s, "paused") EXCEPT !.tasks[s].child = c]]
  BY DEF ReuseRecord
<1> HIDE DEF f
<1> QED BY <1>2, <1>3, <1>4, <1>5

LEMMA CreateKeepsInv ==
  ASSUME EngineInv, NEW o \in Owners, NEW s \in Agents, CreateChild(o, s) PROVE EngineInv'
<1> DEFINE e == exec[o]
           c == <<s, NextChild(s)>>
           r == [status |-> "running", worker |-> o, able |-> e.cp.budget < StepLimit]
<1>1. /\ e.phase = "working" /\ e.tasks[s].st = "new" /\ TaskMayStart(o, s) /\ e \in Attempts
      /\ e.pc <= Len(Program) /\ s \in Tasks(e.pc) /\ MayWork(e) /\ e.cp.steps[s].status = "none"
      /\ UNCHANGED <<stored, crashes>> /\ failures \in Nat /\ s \in StepIds
      /\ NextChild(s) <= MaxChildren /\ child \in ChildStates
  BY AttemptOfInv, StateOfType, ProgramIsTyped
     DEF CreateChild, TaskMayStart, Working, MayWork, Item, Untouched, EngineInv
<1>2. CASE /\ child' = [child EXCEPT ![c] = r]
           /\ exec' = [exec EXCEPT ![o] = [With(e, s, "created") EXCEPT !.tasks[s].child = c]]
           /\ UNCHANGED failures
  <2> DEFINE f == Took(e, s, "created", c)
             t == [[e.tasks[s] EXCEPT !.st = "created"] EXCEPT !.child = c]
  <2>1. /\ NextChild(s) \in 1 .. MaxChildren /\ child[c].status = "none" /\ c \in Children
        /\ \A m \in 1 .. MaxChildren : m < NextChild(s) => child[<<s, m>>].status # "none"
    BY <1>1, NextChildIsNew DEF Children
  <2>2. r \in [status : Statuses, worker : Owners \cup {NoOwner}, able : BOOLEAN]
        /\ r.status = "running"
    BY DEF Statuses, Active
  <2>3. child' \in ChildStates /\ child'[c] = r /\ \A d \in Children \ {c} : child'[d] = child[d]
    <3> HIDE DEF r, c
    <3> QED BY <1>1, <1>2, <2>1, <2>2 DEF ChildStates
  <2>4. ChildrenAreSound(stored, child')
    <3>1. ChildrenAreSound(stored, child)
      BY DEF EngineInv
    <3>2. ASSUME NEW a \in Agents, NEW m \in 1 .. MaxChildren, NEW n \in 1 .. MaxChildren,
                 m < n, child'[<<a, n>>].status # "none"
          PROVE  child'[<<a, m>>].status # "none"
      <4>1. <<a, m>> \in Children /\ <<a, n>> \in Children
        BY DEF Children
      <4>2. CASE <<a, n>> = c
        <5>1. a = s /\ n = NextChild(s)
          BY <4>2
        <5>2. child[<<a, m>>].status # "none" /\ <<a, m>> # c
          BY <5>1, <3>2, <2>1
        <5> QED BY <4>1, <5>2, <2>3
      <4>3. CASE <<a, n>> # c
        <5>1. child[<<a, m>>].status # "none"
          BY <3>1, <3>2, <4>1, <4>3, <2>3 DEF ChildrenAreSound
        <5> QED BY <4>1, <5>1, <2>1, <2>3
      <4> QED BY <4>2, <4>3
    <3>3. \A d \in Children : /\ child'[d].status = "completed" => Names(stored.cp, d)
                              /\ child'[d].worker # NoOwner => child'[d].status = "running"
      BY <3>1, <2>2, <2>3 DEF ChildrenAreSound
    <3> QED BY <3>2, <3>3 DEF ChildrenAreSound
  <2>5. MayLeave(child')
    <3>1. ChildrenRemain(child, child')
      <4> HIDE DEF c, r
      <4> QED BY <2>1, <2>2, <2>3 DEF ChildrenRemain
    <3> QED BY <2>3, <2>4, <3>1 DEF MayLeave
  <2>6. "created" \in TaskStates
    BY DEF TaskStates
  <2>7. /\ f \in Attempts /\ TaskMoved(f, e, s, t) /\ f.tasks[s].st = "created" /\ f.tasks[s].child = c
        /\ f.cp = e.cp /\ f.fresh = e.fresh /\ f.poisoned = e.poisoned
    <3> HIDE DEF e, c
    <3>1. e \in Attempts /\ c \in Children
      BY <1>1, <2>1
    <3>2. LET g == Took(e, s, "created", c) IN
         /\ g \in Attempts /\ TaskMoved(g, e, s, [[e.tasks[s] EXCEPT !.st = "created"] EXCEPT !.child = c])
         /\ g.tasks[s].st = "created" /\ g.tasks[s].child = c
         /\ g.cp = e.cp /\ g.fresh = e.fresh /\ g.poisoned = e.poisoned
      BY ONLY s \in Agents, <3>1, <2>6, TookFields
    <3> QED BY <3>2
  <2>8. c[1] = s
    OBVIOUS
  <2> HIDE DEF c, f, t, r
  <2>9. TaskIsSound(f, child', s)
    BY <1>1, <2>1, <2>2, <2>3, <2>7, <2>8 DEF TaskIsSound, TaskMoved, MayWork, Recorded
  <2>10. exec' = [exec EXCEPT ![o] = f] /\ failures' \in Nat
    BY <1>1, <1>2 DEF f, Took
  <2> QED BY <1>1, <2>5, <2>7, <2>9, <2>10, TaskMovesAlone
<1>3. CASE /\ failures' = failures + 1 /\ exec' = [exec EXCEPT ![o] = With(e, s, "failed")]
           /\ UNCHANGED child
  <2> DEFINE f == With(e, s, "failed")
             t == [e.tasks[s] EXCEPT !.st = "failed"]
  <2>1. "failed" \in TaskStates
    BY DEF TaskStates
  <2>2. /\ f \in Attempts /\ TaskMoved(f, e, s, t) /\ f.tasks[s].st = "failed"
        /\ f.cp = e.cp /\ f.fresh = e.fresh /\ f.poisoned = e.poisoned
    <3> HIDE DEF e
    <3> QED BY <1>1, <2>1, WithFields
  <2> HIDE DEF f, t
  <2>3. TaskIsSound(f, child', s)
    BY <1>1, <2>2 DEF TaskIsSound, TaskMoved, MayWork
  <2>4. exec' = [exec EXCEPT ![o] = f] /\ failures' \in Nat /\ MayLeave(child')
    BY <1>1, <1>3, ChildrenMayStay DEF f
  <2> QED BY <1>1, <2>2, <2>3, <2>4, TaskMovesAlone
<1> QED BY <1>2, <1>3 DEF CreateChild

(* A task gets another state and keeps its child. *)
LEMMA TaskTurns ==
  ASSUME EngineInv, NEW o \in Owners, NEW s \in Agents, exec[o].phase = "working",
         exec[o].tasks[s].st \in {"running", "recovered"}, NEW st \in TaskStates,
         exec' = [exec EXCEPT ![o] = With(exec[o], s, st)],
         UNCHANGED <<stored, crashes>>, failures' \in Nat, MayLeave(child'),
         st \in {"settled", "paused", "reporting", "failed", "conflict"},
         st = "settled" => child'[exec[o].tasks[s].child].status = "completed"
  PROVE  EngineInv'
<1> DEFINE e == exec[o]
           f == With(e, s, st)
           t == [e.tasks[s] EXCEPT !.st = st]
<1>1. /\ e \in Attempts /\ e.pc <= Len(Program) /\ s \in Tasks(e.pc) /\ MayWork(e) /\ TaskIsSound(e, child, s)
  BY AttemptOfInv, CurrentTask
<1>2. /\ f \in Attempts /\ TaskMoved(f, e, s, t) /\ f.tasks[s].st = st
      /\ f.tasks[s].child = e.tasks[s].child
      /\ f.cp = e.cp /\ f.fresh = e.fresh /\ f.poisoned = e.poisoned
  <2> HIDE DEF e
  <2> QED BY <1>1, WithFields
<1> HIDE DEF f, t
<1>3. TaskIsSound(f, child', s)
  BY <1>1, <1>2 DEF TaskIsSound, TaskMoved, MayWork
<1>4. exec' = [exec EXCEPT ![o] = f]
  BY DEF f
<1> QED BY <1>1, <1>2, <1>3, <1>4, TaskMovesAlone

LEMMA ChildAtWork ==
  ASSUME EngineInv, NEW o \in Owners, NEW s \in Agents, exec[o].phase = "working",
         exec[o].tasks[s].st \in {"running", "recovered", "settled", "paused", "reporting"}
  PROVE  LET c == exec[o].tasks[s].child IN
         /\ c \in Children /\ c[1] = s /\ child[c].status # "none" /\ Names(stored.cp, c)
         /\ exec[o].cp.steps[s].status = "running" /\ exec[o].cp.steps[s].child = c
<1>1. TaskIsSound(exec[o], child, s)
  BY CurrentTask
<1>2. exec[o].cp.steps[s].status = "running"
      /\ exec[o].cp.steps[s].child = exec[o].tasks[s].child
  BY <1>1 DEF TaskIsSound
<1> QED BY <1>2, ChildOfRecord DEF Recorded

LEMMA ChildEndsKeepsInv ==
  ASSUME EngineInv, NEW o \in Owners, NEW s \in Agents, NEW status \in Terminal \cup Active,
         ChildEnds(o, s, status)
  PROVE  EngineInv'
<1> DEFINE e == exec[o]
           t == e.tasks[s]
           st == StateAfter(t.st, status)
<1>1. /\ e.phase = "working" /\ t.st \in {"running", "recovered"}
      /\ child[t.child].status = "running" /\ child' = ChildEnded(t.child, status)
      /\ exec' = [exec EXCEPT ![o] = With(e, s, st)]
      /\ UNCHANGED <<stored, failures, crashes>>
  BY DEF ChildEnds, ChildMayEnd
<1>2. t.child \in Children /\ Names(stored.cp, t.child)
  BY <1>1, ChildAtWork
<1>3. MayLeave(child') /\ child'[t.child].status = status
  BY <1>1, <1>2, ChildMayEndIsSound
<1>4. /\ st \in {"settled", "paused", "reporting", "failed"} /\ st \in TaskStates
      /\ st = "settled" => status = "completed"
  BY DEF StateAfter, TaskStates
<1>5. failures' \in Nat
  BY <1>1, StateOfType DEF EngineInv
<1> HIDE DEF st
<1> QED BY <1>1, <1>3, <1>4, <1>5, TaskTurns

LEMMA ChildLeaseIsSound ==
  ASSUME EngineInv, NEW o \in Owners, NEW c \in Children, child[c].status # "none",
         ChildLosesLease(c, o)
  PROVE  MayLeave(child') /\ failures' \in Nat
<1>1. failures \in Nat /\ MayLeave(child)
  BY ChildrenMayStay, StateOfType DEF EngineInv
<1>2. CASE child' = [child EXCEPT ![c].worker = NoOwner] /\ failures' = failures + 1
  <2>1. failures' \in Nat
    BY <1>1, <1>2
  <2>2. NoOwner \in Owners \cup {NoOwner}
    OBVIOUS
  <2>3. MayLeave([child EXCEPT ![c].worker = NoOwner])
    BY <2>2, WorkerMoves
  <2> QED BY <1>2, <2>1, <2>3
<1>3. CASE UNCHANGED <<child, failures>>
  BY <1>1, <1>3
<1> QED BY <1>2, <1>3 DEF ChildLosesLease

LEMMA ChildConflictsKeepsInv ==
  ASSUME EngineInv, NEW o \in Owners, NEW s \in Agents, ChildConflicts(o, s)
  PROVE  EngineInv'
<1> DEFINE e == exec[o]
           t == e.tasks[s]
<1>1. /\ e.phase = "working" /\ t.st \in {"running", "recovered"} /\ ChildLosesLease(t.child, o)
      /\ exec' = [exec EXCEPT ![o] = With(e, s, "conflict")] /\ UNCHANGED <<stored, crashes>>
  BY DEF ChildConflicts, Untouched
<1>2. t.child \in Children /\ child[t.child].status # "none"
  BY <1>1, ChildAtWork
<1>3. MayLeave(child') /\ failures' \in Nat
  BY <1>1, <1>2, ChildLeaseIsSound
<1>4. "conflict" \in TaskStates
  BY DEF TaskStates
<1> QED BY <1>1, <1>3, <1>4, TaskTurns

LEMMA RelayKeepsInv ==
  ASSUME EngineInv, NEW o \in Owners, NEW s \in Agents, RelayFails(o, s) PROVE EngineInv'
<1> DEFINE e == exec[o]
           w == With(e, s, "failed")
           bad == [w EXCEPT !.poisoned = TRUE]
           t == [e.tasks[s] EXCEPT !.st = "failed"]
<1>1. /\ e.phase = "working" /\ e.tasks[s].st = "running" /\ UNCHANGED <<stored, child, crashes>>
      /\ failures' = failures \/ failures' = failures + 1
      /\ exec' = [exec EXCEPT ![o] = bad] \/ exec' = [exec EXCEPT ![o] = Refused(bad)]
  BY DEF RelayFails, Untouched
<1>2. /\ e \in Attempts /\ e.pc <= Len(Program) /\ s \in Tasks(e.pc) /\ MayWork(e) /\ failures \in Nat
      /\ MayLeave(child') /\ "failed" \in TaskStates
  BY <1>1, AttemptOfInv, CurrentTask, ChildrenMayStay, StateOfType DEF EngineInv, TaskStates
<1>3. /\ w \in Attempts /\ TaskMoved(w, e, s, t) /\ w.tasks[s].st = "failed"
      /\ w.cp = e.cp /\ w.fresh = e.fresh
  <2> HIDE DEF e
  <2> QED BY <1>2, WithFields
<1>4. e.tasks \in [Agents -> [st : TaskStates, child : Children \cup {NoChild}]]
  BY <1>2 DEF Attempts
<1>5. t.st = "failed"
  BY <1>4
<1> HIDE DEF w, t
<1>6. ASSUME NEW f \in {bad, Refused(bad)}
      PROVE  /\ f \in Attempts /\ TaskMoved(f, e, s, t) /\ f.tasks[s].st = "failed"
             /\ f.cp = e.cp /\ f.fresh = e.fresh /\ f.poisoned
  BY <1>3 DEF Attempts, TaskMoved, Refused
<1> HIDE DEF bad
<1>7. PICK f \in {bad, Refused(bad)} : exec' = [exec EXCEPT ![o] = f]
  BY <1>1
<1>8. TaskIsSound(f, child', s)
  BY <1>2, <1>6 DEF TaskIsSound, TaskMoved, MayWork
<1>9. failures' \in Nat
  BY <1>1, <1>2
<1> QED BY <1>1, <1>2, <1>5, <1>6, <1>7, <1>8, <1>9, TaskMovesAlone

LEMMA TaskMayPut ==
  ASSUME EngineInv, NEW o \in Owners, NEW s \in Agents, exec[o].phase = "working",
         exec[o].tasks[s].st # "new", NEW record \in Records, record.status # "none",
         record.comp # "none" => record.status = "completed",
         Recorded(exec[o].cp, s) => record.child = exec[o].cp.steps[s].child,
         Done(exec[o].cp, s) => record.status = "completed",
         record.child \in Children, record.child[1] = s, child[record.child].status # "none",
         record.status = "completed" => child[record.child].status = "completed"
  PROVE  MayPut(exec[o].cp, child, exec[o].pc, s, record)
<1> DEFINE e == exec[o]
           i == e.pc
<1>1. i \in Items /\ s \in Tasks(i)
  BY CurrentTask
<1>2. \A j \in Items : \A x \in StepsOf(j) : j < i => Done(e.cp, x)
  BY AttemptOfInv DEF ReplayIsSound
<1>3. s = Program[i].id => \A x \in Tasks(i) : x = s
  <2>1. Program[i].kind \in Kinds /\ Tasks(i) \subseteq Agents
    BY <1>1, ProgramIsTyped
  <2> QED BY <1>1, <2>1, ConstantsAssumption DEF Kinds
<1>4. s \in StepsOf(i)
  BY <1>1 DEF StepsOf
<1> HIDE DEF e, i
<1> QED BY <1>1, <1>2, <1>3, <1>4 DEF MayPut, e, i

LEMMA RecordStepKeepsInv ==
  ASSUME EngineInv, NEW o \in Owners, NEW s \in Agents, RecordStep(o, s) PROVE EngineInv'
<1> DEFINE e == exec[o]
           record == RunningRecord(e.tasks[s].child)
           cp == Put(e.cp, s, record)
           ok == With(e, s, "running")
           t == [e.tasks[s] EXCEPT !.st = "running"]
<1>1. /\ e.phase = "working" /\ e.tasks[s].st = "created" /\ UNCHANGED <<child, crashes>>
      /\ QueuedCommit(o, cp, ok, With(e, s, "failed"))
  BY DEF RecordStep, Untouched
<1>2. /\ e \in Attempts /\ e.pc <= Len(Program) /\ s \in Tasks(e.pc) /\ MayWork(e) /\ s \in StepIds
      /\ TaskIsSound(e, child, s) /\ "running" \in TaskStates
      /\ Checkpoint(e.cp) /\ SoundCheckpoint(e.cp, child)
  BY <1>1, AttemptOfInv, CurrentTask, ProgramIsTyped DEF TaskStates
<1>3. /\ ~Recorded(e.cp, s) /\ e.tasks[s].child \in Children /\ e.tasks[s].child[1] = s
      /\ child[e.tasks[s].child].status # "none"
  BY <1>1, <1>2 DEF TaskIsSound
<1>4. record \in Records /\ record.status = "running" /\ record.comp = "none"
      /\ record.child = e.tasks[s].child
  BY <1>3 DEF RunningRecord, Records
<1>5. ok \in Attempts /\ TaskMoved(ok, e, s, t) /\ ok.poisoned = e.poisoned /\ ok.fresh = e.fresh
      /\ ok.tasks[s].st = "running" /\ ok.tasks[s].child = e.tasks[s].child
  <2> HIDE DEF e
  <2> QED BY <1>2, WithFields
<1> HIDE DEF ok, t, record
<1>6. MayPut(e.cp, child, e.pc, s, record)
  BY <1>1, <1>3, <1>4, TaskMayPut DEF Recorded, Done
<1> HIDE DEF e
<1>7. /\ Checkpoint(cp) /\ SoundCheckpoint(cp, child) /\ Covers(e.cp, cp)
      /\ \A x \in StepIds : cp.steps[x] = IF x = s THEN record ELSE e.cp.steps[x]
  BY <1>2, <1>6, PutIsSound DEF Covers
<1> HIDE DEF cp
<1>8. TaskIsSound([ok EXCEPT !.cp = cp], child, s)
  <2> DEFINE f == [ok EXCEPT !.cp = cp]
  <2>1. f.cp = cp /\ f.pc = e.pc /\ f.open = e.open /\ f.tasks = ok.tasks
    BY <1>5 DEF Attempts, TaskMoved
  <2> HIDE DEF f
  <2>2. TaskIsSound(f, child, s)
    BY <1>2, <1>4, <1>5, <1>7, <2>1 DEF TaskIsSound, MayWork
  <2> QED BY <2>2 DEF f
<1> QED BY <1>1, <1>2, <1>5, <1>7, <1>8, TaskCommits DEF e

LEMMA ReportKeepsInv ==
  ASSUME EngineInv, NEW o \in Owners, NEW s \in Agents, ReportFailure(o, s) PROVE EngineInv'
<1> DEFINE e == exec[o]
           ok == With(e, s, "failed")
           t == [e.tasks[s] EXCEPT !.st = "failed"]
<1>1. /\ e.phase = "working" /\ e.tasks[s].st = "reporting" /\ UNCHANGED <<child, crashes>>
      /\ QueuedCommit(o, e.cp, ok, With(e, s, "failed"))
  BY DEF ReportFailure, Untouched
<1>2. /\ e \in Attempts /\ e.pc <= Len(Program) /\ s \in Tasks(e.pc) /\ MayWork(e)
      /\ "failed" \in TaskStates /\ Checkpoint(e.cp) /\ SoundCheckpoint(e.cp, child)
      /\ Covers(e.cp, e.cp)
  BY <1>1, AttemptOfInv, CurrentTask, CoversIsPreorder DEF TaskStates
<1>3. ok \in Attempts /\ TaskMoved(ok, e, s, t) /\ ok.poisoned = e.poisoned /\ ok.fresh = e.fresh
      /\ ok.tasks[s].st = "failed"
  <2> HIDE DEF e
  <2> QED BY <1>2, WithFields
<1>4. TaskIsSound([ok EXCEPT !.cp = e.cp], child, s)
  <2> HIDE DEF ok, e
  <2> DEFINE f == [ok EXCEPT !.cp = e.cp]
  <2>1. f.pc = e.pc /\ f.open = e.open /\ f.tasks = ok.tasks
    BY <1>3 DEF Attempts, TaskMoved
  <2> HIDE DEF f
  <2>2. TaskIsSound(f, child, s)
    BY <1>2, <1>3, <2>1 DEF TaskIsSound, MayWork
  <2> QED BY <2>2 DEF f
<1>5. exec[o].tasks[s].st # "failed"
  BY <1>1
<1> HIDE DEF ok, t
<1>6. QueuedCommit(o, e.cp, ok, With(exec[o], s, "failed"))
  BY <1>1
<1> QED BY <1>1, <1>2, <1>3, <1>4, <1>5, <1>6, TaskCommits

LEMMA BudgetKeeps ==
  ASSUME NEW cp, Checkpoint(cp), NEW k, SoundCheckpoint(cp, k)
  PROVE  LET cq == [cp EXCEPT !.budget = @ + 1] IN
         Checkpoint(cq) /\ SoundCheckpoint(cq, k) /\ cq.steps = cp.steps
<1> DEFINE cq == [cp EXCEPT !.budget = @ + 1]
<1>1. cq.steps = cp.steps /\ cq.order = cp.order /\ cq \in Checkpoints
  BY DEF Checkpoint, Checkpoints
<1> HIDE DEF cq
<1>2. Checkpoint(cq)
  BY <1>1 DEF Checkpoint
<1>3. SoundCheckpoint(cq, k)
  BY <1>1 DEF SoundCheckpoint, Recorded, Done, ChildIsReal
<1> QED BY <1>1, <1>2, <1>3 DEF cq

LEMMA CompleteKeepsInv ==
  ASSUME EngineInv, NEW o \in Owners, NEW s \in Agents, CompleteStep(o, s) PROVE EngineInv'
<1> DEFINE e == exec[o]
           c == e.tasks[s].child
           record == CompletedRecord(s, c)
           cq == Put(e.cp, s, record)
           cp == [cq EXCEPT !.budget = @ + 1]
<1>1. PICK done \in {"failed", "done"} :
      /\ e.phase = "working" /\ e.tasks[s].st = "settled" /\ UNCHANGED <<child, crashes>>
      /\ QueuedCommit(o, cp, Handled(With(e, s, done), s), With(e, s, "failed"))
  BY DEF CompleteStep, Untouched
<1> DEFINE w == With(e, s, done)
           ok == Handled(w, s)
           t == [e.tasks[s] EXCEPT !.st = done]
<1>2. /\ e \in Attempts /\ e.pc <= Len(Program) /\ s \in Tasks(e.pc) /\ MayWork(e) /\ s \in StepIds
      /\ TaskIsSound(e, child, s) /\ done \in TaskStates
      /\ Checkpoint(e.cp) /\ SoundCheckpoint(e.cp, child)
  BY <1>1, AttemptOfInv, CurrentTask, ProgramIsTyped DEF TaskStates
<1>3. /\ c \in Children /\ c[1] = s /\ child[c].status = "completed"
      /\ e.cp.steps[s].status = "running" /\ e.cp.steps[s].child = c
  BY <1>1, <1>2, ChildAtWork DEF TaskIsSound
<1>4. record \in Records /\ record.status = "completed" /\ record.child = c
  BY <1>3 DEF CompletedRecord, Records
<1>5. ok \in Attempts /\ TaskMoved(ok, e, s, t) /\ ok.poisoned = e.poisoned /\ ok.fresh = e.fresh
      /\ ok.tasks[s].st = done
  <2> HIDE DEF e
  <2>1. w \in Attempts /\ TaskMoved(w, e, s, t) /\ w.poisoned = e.poisoned /\ w.fresh = e.fresh
        /\ w.tasks[s].st = done
    BY <1>2, WithFields
  <2> HIDE DEF w, t
  <2> QED BY <1>2, <2>1, HandledFields DEF TaskMoved
<1> HIDE DEF ok, t, record, w
<1>6. MayPut(e.cp, child, e.pc, s, record)
  BY <1>1, <1>3, <1>4, TaskMayPut
<1> HIDE DEF e, c
<1>7. /\ Checkpoint(cq) /\ SoundCheckpoint(cq, child) /\ Covers(e.cp, cq)
      /\ \A x \in StepIds : cq.steps[x] = IF x = s THEN record ELSE e.cp.steps[x]
  BY <1>2, <1>6, PutIsSound DEF Covers
<1> HIDE DEF cq
<1>8. Checkpoint(cp) /\ SoundCheckpoint(cp, child) /\ cp.steps = cq.steps
  BY <1>7, BudgetKeeps
<1> HIDE DEF cp
<1>9. Covers(e.cp, cp)
  BY <1>7, <1>8 DEF Covers, CoversAt, Recorded, Done
<1>10. TaskIsSound([ok EXCEPT !.cp = cp], child, s)
  <2> DEFINE f == [ok EXCEPT !.cp = cp]
  <2>1. f.cp = cp /\ f.pc = e.pc /\ f.open = e.open /\ f.tasks = ok.tasks
    BY <1>5 DEF Attempts, TaskMoved
  <2> HIDE DEF f
  <2>2. TaskIsSound(f, child, s)
    BY <1>2, <1>4, <1>5, <1>7, <1>8, <2>1 DEF TaskIsSound, Done, MayWork
  <2> QED BY <2>2 DEF f
<1>11. QueuedCommit(o, cp, ok, With(e, s, "failed"))
  BY <1>1 DEF ok, w
<1>12. \A x \in StepIds \ {s} : cp.steps[x] = e.cp.steps[x]
  BY <1>7, <1>8
<1> QED BY <1>1, <1>2, <1>5, <1>8, <1>9, <1>10, <1>11, <1>12, TaskCommits DEF e

-----------------------------------------------------------------------------
(* The steps of an item.                                                   *)

LEMMA FailingFields ==
  ASSUME NEW e \in Attempts, NEW kind \in {"error", "conflict"}
  PROVE  LET f == Failing(e, kind) IN
         /\ f \in Attempts /\ f.phase = "failing" /\ f.cp = e.cp /\ f.pause = e.pause
         /\ f.fresh = e.fresh /\ f.poisoned = e.poisoned /\ f.status = e.status
BY DEF Failing, Attempts, Phases, Advancing

LEMMA NextItemFields ==
  ASSUME NEW e \in Attempts, e.pc \in Items
  PROVE  LET f == NextItem(e) IN
         /\ f \in Attempts /\ f.phase = e.phase /\ f.status = e.status /\ f.cp = e.cp
         /\ f.pause = e.pause /\ f.fresh = e.fresh /\ f.poisoned = e.poisoned /\ f.pc = e.pc + 1
         /\ ~f.open /\ f.cursor = e.cursor /\ f.tasks = [s \in Agents |-> NoTask]
         /\ f.undoing = e.undoing /\ f.lost = e.lost /\ f.aborted = e.aborted
         /\ f.error = e.error /\ f.handlers = e.handlers
<1>1. [s \in Agents |-> NoTask] \in [Agents -> [st : TaskStates, child : Children \cup {NoChild}]]
  BY DEF NoTask, TaskStates
<1>2. e.pc + 1 \in 1 .. Len(Program) + 1
  BY ProgramIsTyped
<1> DEFINE ts == [s \in Agents |-> NoTask]
<1> HIDE DEF ts
<1>3. ts \in [Agents -> [st : TaskStates, child : Children \cup {NoChild}]]
  BY <1>1 DEF ts
<1> DEFINE f == [e EXCEPT !.pc = @ + 1, !.open = FALSE, !.tasks = ts]
<1>4. /\ f \in Attempts /\ f.phase = e.phase /\ f.status = e.status /\ f.cp = e.cp
      /\ f.pause = e.pause /\ f.fresh = e.fresh /\ f.poisoned = e.poisoned /\ f.pc = e.pc + 1
      /\ ~f.open /\ f.cursor = e.cursor /\ f.tasks = ts
      /\ f.undoing = e.undoing /\ f.lost = e.lost /\ f.aborted = e.aborted
      /\ f.error = e.error /\ f.handlers = e.handlers
  BY <1>2, <1>3 DEF Attempts
<1> HIDE DEF f
<1>5. f = NextItem(e)
  BY DEF f, ts, NextItem
<1> QED BY <1>4, <1>5 DEF ts

LEMMA CurrentItem ==
  ASSUME EngineInv, NEW o \in Owners, Working(o)
  PROVE  /\ exec[o].phase = "working" /\ exec[o].pc \in Items /\ exec[o].phase \in Advancing
         /\ Program[exec[o].pc].id \in StepIds /\ Program[exec[o].pc].id \in StepsOf(exec[o].pc)
         /\ Program[exec[o].pc].kind \in Kinds
         /\ Tasks(exec[o].pc) \subseteq Agents /\ Item(o) = Program[exec[o].pc]
         /\ \A j \in Items : \A x \in StepsOf(j) : j < exec[o].pc => Done(exec[o].cp, x)
         /\ \A s \in Agents : TaskIsSound(exec[o], child, s)
         /\ exec[o].poisoned =>
              \E s \in Tasks(exec[o].pc) : exec[o].tasks[s].st = "failed" /\ MayWork(exec[o])
<1>1. exec[o] \in Attempts /\ ReplayIsSound(exec[o], child)
  BY AttemptOfInv
<1>2. exec[o].pc \in Items
  BY <1>1, ProgramIsTyped DEF Working, Attempts
<1>3. exec[o].poisoned =>
              \E s \in Tasks(exec[o].pc) : exec[o].tasks[s].st = "failed" /\ MayWork(exec[o])
  BY <1>1 DEF ReplayIsSound, TaskIsSound, Working
<1> QED BY <1>1, <1>2, <1>3, ProgramIsTyped DEF Working, Advancing, Item, ReplayIsSound, StepsOf

(* The replay reaches the next item. *)
LEMMA NextIsSound ==
  ASSUME NEW e \in Attempts, e.phase = "working", e.pc \in Items, NEW s, NEW k, AttemptIsSound(e, s, k),
         NEW f \in Attempts, f.phase = e.phase, f.status = e.status, f.pause = e.pause,
         f.pc = e.pc + 1, ~f.open, f.tasks = [a \in Agents |-> NoTask], ~f.poisoned,
         NEW u, NEW l, Covers(s.cp, u.cp), IsInStep(f, u), SoundCheckpoint(f.cp, l),
         Covers(e.cp, f.cp), Covers(f.cp, u.cp), \A x \in StepsOf(e.pc) : Done(f.cp, x)
  PROVE  AttemptIsSound(f, u, l)
<1>1. KnowsTheStore(f, u)
  BY NamesStay DEF AttemptIsSound, KnowsTheStore, Covers, Reading
<1>2. ASSUME NEW i \in Items, NEW x \in StepsOf(i), i < f.pc PROVE Done(f.cp, x)
  <2>1. x \in StepIds /\ i \in Nat /\ e.pc \in Nat
    BY ProgramIsTyped
  <2>2. CASE i < e.pc
    <3>1. Done(e.cp, x)
      BY <2>2 DEF AttemptIsSound, ReplayIsSound
    <3> QED BY <2>1, <3>1 DEF Covers, CoversAt, Recorded, Done
  <2>3. CASE i = e.pc
    BY <2>3
  <2> QED BY <1>2, <2>1, <2>2, <2>3
<1>3. \A a \in Agents : TaskIsSound(f, l, a)
  BY DEF TaskIsSound, NoTask
<1>4. ReplayIsSound(f, l)
  BY <1>2, <1>3 DEF AttemptIsSound, ReplayIsSound
<1>5. UndoingIsSound(f)
  BY DEF UndoingIsSound
<1> QED BY <1>1, <1>4, <1>5 DEF AttemptIsSound

LEMMA ItemAdvances ==
  ASSUME EngineInv, NEW o \in Owners, Working(o), ~exec[o].poisoned,
         NEW f \in Attempts, f.phase = exec[o].phase, f.status = exec[o].status,
         f.pause = exec[o].pause, f.cp = exec[o].cp, f.fresh = exec[o].fresh,
         f.pc = exec[o].pc + 1, ~f.open, f.tasks = [a \in Agents |-> NoTask], ~f.poisoned,
         exec' = [exec EXCEPT ![o] = f], UNCHANGED <<stored, child, failures, crashes>>,
         \A x \in StepsOf(exec[o].pc) : Done(exec[o].cp, x)
  PROVE  EngineInv'
<1> DEFINE e == exec[o]
<1>1. /\ e \in Attempts /\ Checkpoint(e.cp) /\ AttemptIsSound(e, stored, child) /\ IsInStep(e, stored)
      /\ KnowsTheStore(e, stored) /\ SoundCheckpoint(e.cp, child) /\ e.pc \in Items /\ e.phase = "working"
  BY AttemptOfInv, CurrentItem
<1>2. failures' \in Nat /\ crashes' \in Nat /\ stored' \in Stores /\ Same(stored, stored')
      /\ MayLeave(child') /\ child' = child
  BY StoredIsSame, StateOfType, ChildrenMayStay DEF EngineInv
<1>3. Covers(stored.cp, stored.cp) /\ Covers(e.cp, e.cp)
  BY CoversIsPreorder
<1> HIDE DEF e
<1>4. IsInStep(f, stored) /\ Covers(f.cp, stored.cp)
  BY <1>1 DEF IsInStep, KnowsTheStore, Covers, e
<1>5. AttemptIsSound(f, stored, child')
  BY <1>1, <1>2, <1>3, <1>4, NextIsSound DEF e
<1> QED BY <1>1, <1>2, <1>5, AttemptMoves DEF MayBecome, e

LEMMA ItemFails ==
  ASSUME EngineInv, NEW o \in Owners, exec[o].phase \in Advancing, NEW kind \in {"error", "conflict"},
         exec' = [exec EXCEPT ![o] = Failing(exec[o], kind)],
         UNCHANGED <<stored, failures, crashes>>, MayLeave(child')
  PROVE  EngineInv'
<1> DEFINE e == exec[o]
           f == Failing(e, kind)
<1>1. e \in Attempts /\ Checkpoint(e.cp) /\ SoundCheckpoint(e.cp, child') /\ Covers(e.cp, e.cp)
  BY AttemptOfInv, CoversIsPreorder
<1>2. /\ f \in Attempts /\ f.phase = "failing" /\ f.cp = e.cp /\ f.pause = e.pause
      /\ f.fresh = e.fresh /\ f.poisoned = e.poisoned
  <2> HIDE DEF e
  <2> QED BY <1>1, FailingFields
<1> HIDE DEF f
<1>3. MayBecome(f, stored, child')
  BY <1>1, <1>2, RejectionIsSound
<1>4. failures' \in Nat /\ crashes' \in Nat /\ stored' \in Stores /\ Same(stored, stored')
  BY StoredIsSame, StateOfType DEF EngineInv
<1> QED BY <1>3, <1>4, AttemptMoves DEF f

(* The commit of an item, which fails if it is rejected. *)
LEMMA ItemCommits ==
  ASSUME EngineInv, NEW o \in Owners, exec[o].phase = "working", NEW kind \in {"error", "conflict"},
         NEW cp, NEW ok, QueuedCommit(o, cp, ok, Failing(exec[o], kind)),
         MayLeave(child'), UNCHANGED crashes,
         ~exec[o].poisoned =>
           /\ Checkpoint(cp) /\ Covers(exec[o].cp, cp) /\ SoundCheckpoint(cp, child')
           /\ StoreAccepts(o) =>
                \A img : img.cp = cp /\ img.status = "running" /\ img.pause = {} =>
                  MayBecome([ok EXCEPT !.cp = cp], img, child')
  PROVE  EngineInv'
<1> DEFINE e == exec[o]
           bad == Failing(e, kind)
<1>1. e \in Attempts /\ Checkpoint(e.cp) /\ SoundCheckpoint(e.cp, child') /\ Covers(e.cp, e.cp)
  BY AttemptOfInv, CoversIsPreorder
<1>2. /\ bad \in Attempts /\ bad.phase = "failing" /\ bad.cp = e.cp /\ bad.pause = e.pause
      /\ bad.fresh = e.fresh
  <2> HIDE DEF e
  <2> QED BY <1>1, FailingFields
<1>3. exec[o].phase \in Advancing
  BY DEF Advancing
<1> HIDE DEF bad
<1>4. MayBecome([bad EXCEPT !.poisoned = TRUE], stored, child')
  <2> DEFINE f == [bad EXCEPT !.poisoned = TRUE]
  <2>1. /\ f \in Attempts /\ f.phase = "failing" /\ f.cp = bad.cp /\ f.pause = bad.pause
        /\ f.fresh = bad.fresh /\ f.poisoned
    BY <1>2 DEF Attempts
  <2> HIDE DEF f
  <2>2. MayBecome(f, stored, child')
    BY <1>1, <1>2, <1>3, <2>1, RejectionIsSound
  <2> QED BY <2>2 DEF f
<1>5. ASSUME ~e.poisoned PROVE MayBecome([bad EXCEPT !.cp = cp, !.poisoned = TRUE], stored, child')
  <2> DEFINE f == [bad EXCEPT !.cp = cp, !.poisoned = TRUE]
  <2>1. Checkpoint(cp) /\ Covers(exec[o].cp, cp) /\ SoundCheckpoint(cp, child')
    BY <1>5
  <2>2. /\ f \in Attempts /\ f.phase = "failing" /\ f.cp = cp /\ f.pause = bad.pause
        /\ f.fresh = bad.fresh /\ f.poisoned
    BY <1>2, <2>1 DEF Attempts, Checkpoint
  <2> HIDE DEF f
  <2>3. MayBecome(f, stored, child')
    BY <1>1, <1>2, <1>3, <2>1, <2>2, RejectionIsSound
  <2> QED BY <2>3 DEF f
<1>6. QueuedCommit(o, cp, ok, bad)
  BY DEF bad
<1> QED BY <1>3, <1>4, <1>5, <1>6, QueuedKeepsInv

(* The commit that takes the replay to the next item. *)
LEMMA NextAfterCommit ==
  ASSUME EngineInv, NEW o \in Owners, Working(o), StoreAccepts(o), ~exec[o].poisoned,
         NEW cp, Checkpoint(cp), Covers(exec[o].cp, cp), SoundCheckpoint(cp, child),
         \A x \in StepsOf(exec[o].pc) : Done(cp, x),
         NEW ok \in Attempts, ok.phase = exec[o].phase, ok.status = exec[o].status,
         ok.pause = exec[o].pause, ok.pc = exec[o].pc + 1, ~ok.open,
         ok.tasks = [a \in Agents |-> NoTask], ~ok.poisoned,
         NEW img, img.cp = cp, img.status = "running", img.pause = {}
  PROVE  MayBecome([ok EXCEPT !.cp = cp], img, child)
<1> DEFINE e == exec[o]
           f == [ok EXCEPT !.cp = cp]
<1>1. /\ e \in Attempts /\ AttemptIsSound(e, stored, child) /\ ReplayIsSound(e, child)
      /\ e.pc \in Items /\ e.phase = "working" /\ e.phase \in Advancing /\ stored.cp = e.cp
  BY AttemptOfInv, CurrentItem, AcceptedIsInStep DEF Advancing
<1>2. /\ f \in Attempts /\ f.phase = ok.phase /\ f.status = ok.status /\ f.pause = ok.pause
      /\ f.pc = ok.pc /\ f.open = ok.open /\ f.tasks = ok.tasks /\ f.poisoned = ok.poisoned /\ f.cp = cp
  BY DEF Attempts, Checkpoint
<1> HIDE DEF e, f
<1>3. Covers(cp, cp)
  BY CoversIsPreorder
<1>4. IsInStep(f, img)
  BY <1>1, <1>2, <1>3 DEF IsInStep, Covers, Reading, Active, ReplayIsSound, e
<1>5. AttemptIsSound(f, img, child)
  BY <1>1, <1>2, <1>3, <1>4, NextIsSound DEF e
<1> QED BY <1>2, <1>5 DEF MayBecome, f

LEMMA OpenKeepsInv ==
  ASSUME EngineInv, NEW o \in Owners, OpenParallel(o) PROVE EngineInv'
<1> DEFINE e == exec[o]
           id == Item(o).id
           record == RunningRecord(NoChild)
           cp == Put(e.cp, id, record)
           ok == [e EXCEPT !.open = TRUE]
<1>1. /\ Working(o) /\ Item(o).kind = "parallel" /\ ~e.open /\ UNCHANGED <<child, crashes>>
      /\ IF e.cp.steps[id].status = "completed"
         THEN exec' = [exec EXCEPT ![o] = NextItem(Handled(e, id))] /\ UNCHANGED <<stored, failures>>
         ELSE QueuedCommit(o, cp, ok, Failing(e, "error"))
  BY DEF OpenParallel, Untouched
<1>2. /\ e \in Attempts /\ Checkpoint(e.cp) /\ SoundCheckpoint(e.cp, child) /\ MayLeave(child')
      /\ AttemptIsSound(e, stored, child)
  BY <1>1, AttemptOfInv, ChildrenMayStay
<1>3. /\ e.phase = "working" /\ e.pc \in Items /\ id \in StepIds /\ id \in StepsOf(e.pc)
      /\ id = Program[e.pc].id /\ Program[e.pc].kind = "parallel" /\ Tasks(e.pc) \subseteq Agents
      /\ (\A j \in Items : \A x \in StepsOf(j) : j < e.pc => Done(e.cp, x))
      /\ \A s \in Agents : TaskIsSound(e, child, s)
  BY <1>1, CurrentItem
<1>4. ~MayWork(e)
  BY <1>1, <1>3 DEF MayWork
<1>5. ~e.poisoned
  BY <1>1, <1>4, CurrentItem
<1>6. id \notin Agents
  BY <1>3, ConstantsAssumption
<1>7. CASE e.cp.steps[id].status = "completed"
  <2> DEFINE h == Handled(e, id)
             f == NextItem(h)
  <2> HIDE DEF e, id
  <2>1. /\ h \in Attempts /\ h.phase = e.phase /\ h.status = e.status /\ h.cp = e.cp
        /\ h.pause = e.pause /\ h.fresh = e.fresh /\ h.poisoned = e.poisoned /\ h.pc = e.pc
    BY <1>2, <1>3, HandledFields
  <2> HIDE DEF h
  <2>2. /\ f \in Attempts /\ f.phase = h.phase /\ f.status = h.status /\ f.cp = h.cp
        /\ f.pause = h.pause /\ f.fresh = h.fresh /\ f.poisoned = h.poisoned /\ f.pc = h.pc + 1
        /\ ~f.open /\ f.tasks = [s \in Agents |-> NoTask]
    BY <1>3, <2>1, NextItemFields
  <2> HIDE DEF f
  <2>3. \A x \in StepsOf(e.pc) : Done(e.cp, x)
    BY <1>2, <1>3, <1>7 DEF SoundCheckpoint, StepsOf, Done
  <2>4. exec' = [exec EXCEPT ![o] = f] /\ UNCHANGED <<stored, child, failures, crashes>>
    BY <1>1, <1>7 DEF f, h
  <2> QED BY <1>1, <1>5, <2>1, <2>2, <2>3, <2>4, ItemAdvances DEF e
<1>8. CASE e.cp.steps[id].status # "completed"
  <2>1. record \in Records /\ record.status = "running" /\ record.comp = "none" /\ record.child = NoChild
    BY DEF RunningRecord, Records
  <2> HIDE DEF record
  <2>2. Recorded(e.cp, id) => e.cp.steps[id].child = NoChild
    BY <1>2, <1>3, <1>6 DEF SoundCheckpoint
  <2>3. MayPut(e.cp, child, e.pc, id, record)
    BY <1>3, <1>6, <1>8, <2>1, <2>2 DEF MayPut, Done
  <2> HIDE DEF e, id
  <2>4. /\ Checkpoint(cp) /\ SoundCheckpoint(cp, child) /\ Covers(e.cp, cp)
        /\ \A x \in StepIds : cp.steps[x] = IF x = id THEN record ELSE e.cp.steps[x]
    BY <1>2, <2>3, PutIsSound DEF Covers
  <2> HIDE DEF cp
  <2>5. ASSUME StoreAccepts(o), NEW img, img.cp = cp, img.status = "running", img.pause = {}
        PROVE  MayBecome([ok EXCEPT !.cp = cp], img, child')
    <3> DEFINE f == [ok EXCEPT !.cp = cp]
    <3>1. /\ f \in Attempts /\ f.phase = e.phase /\ f.status = e.status /\ f.pause = e.pause
          /\ f.pc = e.pc /\ f.open /\ f.tasks = e.tasks /\ f.poisoned = e.poisoned /\ f.cp = cp
      BY <1>2, <2>4 DEF Attempts, Checkpoint
    <3> HIDE DEF f
    <3>2. Covers(cp, cp) /\ stored.cp = e.cp
      BY <1>3, <1>5, <2>5, AcceptedIsInStep, CoversIsPreorder DEF e
    <3>3. IsInStep(f, img)
      BY <1>2, <1>3, <2>5, <3>1, <3>2 DEF IsInStep, Covers, Reading, Active, AttemptIsSound, ReplayIsSound
    <3>4. KnowsTheStore(f, img)
      <4>1. \A c \in f.pause \cap Children : Names(img.cp, c)
        BY <1>2, <2>4, <2>5, <3>1, <3>2, NamesStay DEF AttemptIsSound, KnowsTheStore
      <4> QED BY <1>3, <2>5, <3>1, <3>2, <4>1 DEF KnowsTheStore, Covers, Reading
    <3>5. \A s \in Agents : TaskIsSound(f, child, s)
      <4>1. \A s \in Agents : e.tasks[s].st = "new"
        BY <1>3, <1>4 DEF TaskIsSound
      <4> QED BY <3>1, <4>1 DEF TaskIsSound
    <3>6. \A j \in Items : \A x \in StepsOf(j) : j < f.pc => Done(f.cp, x)
      BY <1>3, <2>4, <3>1, ProgramIsTyped DEF Covers, CoversAt, Recorded, Done
    <3>7. f.pc <= Len(Program) /\ Program[f.pc].kind = "parallel"
          /\ f.cp.steps[Program[f.pc].id].status = "running"
      BY <1>3, <2>1, <2>4, <3>1, ProgramIsTyped
    <3>8. ReplayIsSound(f, child)
      BY <1>2, <1>3, <1>5, <3>1, <3>5, <3>6, <3>7 DEF ReplayIsSound, AttemptIsSound
    <3>9. UndoingIsSound(f)
      BY <1>3, <3>1 DEF UndoingIsSound
    <3>10. AttemptIsSound(f, img, child)
      BY <2>4, <3>1, <3>3, <3>4, <3>8, <3>9 DEF AttemptIsSound
    <3> QED BY <1>1, <2>4, <3>1, <3>10 DEF MayBecome, f
  <2>6. QueuedCommit(o, cp, ok, Failing(exec[o], "error"))
    BY <1>1, <1>8 DEF cp, e, id
  <2> HIDE DEF ok
  <2> QED BY <1>1, <1>2, <1>3, <2>4, <2>5, <2>6, ItemCommits DEF e
<1> QED BY <1>7, <1>8

-----------------------------------------------------------------------------
(* Pauses, joins and the end of the program.                               *)

LEMMA OverFollows ==
  ASSUME NEW e \in Attempts, Checkpoint(e.cp), NEW s, NEW t, NEW k,
         AttemptIsSound(e, s, k), Covers(s.cp, t.cp)
  PROVE  MayBecome(Over(e), t, k)
<1> DEFINE f == Over(e)
<1>1. f \in Attempts /\ f.cp = e.cp /\ AttemptIsSound(f, s, k)
  BY OverIsSound
<1>2. f.phase = "over"
  BY DEF Over, Attempts
<1> HIDE DEF f
<1>3. SoundCheckpoint(f.cp, k) /\ KnowsTheStore(f, s)
  BY <1>1 DEF AttemptIsSound
<1>4. f.poisoned \/ Covers(f.cp, t.cp)
  <2>1. f.poisoned \/ Covers(f.cp, s.cp)
    BY <1>2, <1>3 DEF KnowsTheStore, Covers
  <2> QED BY <2>1, CoversIsPreorder
<1>5. \A c \in f.pause \cap Children : Names(t.cp, c)
  BY <1>3, NamesStay DEF KnowsTheStore
<1>6. IsInStep(f, t) /\ f.phase \in Later
  BY <1>2 DEF IsInStep, Later
<1>7. AttemptIsSound(f, t, k)
  BY <1>3, <1>4, <1>5, <1>6, LaterIsSound
<1> QED BY <1>1, <1>7 DEF MayBecome, f

LEMMA EndedMayStore ==
  ASSUME EngineInv, NEW o, NEW status \in Terminal,
         status = "completed" => \A id \in StepIds : Done(stored.cp, id)
  PROVE  MayStore(FreedBy(o, Ended(status)), child)
<1> DEFINE s == Ended(status)
           t == FreedBy(o, s)
<1>1. stored \in Stores /\ Checkpoint(stored.cp) /\ StoreIsSound(stored, child)
      /\ ChildrenAreSound(stored, child)
  BY StateOfType DEF EngineInv
<1>2. s \in Stores /\ s.cp = stored.cp /\ s.status = status /\ s.pause = {}
  BY <1>1 DEF Ended, Stores, Statuses
<1> HIDE DEF s
<1>3. t \in Stores /\ t.cp = stored.cp /\ t.status = status /\ t.pause = {}
  BY <1>2, FreedIsSame DEF Same
<1> HIDE DEF t
<1>4. StoreIsSound(t, child)
  BY <1>1, <1>3 DEF StoreIsSound, Terminal
<1>5. ChildrenAreSound(t, child) /\ Covers(stored.cp, t.cp)
  BY <1>1, <1>3, CoversIsPreorder DEF ChildrenAreSound
<1> QED BY <1>1, <1>3, <1>4, <1>5 DEF MayStore, t, s

LEMMA EndingKeepsInv ==
  ASSUME EngineInv, NEW o \in Owners, NEW status \in Terminal, EndingCommit(o, Ended(status)),
         UNCHANGED <<child, crashes>>,
         StoreAccepts(o) /\ status = "completed" => \A id \in StepIds : Done(stored.cp, id)
  PROVE  EngineInv'
<1> DEFINE img == FreedBy(o, Ended(status))
           ok == Over(exec[o])
<1>1. ReleasingCommit(o, img, ok)
  BY DEF EndingCommit
<1>2. ASSUME StoreAccepts(o) PROVE MayStore(img, child) /\ MayBecome(ok, img, child)
  <2>1. MayStore(img, child)
    BY <1>2, EndedMayStore
  <2>2. exec[o] \in Attempts /\ Checkpoint(exec[o].cp) /\ AttemptIsSound(exec[o], stored, child)
    BY AttemptOfInv
  <2> HIDE DEF img
  <2>3. Covers(stored.cp, img.cp)
    BY <2>1 DEF MayStore
  <2> QED BY <2>1, <2>2, <2>3, OverFollows
<1> HIDE DEF img, ok
<1> QED BY <1>1, <1>2, ReleasingKeepsInv

(* An attempt that nobody advances any more. *)
LEMMA StuckIsSound ==
  ASSUME EngineInv, NEW o \in Owners, exec[o].phase \in Advancing,
         exec[o].poisoned \/ Covers(exec[o].cp, stored.cp),
         NEW f \in Attempts, f.phase = "stuck", f.cp = exec[o].cp, f.pause = exec[o].pause,
         f.fresh = exec[o].fresh, f.poisoned = exec[o].poisoned, NEW l, MayLeave(l)
  PROVE  MayBecome(f, stored, l)
<1> DEFINE e == exec[o]
<1>1. /\ Checkpoint(e.cp) /\ SoundCheckpoint(e.cp, l) /\ IsInStep(e, stored) /\ KnowsTheStore(e, stored)
  BY AttemptOfInv
<1> HIDE DEF e
<1>2. IsInStep(f, stored)
  BY <1>1 DEF IsInStep, Reading, Advancing, e
<1>3. AttemptIsSound(f, stored, l)
  BY <1>1, <1>2, LaterIsSound DEF KnowsTheStore, Later, e
<1> QED BY <1>1, <1>3 DEF MayBecome, e

LEMMA PauseKeepsInv ==
  ASSUME EngineInv, NEW o \in Owners, Working(o), NEW cp, NEW pause, PauseRun(o, cp, pause),
         UNCHANGED <<child, crashes>>, pause \in SUBSET (StepIds \X (0 .. MaxChildren)),
         ~exec[o].poisoned =>
           /\ Checkpoint(cp) /\ Covers(exec[o].cp, cp) /\ SoundCheckpoint(cp, child)
           /\ \A w \in WaitIds : WaitFor(w) \in pause => Recorded(cp, w) /\ ~Done(cp, w)
           /\ \A c \in pause \cap Children : Names(cp, c)
  PROVE  EngineInv'
<1> DEFINE e == exec[o]
           img == [stored EXCEPT !.status = "paused", !.pause = pause, !.cp = cp]
           freed == [img EXCEPT !.holder = NoOwner]
           stuck == [e EXCEPT !.phase = "stuck", !.status = "paused"]
           fail == Failing(e, "conflict")
<1>1. /\ e \in Attempts /\ Checkpoint(e.cp) /\ AttemptIsSound(e, stored, child) /\ KnowsTheStore(e, stored)
      /\ e.phase = "working" /\ e.phase \in Advancing /\ MayLeave(child')
      /\ SoundCheckpoint(e.cp, child') /\ Covers(e.cp, e.cp)
      /\ child' = child
  BY AttemptOfInv, CurrentItem, ChildrenMayStay, CoversIsPreorder
<1>2. failures \in Nat /\ crashes' \in Nat /\ stored \in Stores /\ Same(stored, stored)
  BY StateOfType, StoredIsSame DEF EngineInv
<1>3. CASE e.poisoned
  <2>1. exec' = [exec EXCEPT ![o] = Failing(e, "error")] /\ UNCHANGED <<stored, failures>>
    BY <1>3 DEF PauseRun
  <2> QED BY <1>1, <2>1, ItemFails
<1>4. CASE ~e.poisoned
  <2>1. /\ Checkpoint(cp) /\ Covers(e.cp, cp) /\ SoundCheckpoint(cp, child)
        /\ (\A w \in WaitIds : WaitFor(w) \in pause => Recorded(cp, w) /\ ~Done(cp, w))
        /\ \A c \in pause \cap Children : Names(cp, c)
    BY <1>4
  <2>2. ASSUME StoreAccepts(o), NEW s \in {img, freed} PROVE MayStore(s, child')
    <3>1. s \in Stores /\ s.cp = cp /\ s.status = "paused" /\ s.pause = pause
      BY <1>2, <2>1, <2>2 DEF Stores, Checkpoint, Statuses, Active
    <3> HIDE DEF img, freed
    <3>2. Covers(stored.cp, cp)
      BY <1>1, <1>4, <2>1, <2>2, AcceptedIsInStep DEF Advancing
    <3>3. StoreIsSound(s, child)
      BY <2>1, <3>1 DEF StoreIsSound
    <3>4. ChildrenAreSound(s, child)
      BY <1>1, <3>1, <3>2, NamesStay DEF MayLeave, ChildrenAreSound
    <3> QED BY <1>1, <2>1, <3>1, <3>2, <3>3, <3>4 DEF MayStore
  <2>3. /\ stuck \in Attempts /\ stuck.phase = "stuck" /\ stuck.cp = e.cp /\ stuck.pause = e.pause
        /\ stuck.fresh = e.fresh /\ stuck.poisoned = e.poisoned
    BY <1>1 DEF Attempts, Phases, Statuses, Active
  <2>4. MayBecome(stuck, stored, child')
    <3>1. e.poisoned \/ Covers(e.cp, stored.cp)
      BY <1>1, <1>4 DEF KnowsTheStore, Covers
    <3> HIDE DEF stuck
    <3> QED BY <1>1, <2>3, <3>1, StuckIsSound
  <2>5. /\ fail \in Attempts /\ fail.phase = "failing" /\ fail.cp = e.cp /\ fail.pause = e.pause
        /\ fail.fresh = e.fresh /\ fail.poisoned = e.poisoned
    <3> HIDE DEF e
    <3> QED BY <1>1, FailingFields
  <2>6. MayBecome(Refused(fail), stored, child')
    <3> HIDE DEF fail
    <3>1. MayBecome(fail, stored, child')
      BY <1>1, <1>4, <2>5, RejectionIsSound
    <3> QED BY <3>1, RefusedIsSound DEF MayBecome
  <2>7. CASE StoreAccepts(o) /\ stored' = freed /\ exec' = Installed(o, Over(e)) /\ UNCHANGED failures
    <3>1. MayStore(stored', child')
      BY <2>2, <2>7
    <3>2. MayBecome(Over(e), stored', child')
      <4>1. Covers(stored.cp, stored'.cp)
        BY <3>1 DEF MayStore
      <4> HIDE DEF e
      <4> QED BY <1>1, <4>1, OverFollows
    <3> QED BY <1>1, <1>2, <2>7, <3>1, <3>2, AttemptInstalls
  <2>8. CASE exec' = [exec EXCEPT ![o] = Refused(fail)] /\ UNCHANGED <<stored, failures>>
    BY <1>1, <1>2, <2>6, <2>8, AttemptMoves
  <2>9. CASE exec' = [exec EXCEPT ![o].phase = "stuck", ![o].status = "paused"] /\ UNCHANGED stored
             /\ failures' = failures + 1
    <3>1. exec' = [exec EXCEPT ![o] = stuck]
      <4>1. exec \in [Owners -> Attempts]
        BY StateOfType DEF EngineInv
      <4> QED BY <2>9, <4>1
    <3>2. failures' \in Nat /\ stored' \in Stores /\ Same(stored, stored')
      BY <1>2, <2>9
    <3> HIDE DEF stuck
    <3> QED BY <1>1, <1>2, <2>4, <3>1, <3>2, AttemptMoves
  <2>10. CASE /\ StoreAccepts(o) /\ stored' = img /\ failures' = failures + 1
              /\ exec' = Installed(o, [e EXCEPT !.phase = "stuck", !.status = "paused", !.fresh = FALSE])
    <3> DEFINE f == [stuck EXCEPT !.fresh = FALSE]
    <3>1. exec' = Installed(o, f)
      BY <2>10, <1>1 DEF Attempts
    <3>2. MayStore(stored', child') /\ failures' \in Nat
      BY <1>2, <2>2, <2>10
    <3> HIDE DEF stuck
    <3>3. stuck \in Attempts /\ AttemptIsSound(stuck, stored, child') /\ Checkpoint(stuck.cp)
          /\ Covers(stored.cp, stored'.cp)
      BY <2>4, <3>2 DEF MayBecome, MayStore
    <3>4. MayBecome(f, stored', child')
      BY <3>3, StaleIsSound DEF MayBecome
    <3> HIDE DEF f
    <3> QED BY <1>1, <1>2, <3>1, <3>2, <3>4, AttemptInstalls
  <2>11. \/ StoreAccepts(o) /\ stored' = freed /\ exec' = Installed(o, Over(e)) /\ UNCHANGED failures
         \/ exec' = [exec EXCEPT ![o] = Refused(fail)] /\ UNCHANGED <<stored, failures>>
         \/ exec' = [exec EXCEPT ![o].phase = "stuck", ![o].status = "paused"] /\ UNCHANGED stored
             /\ failures' = failures + 1
         \/ /\ StoreAccepts(o) /\ stored' = img /\ failures' = failures + 1
            /\ exec' = Installed(o, [e EXCEPT !.phase = "stuck", !.status = "paused", !.fresh = FALSE])
    BY <1>4 DEF PauseRun
  <2> QED BY <2>7, <2>8, <2>9, <2>10, <2>11
<1> QED BY <1>3, <1>4

(* The children that paused are on record. *)
LEMMA PausedTasksAreNamed ==
  ASSUME EngineInv, NEW o \in Owners, Working(o)
  PROVE  /\ PausedTasks(exec[o]) \in SUBSET (StepIds \X (0 .. MaxChildren))
         /\ PausedTasks(exec[o]) \subseteq Children
         /\ \A c \in PausedTasks(exec[o]) : Names(exec[o].cp, c)
         /\ \A w \in WaitIds : WaitFor(w) \notin PausedTasks(exec[o])
<1>1. /\ exec[o].phase = "working" /\ Tasks(exec[o].pc) \subseteq Agents /\ MaxChildren \in Nat
      /\ Agents \subseteq StepIds
  BY CurrentItem, ProgramIsTyped, ConstantsAssumption
<1>2. \A c \in PausedTasks(exec[o]) : c \in Children /\ Names(exec[o].cp, c)
  <2> SUFFICES ASSUME NEW s \in Tasks(exec[o].pc), exec[o].tasks[s].st = "paused"
               PROVE  exec[o].tasks[s].child \in Children /\ Names(exec[o].cp, exec[o].tasks[s].child)
    BY DEF PausedTasks, In
  <2>1. s \in Agents
    BY <1>1
  <2>2. LET c == exec[o].tasks[s].child IN
        /\ c \in Children /\ c[1] = s
        /\ exec[o].cp.steps[s].status = "running" /\ exec[o].cp.steps[s].child = c
    BY <1>1, <2>1, ChildAtWork
  <2> QED BY <2>2 DEF Names, Recorded
<1>3. \A c \in Children : c \in StepIds \X (0 .. MaxChildren) /\ c[2] # 0
  BY <1>1 DEF Children
<1>4. \A w : WaitFor(w)[2] = 0
  BY DEF WaitFor
<1> QED BY <1>2, <1>3, <1>4

LEMMA JoinAgentKeepsInv ==
  ASSUME EngineInv, NEW o \in Owners, JoinAgent(o) PROVE EngineInv'
<1> DEFINE e == exec[o]
<1>1. /\ Working(o) /\ Item(o).kind = "agent" /\ UNCHANGED <<child, crashes>>
      /\ \/ /\ In(e, e.pc, {"done"}) = Tasks(e.pc)
            /\ exec' = [exec EXCEPT ![o] = NextItem(e)] /\ UNCHANGED <<stored, failures>>
         \/ PauseRun(o, e.cp, PausedTasks(e))
         \/ \E kind \in {"error", "conflict"} :
              exec' = [exec EXCEPT ![o] = Failing(e, kind)] /\ UNCHANGED <<stored, failures>>
  BY DEF JoinAgent, Joined, Untouched
<1>2. /\ e \in Attempts /\ Checkpoint(e.cp) /\ SoundCheckpoint(e.cp, child) /\ MayLeave(child')
      /\ Covers(e.cp, e.cp)
  BY <1>1, AttemptOfInv, ChildrenMayStay, CoversIsPreorder
<1>3. /\ e.phase = "working" /\ e.phase \in Advancing /\ e.pc \in Items /\ Tasks(e.pc) \subseteq Agents
      /\ Program[e.pc].kind = "agent"
      /\ \A s \in Agents : TaskIsSound(e, child, s)
  BY <1>1, CurrentItem
<1>4. CASE /\ In(e, e.pc, {"done"}) = Tasks(e.pc)
           /\ exec' = [exec EXCEPT ![o] = NextItem(e)] /\ UNCHANGED <<stored, failures>>
  <2> DEFINE f == NextItem(e)
  <2>1. \A s \in Tasks(e.pc) : e.tasks[s].st = "done" /\ Done(e.cp, s)
    BY <1>3, <1>4 DEF In, TaskIsSound
  <2>2. ~e.poisoned
    BY <1>1, <2>1, CurrentItem
  <2>3. \A x \in StepsOf(e.pc) : Done(e.cp, x)
    BY <1>3, <2>1, ConstantsAssumption DEF StepsOf
  <2> HIDE DEF e
  <2>4. /\ f \in Attempts /\ f.phase = e.phase /\ f.status = e.status /\ f.cp = e.cp
        /\ f.pause = e.pause /\ f.fresh = e.fresh /\ f.poisoned = e.poisoned /\ f.pc = e.pc + 1
        /\ ~f.open /\ f.tasks = [s \in Agents |-> NoTask]
    BY <1>2, <1>3, NextItemFields
  <2>5. exec' = [exec EXCEPT ![o] = f]
    BY <1>4
  <2> HIDE DEF f
  <2> QED BY <1>1, <1>4, <2>2, <2>3, <2>4, <2>5, ItemAdvances DEF e
<1>5. CASE PauseRun(o, e.cp, PausedTasks(e))
  BY <1>1, <1>2, <1>5, PausedTasksAreNamed, PauseKeepsInv
<1>6. ASSUME NEW kind \in {"error", "conflict"}, exec' = [exec EXCEPT ![o] = Failing(e, kind)],
             UNCHANGED <<stored, failures>>
      PROVE  EngineInv'
  BY <1>1, <1>2, <1>3, <1>6, ItemFails
<1> QED BY <1>1, <1>4, <1>5, <1>6

(* The commit that completes the item. *)
LEMMA LastPutKeepsInv ==
  ASSUME EngineInv, NEW o \in Owners, Working(o), UNCHANGED <<child, crashes>>,
         NEW id, id = Program[exec[o].pc].id, id \notin Agents,
         ~exec[o].poisoned => \A s \in Tasks(exec[o].pc) : Done(exec[o].cp, s),
         NEW ok \in Attempts, ok.phase = exec[o].phase, ok.status = exec[o].status,
         ok.pause = exec[o].pause, ok.pc = exec[o].pc + 1, ~ok.open,
         ok.tasks = [a \in Agents |-> NoTask], ok.poisoned = exec[o].poisoned,
         QueuedCommit(o, Put(exec[o].cp, id, CompletedRecord(id, NoChild)), ok, Failing(exec[o], "error"))
  PROVE  EngineInv'
<1> DEFINE e == exec[o]
           record == CompletedRecord(id, NoChild)
           cp == Put(e.cp, id, record)
<1>1. /\ e \in Attempts /\ Checkpoint(e.cp) /\ SoundCheckpoint(e.cp, child) /\ MayLeave(child')
  BY AttemptOfInv, ChildrenMayStay
<1>2. /\ e.phase = "working" /\ e.pc \in Items /\ id \in StepIds /\ id \in StepsOf(e.pc)
      /\ \A j \in Items : \A x \in StepsOf(j) : j < e.pc => Done(e.cp, x)
  BY CurrentItem
<1>3. record \in Records /\ record.status = "completed" /\ record.child = NoChild
  BY DEF CompletedRecord, Records
<1> HIDE DEF record, e
<1>4. ASSUME ~e.poisoned
      PROVE  /\ Checkpoint(cp) /\ SoundCheckpoint(cp, child) /\ Covers(e.cp, cp)
             /\ \A x \in StepsOf(e.pc) : Done(cp, x)
  <2>1. MayPut(e.cp, child, e.pc, id, record)
    BY <1>1, <1>2, <1>3, <1>4 DEF MayPut, SoundCheckpoint, e
  <2>2. /\ Checkpoint(cp) /\ SoundCheckpoint(cp, child) /\ Covers(e.cp, cp)
        /\ \A x \in StepIds : cp.steps[x] = IF x = id THEN record ELSE e.cp.steps[x]
    BY <1>1, <2>1, PutIsSound DEF Covers
  <2>3. ASSUME NEW x \in StepsOf(e.pc) PROVE Done(cp, x)
    <3>1. x \in StepIds
      BY <1>2, ProgramIsTyped
    <3>2. CASE x = id
      BY <1>3, <2>2, <3>1, <3>2 DEF Done
    <3>3. CASE x # id
      <4>1. x \in Tasks(e.pc)
        BY <3>3 DEF StepsOf, e
      <4> QED BY <1>4, <4>1, <3>1, <3>3, <2>2 DEF Done, e
    <3> QED BY <3>2, <3>3
  <2> QED BY <2>2, <2>3
<1>5. QueuedCommit(o, cp, ok, Failing(exec[o], "error"))
  BY DEF cp, e, record
<1> HIDE DEF cp
<1>6. ASSUME ~e.poisoned, StoreAccepts(o), NEW img, img.cp = cp, img.status = "running", img.pause = {}
      PROVE  MayBecome([ok EXCEPT !.cp = cp], img, child')
  BY <1>4, <1>6, NextAfterCommit DEF e
<1> QED BY <1>1, <1>2, <1>4, <1>5, <1>6, ItemCommits DEF e

LEMMA JoinParallelKeepsInv ==
  ASSUME EngineInv, NEW o \in Owners, JoinParallel(o) PROVE EngineInv'
<1> DEFINE e == exec[o]
           id == Item(o).id
           errors == In(e, e.pc, {"failed", "conflict"})
<1>1. PICK kind \in {"error", "conflict"} :
      /\ Working(o) /\ Item(o).kind = "parallel" /\ Joined(o) /\ UNCHANGED crashes
      /\ \/ /\ child' = CancelAll(PausedTasks(e))
            /\ QueuedCommit(o, e.cp, Failing(e, kind), Failing(e, kind))
         \/ PauseRun(o, e.cp, PausedTasks(e)) /\ UNCHANGED child
         \/ /\ errors = {} /\ PausedTasks(e) = {} /\ UNCHANGED child
            /\ QueuedCommit(o, Put(e.cp, id, CompletedRecord(id, NoChild)),
                            NextItem(Handled(e, id)), Failing(e, "error"))
  BY DEF JoinParallel, Joined, Untouched
<1>2. /\ e \in Attempts /\ Checkpoint(e.cp) /\ SoundCheckpoint(e.cp, child) /\ MayLeave(child)
      /\ Covers(e.cp, e.cp)
  BY <1>1, AttemptOfInv, ChildrenMayStay, CoversIsPreorder
<1>3. /\ e.phase = "working" /\ e.phase \in Advancing /\ e.pc \in Items /\ Tasks(e.pc) \subseteq Agents
      /\ Program[e.pc].kind = "parallel" /\ id = Program[e.pc].id /\ id \in StepIds
      /\ \A s \in Agents : TaskIsSound(e, child, s)
  BY <1>1, CurrentItem
<1>4. CASE /\ child' = CancelAll(PausedTasks(e))
           /\ QueuedCommit(o, e.cp, Failing(e, kind), Failing(e, kind))
  <2> DEFINE ok == Failing(e, kind)
  <2>1. MayLeave(child')
    BY <1>4, CancelAllIsSound
  <2>2. SoundCheckpoint(e.cp, child')
    BY <2>1, AttemptOfInv
  <2>3. /\ ok \in Attempts /\ ok.phase = "failing" /\ ok.cp = e.cp /\ ok.pause = e.pause
        /\ ok.fresh = e.fresh /\ ok.poisoned = e.poisoned
    <3> HIDE DEF e
    <3> QED BY <1>2, FailingFields
  <2> HIDE DEF ok
  <2>4. ASSUME ~e.poisoned, StoreAccepts(o), NEW img, img.cp = e.cp, img.status = "running", img.pause = {}
        PROVE  MayBecome([ok EXCEPT !.cp = e.cp], img, child')
    <3> DEFINE f == [ok EXCEPT !.cp = e.cp]
    <3>1. f \in Attempts /\ f.phase = ok.phase /\ f.cp = e.cp /\ f.pause = ok.pause /\ f.poisoned = ok.poisoned
      BY <1>2, <2>3 DEF Attempts
    <3> HIDE DEF f
    <3>2. f.phase \in Advancing \ {"working"} /\ UndoingIsSound(f)
      BY <2>3, <3>1 DEF Advancing, UndoingIsSound
    <3>3. MayBecome(f, img, child')
      BY <1>2, <1>3, <2>2, <2>3, <2>4, <3>1, <3>2, AcceptanceIsSound
    <3> QED BY <3>3 DEF f
  <2>5. QueuedCommit(o, e.cp, ok, Failing(exec[o], kind))
    BY <1>4 DEF ok
  <2> QED BY <1>1, <1>2, <1>3, <2>1, <2>2, <2>4, <2>5, ItemCommits
<1>5. CASE PauseRun(o, e.cp, PausedTasks(e)) /\ UNCHANGED child
  BY <1>1, <1>2, <1>5, PausedTasksAreNamed, PauseKeepsInv
<1>6. CASE /\ errors = {} /\ PausedTasks(e) = {} /\ UNCHANGED child
           /\ QueuedCommit(o, Put(e.cp, id, CompletedRecord(id, NoChild)),
                           NextItem(Handled(e, id)), Failing(e, "error"))
  <2> DEFINE h == Handled(e, id)
             ok == NextItem(h)
  <2>1. \A s \in Tasks(e.pc) : Done(e.cp, s)
    <3> SUFFICES ASSUME NEW s \in Tasks(e.pc) PROVE Done(e.cp, s)
      OBVIOUS
    <3>1. e.tasks[s].st \in {"done", "paused", "failed", "conflict"}
      BY <1>1 DEF Joined, In
    <3>2. e.tasks[s].st = "done"
      BY <1>6, <3>1 DEF PausedTasks, In
    <3> QED BY <1>3, <3>2 DEF TaskIsSound
  <2>2. id \notin Agents
    BY <1>3, ConstantsAssumption
  <2>3. QueuedCommit(o, Put(e.cp, id, CompletedRecord(id, NoChild)), ok, Failing(exec[o], "error"))
    BY <1>6
  <2> HIDE DEF e, id
  <2>4. /\ h \in Attempts /\ h.phase = e.phase /\ h.status = e.status
        /\ h.pause = e.pause /\ h.poisoned = e.poisoned /\ h.pc = e.pc
    BY <1>2, <1>3, HandledFields
  <2> HIDE DEF h
  <2>5. /\ ok \in Attempts /\ ok.phase = h.phase /\ ok.status = h.status
        /\ ok.pause = h.pause /\ ok.poisoned = h.poisoned /\ ok.pc = h.pc + 1
        /\ ~ok.open /\ ok.tasks = [s \in Agents |-> NoTask]
    BY <1>3, <2>4, NextItemFields
  <2> HIDE DEF ok
  <2> QED BY <1>1, <1>3, <1>6, <2>1, <2>2, <2>3, <2>4, <2>5, LastPutKeepsInv DEF e
<1> QED BY <1>1, <1>4, <1>5, <1>6

LEMMA WaitKeepsInv ==
  ASSUME EngineInv, NEW o \in Owners, Wait(o) PROVE EngineInv'
<1> DEFINE e == exec[o]
           id == Item(o).id
           ok == NextItem(e)
<1>1. /\ Working(o) /\ Item(o).kind \in {"timer", "event"} /\ UNCHANGED <<child, crashes>>
      /\ \/ /\ e.cp.steps[id].status = "completed"
            /\ exec' = [exec EXCEPT ![o] = ok] /\ UNCHANGED <<stored, failures>>
         \/ QueuedCommit(o, Put(e.cp, id, CompletedRecord(id, NoChild)), ok, Failing(e, "error"))
         \/ /\ e.cp.steps[id].status # "completed"
            /\ PauseRun(o, Put(e.cp, id, RunningRecord(NoChild)), {WaitFor(id)})
  BY DEF Wait, Untouched
<1>2. /\ e \in Attempts /\ Checkpoint(e.cp) /\ SoundCheckpoint(e.cp, child) /\ MayLeave(child')
  BY <1>1, AttemptOfInv, ChildrenMayStay
<1>3. /\ e.phase = "working" /\ e.pc \in Items /\ id = Program[e.pc].id /\ id \in StepIds
      /\ id \in StepsOf(e.pc) /\ Program[e.pc].kind \in {"timer", "event"}
      /\ \A j \in Items : \A x \in StepsOf(j) : j < e.pc => Done(e.cp, x)
  BY <1>1, CurrentItem
<1>4. id \notin Agents /\ Tasks(e.pc) = {}
  BY <1>3, ConstantsAssumption
<1>5. ~e.poisoned
  BY <1>1, <1>4, CurrentItem
<1>6. /\ ok \in Attempts /\ ok.phase = e.phase /\ ok.status = e.status /\ ok.cp = e.cp
      /\ ok.pause = e.pause /\ ok.fresh = e.fresh /\ ok.poisoned = e.poisoned /\ ok.pc = e.pc + 1
      /\ ~ok.open /\ ok.tasks = [s \in Agents |-> NoTask]
  <2> HIDE DEF e
  <2> QED BY <1>2, <1>3, NextItemFields
<1> HIDE DEF ok
<1>7. CASE e.cp.steps[id].status = "completed" /\ exec' = [exec EXCEPT ![o] = ok]
           /\ UNCHANGED <<stored, failures>>
  <2>1. \A x \in StepsOf(e.pc) : Done(e.cp, x)
    BY <1>3, <1>4, <1>7 DEF StepsOf, Done
  <2> QED BY <1>1, <1>5, <1>6, <1>7, <2>1, ItemAdvances
<1>8. CASE QueuedCommit(o, Put(e.cp, id, CompletedRecord(id, NoChild)), ok, Failing(e, "error"))
  <2>1. \A s \in Tasks(e.pc) : Done(e.cp, s)
    BY <1>4
  <2> HIDE DEF id
  <2> QED BY <1>1, <1>3, <1>4, <1>6, <1>8, <2>1, LastPutKeepsInv
<1>9. CASE /\ e.cp.steps[id].status # "completed"
           /\ PauseRun(o, Put(e.cp, id, RunningRecord(NoChild)), {WaitFor(id)})
  <2> DEFINE record == RunningRecord(NoChild)
             cp == Put(e.cp, id, record)
             pause == {WaitFor(id)}
  <2>1. record \in Records /\ record.status = "running" /\ record.comp = "none" /\ record.child = NoChild
    BY DEF RunningRecord, Records
  <2> HIDE DEF record
  <2>2. Recorded(e.cp, id) => e.cp.steps[id].child = NoChild
    BY <1>2, <1>3, <1>4 DEF SoundCheckpoint
  <2>3. MayPut(e.cp, child, e.pc, id, record)
    BY <1>3, <1>4, <1>9, <2>1, <2>2 DEF MayPut, Done
  <2> HIDE DEF e, id
  <2>4. /\ Checkpoint(cp) /\ SoundCheckpoint(cp, child) /\ Covers(e.cp, cp)
        /\ \A x \in StepIds : cp.steps[x] = IF x = id THEN record ELSE e.cp.steps[x]
    BY <1>2, <2>3, PutIsSound DEF Covers
  <2>5. PauseRun(o, cp, pause)
    BY <1>9 DEF record
  <2> HIDE DEF cp
  <2>6. MaxChildren \in Nat /\ WaitFor(id) \in StepIds \X (0 .. MaxChildren)
        /\ WaitFor(id) \notin Children
    BY <1>3, ConstantsAssumption DEF WaitFor, Children
  <2>7. pause \in SUBSET (StepIds \X (0 .. MaxChildren)) /\ pause \cap Children = {}
    BY <2>6
  <2>8. \A w \in WaitIds : WaitFor(w) \in pause => w = id
    BY DEF WaitFor
  <2>9. Recorded(cp, id) /\ ~Done(cp, id)
    BY <1>3, <2>1, <2>4 DEF Recorded, Done
  <2> HIDE DEF pause
  <2> QED BY <1>1, <2>4, <2>5, <2>7, <2>8, <2>9, PauseKeepsInv DEF e
<1> QED BY <1>1, <1>7, <1>8, <1>9

LEMMA FinishKeepsInv ==
  ASSUME EngineInv, NEW o \in Owners, Finish(o) PROVE EngineInv'
<1> DEFINE e == exec[o]
<1>1. /\ e.phase = "working" /\ e.pc > Len(Program) /\ UNCHANGED <<child, crashes>>
      /\ IF e.aborted
         THEN CommitStep(o, FreedBy(o, Ended("completed")), Over(e),
                         [e EXCEPT !.phase = "stuck", !.status = "completed"])
         ELSE EndingCommit(o, Ended("completed"))
  BY DEF Finish, Untouched
<1>2. /\ e \in Attempts /\ Checkpoint(e.cp) /\ AttemptIsSound(e, stored, child) /\ ReplayIsSound(e, child)
      /\ KnowsTheStore(e, stored) /\ MayLeave(child') /\ e.phase \in Advancing
  BY <1>1, AttemptOfInv, ChildrenMayStay DEF Advancing
<1>3. ~e.poisoned
  <2>1. e.pc \in Nat /\ Len(Program) \in Nat
    BY <1>2, ProgramIsTyped DEF Attempts
  <2> QED BY <1>1, <1>2, <2>1 DEF ReplayIsSound, TaskIsSound
<1>4. \A id \in StepIds : Done(e.cp, id)
  <2> SUFFICES ASSUME NEW id \in StepIds PROVE Done(e.cp, id)
    OBVIOUS
  <2>1. PICK i \in Items : id \in StepsOf(i)
    BY ProgramIsTyped
  <2>2. i < e.pc
    BY <1>1, <1>2, ProgramIsTyped DEF Attempts
  <2> QED BY <1>1, <1>2, <2>1, <2>2 DEF ReplayIsSound
<1>5. StoreAccepts(o) => \A id \in StepIds : Done(stored.cp, id)
  BY <1>1, <1>3, <1>4, AcceptedIsInStep
<1>6. "completed" \in Terminal
  BY DEF Terminal
<1>7. CASE e.aborted
  <2> DEFINE img == FreedBy(o, Ended("completed"))
             ok == Over(e)
             thrown == [e EXCEPT !.phase = "stuck", !.status = "completed"]
  <2>1. CommitStep(o, img, ok, thrown)
    BY <1>1, <1>7
  <2>2. /\ thrown \in Attempts /\ thrown.phase = "stuck" /\ thrown.cp = e.cp /\ thrown.pause = e.pause
        /\ thrown.fresh = e.fresh /\ thrown.poisoned = e.poisoned
    BY <1>2 DEF Attempts, Phases, Statuses, Terminal
  <2> HIDE DEF thrown
  <2>3. MayBecome(thrown, stored, child')
    BY <1>2, <1>3, <2>2, StuckIsSound DEF KnowsTheStore, Covers
  <2>4. ASSUME StoreAccepts(o) PROVE MayStore(img, child') /\ MayBecome(ok, img, child')
    <3>1. MayStore(img, child)
      BY <1>5, <1>6, <2>4, EndedMayStore
    <3> HIDE DEF img, e
    <3>2. Covers(stored.cp, img.cp)
      BY <3>1 DEF MayStore
    <3>3. MayBecome(ok, img, child)
      BY <1>2, <3>2, OverFollows
    <3> QED BY <1>1, <3>1, <3>3
  <2> HIDE DEF img, ok
  <2> QED BY <1>1, <1>2, <2>1, <2>3, <2>4, CommitKeepsInv
<1>8. CASE ~e.aborted
  BY <1>1, <1>5, <1>6, <1>8, EndingKeepsInv
<1> QED BY <1>7, <1>8

-----------------------------------------------------------------------------
(* Readings and resolutions.                                               *)

Blank(e) == e.pc = 1 /\ ~e.open /\ e.tasks = [a \in Agents |-> NoTask]

IsOpened(f, e, cp) ==
  /\ f \in Attempts /\ f.phase = "working" /\ f.status = "running" /\ f.pause = {}
  /\ f.cp = cp /\ f.fresh = e.fresh /\ f.poisoned = e.poisoned
  /\ f.pc = e.pc /\ f.open = e.open /\ f.cursor = e.cursor /\ f.tasks = e.tasks
  /\ f.undoing = e.undoing /\ f.handlers = e.handlers /\ f.lost = e.lost
  /\ f.aborted = e.aborted /\ f.error = e.error

LEMMA OpenedFields ==
  ASSUME NEW e \in Attempts, NEW cp \in Checkpoints
  PROVE  IsOpened(Opened(e, cp, FALSE), e, cp) /\ IsOpened(Opened(e, cp, TRUE), e, cp)
<1> DEFINE g == [e EXCEPT !.phase = "working", !.status = "running"]
           h(r) == [g EXCEPT !.pause = {}, !.cp = cp, !.recovering = r]
<1>1. "working" \in Phases /\ "running" \in Statuses /\ {} \in SUBSET (StepIds \X (0 .. MaxChildren))
  BY DEF Phases, Advancing, Statuses, Active
<1>2. /\ g \in Attempts /\ g.phase = "working" /\ g.status = "running"
      /\ g.fresh = e.fresh /\ g.poisoned = e.poisoned
      /\ g.pc = e.pc /\ g.open = e.open /\ g.cursor = e.cursor /\ g.tasks = e.tasks
      /\ g.undoing = e.undoing /\ g.handlers = e.handlers /\ g.lost = e.lost
      /\ g.aborted = e.aborted /\ g.error = e.error
  BY <1>1 DEF Attempts
<1>3. Opened(e, cp, FALSE) = h(FALSE) /\ Opened(e, cp, TRUE) = h(TRUE)
  BY DEF Opened, Attempts
<1> HIDE DEF g
<1>4. IsOpened(h(FALSE), g, cp)
  BY <1>1, <1>2 DEF Attempts, IsOpened
<1>5. IsOpened(h(TRUE), g, cp)
  BY <1>1, <1>2 DEF Attempts, IsOpened
<1> HIDE DEF h
<1> QED BY <1>2, <1>3, <1>4, <1>5 DEF IsOpened

(* The replay begins, with what the store has. *)
LEMMA ReplayBegins ==
  ASSUME NEW f \in Attempts, f.phase = "working", f.status = "running", f.pause = {}, ~f.poisoned,
         Blank(f), NEW s, s.cp = f.cp, s.status = "running",
         NEW k, Checkpoint(f.cp), SoundCheckpoint(f.cp, k)
  PROVE  MayBecome(f, s, k)
<1>1. Covers(f.cp, f.cp)
  BY CoversIsPreorder
<1>2. IsInStep(f, s)
  BY <1>1 DEF IsInStep, Covers, Active, Reading
<1>3. KnowsTheStore(f, s)
  BY <1>1 DEF KnowsTheStore, Covers, Reading
<1>4. \A i \in Items : ~(i < f.pc)
  BY ProgramIsTyped DEF Blank
<1>5. \A a \in Agents : f.tasks[a] = NoTask
  BY DEF Blank
<1>6. \A a \in Agents : TaskIsSound(f, k, a)
  BY <1>5 DEF TaskIsSound, NoTask
<1>7. ReplayIsSound(f, k)
  BY <1>4, <1>6 DEF ReplayIsSound, Blank
<1>8. UndoingIsSound(f)
  BY DEF UndoingIsSound
<1> QED BY <1>2, <1>3, <1>7, <1>8 DEF MayBecome, AttemptIsSound

(* An attempt goes on reading. *)
LEMMA ReadingIsSound ==
  ASSUME EngineInv, NEW o \in Owners, exec[o].phase \in Reading,
         NEW f \in Attempts, f.phase \in Reading, f.cp = exec[o].cp, f.pause = exec[o].pause,
         f.status = exec[o].status, f.fresh = exec[o].fresh, f.poisoned = exec[o].poisoned,
         f.pc = exec[o].pc, f.open = exec[o].open, f.tasks = exec[o].tasks,
         f.phase = "child" => f.cursor \in Children /\ Names(stored.cp, f.cursor),
         f.phase \in {"child", "answered", "expired"} => f.status = "paused",
         NEW l, MayLeave(l)
  PROVE  MayBecome(f, stored, l)
<1> DEFINE e == exec[o]
<1>1. /\ Checkpoint(e.cp) /\ SoundCheckpoint(e.cp, l) /\ IsInStep(e, stored) /\ KnowsTheStore(e, stored)
  BY AttemptOfInv
<1>2. Reading \cap (Advancing \cup {"stuck", "idle", "dead", "over"}) = {} /\ "working" \in Advancing
      /\ {"compensating", "undoing", "undone", "undoFailed"} \subseteq Advancing
  BY DEF Reading, Advancing
<1> HIDE DEF e
<1>3. IsInStep(f, stored)
  BY <1>1, <1>2 DEF IsInStep, e
<1>4. KnowsTheStore(f, stored)
  BY <1>1, <1>2 DEF KnowsTheStore, e
<1>5. ReplayIsSound(f, l) /\ UndoingIsSound(f)
  BY <1>2 DEF ReplayIsSound, UndoingIsSound
<1> QED BY <1>1, <1>3, <1>4, <1>5 DEF MayBecome, AttemptIsSound, e

LEMMA StartKeepsInv ==
  ASSUME EngineInv, NEW o \in Owners, Start(o) PROVE EngineInv'
<1> DEFINE e == exec[o]
           g == Opened(e, EmptyCheckpoint, FALSE)
           f == [g EXCEPT !.fresh = TRUE]
<1>1. /\ e.phase = "idle" /\ stored.status = "none" /\ UNCHANGED <<child, failures, crashes>>
      /\ stored' = [stored EXCEPT !.status = "running", !.holder = o]
      /\ exec' = [exec EXCEPT ![o] = f]
  BY DEF Start, Untouched
<1>2. /\ e \in Attempts /\ KnowsTheStore(e, stored) /\ StoreIsSound(stored, child) /\ stored \in Stores
      /\ ChildrenAreSound(stored, child) /\ Checkpoint(EmptyCheckpoint)
      /\ SoundCheckpoint(EmptyCheckpoint, child) /\ MayLeave(child')
  BY <1>1, AttemptOfInv, StateOfType, EmptyIsSound, ChildrenMayStay DEF EngineInv
<1>3. ~e.poisoned /\ Blank(e)
  BY <1>1, <1>2 DEF KnowsTheStore, Blank
<1>4. /\ g \in Attempts /\ g.phase = "working" /\ g.status = "running" /\ g.pause = {}
      /\ g.cp = EmptyCheckpoint /\ g.poisoned = e.poisoned /\ g.pc = e.pc /\ g.open = e.open
      /\ g.tasks = e.tasks
  <2>1. EmptyCheckpoint \in Checkpoints
    BY <1>2 DEF Checkpoint
  <2> HIDE DEF e
  <2>2. IsOpened(g, e, EmptyCheckpoint)
    BY <1>2, <2>1, OpenedFields
  <2> HIDE DEF g
  <2> QED BY <2>2 DEF IsOpened
<1> HIDE DEF g
<1>5. /\ f \in Attempts /\ f.phase = "working" /\ f.status = "running" /\ f.pause = {}
      /\ f.cp = EmptyCheckpoint /\ ~f.poisoned /\ Blank(f)
  BY <1>3, <1>4 DEF Attempts, Blank
<1> HIDE DEF f
<1>6. /\ stored'.status = "running" /\ stored'.cp = EmptyCheckpoint /\ stored'.pause = stored.pause
      /\ stored' \in Stores /\ stored.cp = EmptyCheckpoint
  <2>1. stored.cp = EmptyCheckpoint
    BY <1>1, <1>2 DEF StoreIsSound
  <2> QED BY <1>1, <1>2, <2>1 DEF Stores, Statuses, Active
<1>7. MayBecome(f, stored', child')
  BY <1>1, <1>2, <1>5, <1>6, ReplayBegins
<1>8. StoreIsSound(stored', child') /\ ChildrenAreSound(stored', child') /\ Covers(stored.cp, stored'.cp)
  BY <1>1, <1>2, <1>6, CoversIsPreorder DEF StoreIsSound, ChildrenAreSound
<1>9. failures' \in Nat /\ crashes' \in Nat /\ stored.status \notin Active
  BY <1>1, StateOfType DEF EngineInv, Active
<1> QED BY <1>1, <1>2, <1>5, <1>6, <1>7, <1>8, <1>9, OneAttemptMoves DEF MayBecome, MayLeave

LEMMA ReadKeepsInv ==
  ASSUME EngineInv, NEW o \in Owners, NEW phase \in {"read", "cancelRead"}, Read(o, phase)
  PROVE  EngineInv'
<1> DEFINE e == exec[o]
           f == [e EXCEPT !.phase = phase, !.status = stored.status,
                 !.cp = stored.cp, !.pause = stored.pause, !.fresh = TRUE]
<1>1. /\ e.phase = "idle" /\ stored.status \in Active /\ UNCHANGED <<stored, child, failures, crashes>>
      /\ exec' = [exec EXCEPT ![o] = f]
  BY DEF Read, Untouched
<1>2. /\ e \in Attempts /\ KnowsTheStore(e, stored) /\ StoreIsSound(stored, child) /\ stored \in Stores
      /\ Checkpoint(stored.cp) /\ MayLeave(child')
  BY <1>1, AttemptOfInv, StateOfType, ChildrenMayStay DEF EngineInv
<1>3. ~e.poisoned /\ Blank(e)
  BY <1>1, <1>2 DEF KnowsTheStore, Blank
<1>4. /\ f \in Attempts /\ f.phase = phase /\ f.status = stored.status /\ f.cp = stored.cp
      /\ f.pause = stored.pause /\ ~f.poisoned /\ Blank(f)
  BY <1>2, <1>3 DEF Attempts, Stores, Blank, Phases
<1> HIDE DEF f
<1>5. f.phase \in Reading /\ f.phase \notin {"child", "answered", "expired", "stuck", "working"} \cup Advancing
  BY <1>4 DEF Reading, Advancing
<1>6. Covers(stored.cp, stored.cp)
  BY CoversIsPreorder
<1>7. IsInStep(f, stored)
  BY <1>1, <1>4, <1>5, <1>6 DEF IsInStep, Covers
<1>8. KnowsTheStore(f, stored)
  BY <1>2, <1>4, <1>5, <1>6 DEF KnowsTheStore, Covers, StoreIsSound, Blank
<1>9. ReplayIsSound(f, child) /\ UndoingIsSound(f) /\ SoundCheckpoint(f.cp, child)
  BY <1>2, <1>4, <1>5 DEF ReplayIsSound, UndoingIsSound, StoreIsSound, Advancing
<1>10. MayBecome(f, stored, child')
  BY <1>1, <1>2, <1>4, <1>7, <1>8, <1>9 DEF MayBecome, AttemptIsSound
<1>11. failures' \in Nat /\ crashes' \in Nat /\ stored' \in Stores /\ Same(stored, stored')
  BY <1>1, StateOfType, StoredIsSame DEF EngineInv
<1> QED BY <1>1, <1>2, <1>10, <1>11, AttemptMoves

LEMMA AcquireKeepsInv ==
  ASSUME EngineInv, NEW o \in Owners, NEW from \in {"read", "cancelRead"},
         NEW to \in {"leased", "cancelLeased"}, Acquire(o, from, to)
  PROVE  EngineInv'
<1> DEFINE e == exec[o]
           f == [e EXCEPT !.phase = to]
<1>1. e.phase = from /\ UNCHANGED <<child, failures, crashes>>
  BY DEF Acquire, Untouched
<1>2. /\ e \in Attempts /\ Checkpoint(e.cp) /\ AttemptIsSound(e, stored, child) /\ stored \in Stores
      /\ MayLeave(child') /\ failures' \in Nat /\ crashes' \in Nat /\ exec \in [Owners -> Attempts]
  BY <1>1, AttemptOfInv, StateOfType, ChildrenMayStay DEF EngineInv
<1>3. CASE stored' = [stored EXCEPT !.holder = o] /\ exec' = [exec EXCEPT ![o].phase = to]
  <2>1. exec' = [exec EXCEPT ![o] = f]
    BY <1>2, <1>3
  <2>2. /\ f \in Attempts /\ f.phase = to /\ f.status = e.status /\ f.cp = e.cp
        /\ f.pause = e.pause /\ f.poisoned = e.poisoned /\ f.fresh = e.fresh /\ f.pc = e.pc
        /\ f.open = e.open /\ f.tasks = e.tasks
    BY <1>2 DEF Attempts, Phases
  <2> HIDE DEF f
  <2>3. MayBecome(f, stored, child')
    BY <1>1, <1>2, <2>2, ReadingIsSound DEF Reading
  <2>4. stored' \in Stores /\ Same(stored, stored')
    BY <1>2, <1>3 DEF Stores, Same
  <2> QED BY <1>2, <2>1, <2>3, <2>4, AttemptMoves
<1>4. CASE exec' = [exec EXCEPT ![o] = Over(e)] /\ UNCHANGED stored
  <2>1. MayBecome(Over(e), stored, child')
    <3>1. Covers(stored.cp, stored.cp) /\ child' = child
      BY <1>1, CoversIsPreorder
    <3> HIDE DEF e
    <3> QED BY <1>2, <3>1, OverFollows
  <2> QED BY <1>2, <1>4, <2>1, StoredIsSame, AttemptMoves
<1> QED BY <1>3, <1>4 DEF Acquire

(* The first commit of a recovery or a resolution. *)
LEMMA OpeningKeepsInv ==
  ASSUME EngineInv, NEW o \in Owners, exec[o].phase \in Reading, NEW img, NEW cp, NEW ok,
         ok \in {Opened(exec[o], cp, FALSE), Opened(exec[o], cp, TRUE)},
         ReleasingCommit(o, img, ok), UNCHANGED <<child, crashes>>,
         StoreAccepts(o) => MayStore(img, child) /\ img.cp = cp /\ img.status = "running"
  PROVE  EngineInv'
<1> DEFINE e == exec[o]
<1>1. e \in Attempts /\ ~e.poisoned /\ Blank(e)
  BY AttemptOfInv DEF KnowsTheStore, Blank
<1>2. ASSUME StoreAccepts(o) PROVE MayBecome(ok, img, child)
  <2>1. Checkpoint(cp) /\ cp \in Checkpoints /\ SoundCheckpoint(cp, child) /\ img.cp = cp
        /\ img.status = "running"
    BY <1>2 DEF MayStore, StoreIsSound, Checkpoint
  <2>2. IsOpened(ok, e, cp)
    BY <1>1, <2>1, OpenedFields
  <2> HIDE DEF e
  <2> QED BY <1>1, <2>1, <2>2, ReplayBegins DEF IsOpened, Blank
<1> QED BY <1>2, ReleasingKeepsInv

LEMMA RecoverKeepsInv ==
  ASSUME EngineInv, NEW o \in Owners, Recover(o) PROVE EngineInv'
<1> DEFINE img == [stored EXCEPT !.cp = exec[o].cp]
           ok == Opened(exec[o], exec[o].cp, TRUE)
<1>1. /\ exec[o].phase = "leased" /\ exec[o].status = "running" /\ UNCHANGED <<child, crashes>>
      /\ ReleasingCommit(o, img, ok)
  BY DEF Recover, Untouched
<1>2. exec[o].phase \in Reading /\ exec[o].phase \notin {"idle", "dead", "over"}
  BY <1>1 DEF Reading
<1>3. ASSUME StoreAccepts(o)
      PROVE  MayStore(img, child) /\ img.cp = exec[o].cp /\ img.status = "running"
  <2>1. exec[o].cp = stored.cp /\ stored.status = "running"
    BY <1>1, <1>2, <1>3, AcceptedIsInStep
  <2>2. stored \in Stores /\ MayLeave(child)
    BY StateOfType, ChildrenMayStay DEF EngineInv
  <2>3. img \in Stores /\ Same(stored, img) /\ img.status = stored.status
    BY <2>1, <2>2 DEF Stores, Same
  <2> HIDE DEF img
  <2> QED BY <2>1, <2>2, <2>3, StoreMayStay DEF Same
<1> HIDE DEF img
<1> QED BY <1>1, <1>2, <1>3, OpeningKeepsInv

LEMMA CommitResumedKeepsInv ==
  ASSUME EngineInv, NEW o \in Owners, CommitResumed(o) PROVE EngineInv'
<1> DEFINE img == [stored EXCEPT !.status = "running", !.pause = {}, !.cp = exec[o].cp]
           ok == Opened(exec[o], exec[o].cp, FALSE)
<1>1. /\ exec[o].phase = "answered" /\ UNCHANGED <<child, crashes>>
      /\ EndingCommit(o, Ended("cancelled")) \/ ReleasingCommit(o, img, ok)
  BY DEF CommitResumed, Untouched
<1>2. exec[o].phase \in Reading /\ exec[o].phase \notin {"idle", "dead", "over"}
  BY <1>1 DEF Reading
<1>3. ASSUME StoreAccepts(o)
      PROVE  MayStore(img, child) /\ img.cp = exec[o].cp /\ img.status = "running"
  <2>1. exec[o].cp = stored.cp
    BY <1>2, <1>3, AcceptedIsInStep
  <2>2. stored \in Stores /\ Checkpoint(stored.cp) /\ MayLeave(child) /\ SoundCheckpoint(stored.cp, child)
    BY StateOfType, ChildrenMayStay DEF EngineInv, StoreIsSound
  <2>3. img \in Stores /\ img.cp = stored.cp /\ img.status = "running" /\ img.pause = {}
    BY <2>1, <2>2 DEF Stores, Statuses, Active
  <2> HIDE DEF img
  <2> QED BY <2>1, <2>2, <2>3, CoversIsPreorder, RunningMayStore
<1> HIDE DEF img
<1>4. "cancelled" \in Terminal
  BY DEF Terminal
<1>5. CASE EndingCommit(o, Ended("cancelled"))
  BY <1>1, <1>4, <1>5, EndingKeepsInv
<1>6. CASE ReleasingCommit(o, img, ok)
  BY <1>1, <1>2, <1>3, <1>6, OpeningKeepsInv
<1> QED BY <1>1, <1>5, <1>6

LEMMA ResumeWaitKeepsInv ==
  ASSUME EngineInv, NEW o \in Owners, NEW w \in StepIds, ResumeWait(o, w) PROVE EngineInv'
<1> DEFINE e == exec[o]
           record == CompletedRecord(w, NoChild)
           cp == Put(e.cp, w, record)
           img == [stored EXCEPT !.status = "running", !.pause = {}, !.cp = cp]
           ok == Opened(e, cp, FALSE)
<1>1. /\ e.phase = "leased" /\ e.status = "paused" /\ w \in WaitIds /\ e.pause = {WaitFor(w)}
      /\ UNCHANGED <<child, crashes>> /\ ReleasingCommit(o, img, ok)
  BY DEF ResumeWait, Untouched
<1>2. exec[o].phase \in Reading /\ exec[o].phase \notin {"idle", "dead", "over"}
  BY <1>1 DEF Reading
<1>3. record \in Records /\ record.status = "completed" /\ record.child = NoChild
  BY DEF CompletedRecord, Records
<1> HIDE DEF record
<1>4. PICK i \in Items : Program[i].kind \in {"timer", "event"} /\ w = Program[i].id
  BY <1>1 DEF WaitIds
<1>5. w \notin Agents /\ Tasks(i) = {} /\ w \in StepsOf(i) /\ w \in StepIds
  BY <1>4, ProgramIsTyped, ConstantsAssumption DEF StepsOf
<1>6. ASSUME StoreAccepts(o)
      PROVE  MayStore(img, child) /\ img.cp = cp /\ img.status = "running"
  <2>1. e.cp = stored.cp /\ stored.status = "paused" /\ stored.pause = {WaitFor(w)}
    BY <1>1, <1>2, <1>6, AcceptedIsInStep
  <2>2. stored \in Stores /\ Checkpoint(stored.cp) /\ MayLeave(child) /\ SoundCheckpoint(stored.cp, child)
        /\ StoreIsSound(stored, child)
    BY StateOfType, ChildrenMayStay DEF EngineInv, StoreIsSound
  <2>3. Recorded(stored.cp, w) /\ ~Done(stored.cp, w)
    BY <1>1, <2>1, <2>2 DEF StoreIsSound
  <2> HIDE DEF e
  <2>4. \A j \in Items : \A x \in StepsOf(j) : j < i => Done(stored.cp, x)
    BY <1>5, <2>2, <2>3 DEF SoundCheckpoint
  <2>5. stored.cp.steps[w].child = NoChild
    BY <1>5, <2>2 DEF SoundCheckpoint
  <2>6. MayPut(stored.cp, child, i, w, record)
    BY <1>3, <1>4, <1>5, <2>3, <2>4, <2>5 DEF MayPut
  <2>7. Checkpoint(cp) /\ SoundCheckpoint(cp, child) /\ Covers(stored.cp, cp)
    BY <2>1, <2>2, <2>6, PutIsSound DEF Covers
  <2> HIDE DEF cp
  <2>8. img \in Stores /\ img.cp = cp /\ img.status = "running" /\ img.pause = {}
    BY <2>2, <2>7 DEF Stores, Statuses, Active, Checkpoint
  <2> HIDE DEF img
  <2> QED BY <2>2, <2>7, <2>8, RunningMayStore
<1> HIDE DEF img, cp
<1> QED BY <1>1, <1>2, <1>6, OpeningKeepsInv

(* A child that the store has on record was created. *)
LEMMA NamedIsReal ==
  ASSUME EngineInv, NEW c \in Children, Names(stored.cp, c)
  PROVE  child[c].status # "none"
<1>1. c[1] \in Agents
  BY DEF Children
<1> QED BY <1>1 DEF EngineInv, StoreIsSound, SoundCheckpoint, ChildIsReal, Names

LEMMA ResumeChildKeepsInv ==
  ASSUME EngineInv, NEW o \in Owners, NEW c \in Children, ResumeChild(o, c) PROVE EngineInv'
<1> DEFINE e == exec[o]
           g == [e EXCEPT !.phase = "child"]
           f == [g EXCEPT !.cursor = c]
           k == [child EXCEPT ![c].status = "running"]
           l == [k EXCEPT ![c].worker = o]
<1>1. /\ e.phase = "leased" /\ e.status = "paused" /\ c \in e.pause /\ UNCHANGED <<failures, crashes>>
      /\ \/ /\ child[c].status = "paused" /\ child' = l /\ UNCHANGED stored
            /\ exec' = [exec EXCEPT ![o].phase = "child", ![o].cursor = c]
         \/ Release(o) /\ UNCHANGED child
  BY DEF ResumeChild, Untouched
<1>2. /\ e \in Attempts /\ KnowsTheStore(e, stored) /\ stored \in Stores /\ exec \in [Owners -> Attempts]
      /\ failures' \in Nat /\ crashes' \in Nat /\ child \in ChildStates
      /\ e.phase \in Reading
  BY <1>1, AttemptOfInv, StateOfType DEF EngineInv, Reading
<1>3. CASE /\ child[c].status = "paused" /\ child' = l /\ UNCHANGED stored
           /\ exec' = [exec EXCEPT ![o].phase = "child", ![o].cursor = c]
  <2>1. exec' = [exec EXCEPT ![o] = f]
    BY <1>2, <1>3
  <2>2. /\ g \in Attempts /\ g.phase = "child" /\ g.status = e.status /\ g.cp = e.cp
        /\ g.pause = e.pause /\ g.poisoned = e.poisoned /\ g.fresh = e.fresh /\ g.pc = e.pc
        /\ g.open = e.open /\ g.tasks = e.tasks
    BY <1>2 DEF Attempts, Phases
  <2> HIDE DEF g
  <2>3. /\ f \in Attempts /\ f.phase = "child" /\ f.status = e.status /\ f.cp = e.cp
        /\ f.pause = e.pause /\ f.poisoned = e.poisoned /\ f.fresh = e.fresh /\ f.pc = e.pc
        /\ f.open = e.open /\ f.tasks = e.tasks /\ f.cursor = c
    BY <2>2 DEF Attempts
  <2> HIDE DEF f
  <2>4. Names(stored.cp, c)
    BY <1>1, <1>2 DEF KnowsTheStore
  <2>5. k \in ChildStates /\ k[c].status = "running" /\ \A d \in Children \ {c} : k[d] = child[d]
    BY <1>2 DEF ChildStates, Statuses, Active
  <2> HIDE DEF k
  <2>6. l \in ChildStates /\ l[c].status = k[c].status /\ \A d \in Children \ {c} : l[d] = k[d]
    BY <2>5 DEF ChildStates
  <2> HIDE DEF l
  <2>7. \A d \in Children : child[d].worker # NoOwner => child[d].status = "running"
    BY DEF EngineInv, ChildrenAreSound
  <2>8. MayLeave(child')
    BY <1>3, <2>5, <2>6, <2>7, ChildrenMove
  <2>9. MayBecome(f, stored, child')
    <3> HIDE DEF e
    <3>1. "child" \in Reading
      BY DEF Reading
    <3> QED BY <1>1, <1>2, <2>3, <2>4, <2>8, <3>1, ReadingIsSound DEF e
  <2> QED BY <1>2, <1>3, <2>1, <2>8, <2>9, StoredIsSame, AttemptMoves
<1>4. CASE Release(o) /\ UNCHANGED child
  BY <1>1, <1>2, <1>4, ChildrenMayStay, ReleaseKeepsInv
<1> QED BY <1>1, <1>3, <1>4

(* The child that a resolution works on. *)
LEMMA CurrentChild ==
  ASSUME EngineInv, NEW o \in Owners, exec[o].phase = "child"
  PROVE  LET c == exec[o].cursor IN
         /\ c \in Children /\ Names(stored.cp, c) /\ child[c].status # "none"
         /\ exec[o].status = "paused"
         /\ child[c].worker = o => child[c].status = "running"
<1>1. /\ exec[o].cursor \in Children /\ Names(stored.cp, exec[o].cursor) /\ exec[o].status = "paused"
  BY AttemptOfInv DEF KnowsTheStore
<1>2. \A d \in Children : child[d].worker # NoOwner => child[d].status = "running"
  BY DEF EngineInv, ChildrenAreSound
<1>3. o # NoOwner
  BY ConstantsAssumption
<1> QED BY <1>1, <1>2, <1>3, NamedIsReal

(* The resolution goes on with the answer of the child. *)
LEMMA AnsweredKeepsInv ==
  ASSUME EngineInv, NEW o \in Owners, exec[o].phase = "child", NEW to \in {"answered", "expired"},
         exec' = [exec EXCEPT ![o].phase = to], UNCHANGED <<stored, failures, crashes>>, MayLeave(child')
  PROVE  EngineInv'
<1> DEFINE e == exec[o]
           f == [e EXCEPT !.phase = to]
<1>1. /\ e \in Attempts /\ e.status = "paused" /\ exec \in [Owners -> Attempts]
      /\ failures' \in Nat /\ crashes' \in Nat
  BY AttemptOfInv, CurrentChild, StateOfType DEF EngineInv
<1>2. exec' = [exec EXCEPT ![o] = f]
  BY <1>1
<1>3. /\ f \in Attempts /\ f.phase = to /\ f.status = e.status /\ f.cp = e.cp
      /\ f.pause = e.pause /\ f.poisoned = e.poisoned /\ f.fresh = e.fresh /\ f.pc = e.pc
      /\ f.open = e.open /\ f.tasks = e.tasks
  BY <1>1 DEF Attempts, Phases
<1> HIDE DEF f
<1>4. e.phase \in Reading /\ to \in Reading /\ to # "child"
  BY DEF Reading
<1>5. MayBecome(f, stored, child')
  <2> HIDE DEF e
  <2> QED BY <1>1, <1>3, <1>4, ReadingIsSound DEF e
<1> QED BY <1>1, <1>2, <1>5, StoredIsSame, AttemptMoves

LEMMA ResumedChildEndsKeepsInv ==
  ASSUME EngineInv, NEW o \in Owners, NEW status \in Terminal \cup Active, ResumedChildEnds(o, status)
  PROVE  EngineInv'
<1> DEFINE c == exec[o].cursor
<1>1. /\ exec[o].phase = "child" /\ child' = ChildEnded(c, status)
      /\ UNCHANGED <<failures, crashes>>
      /\ ChildMayEnd(c, o, status) \/ (status = "cancelled" /\ child[c].worker = o)
      /\ \/ Release(o)
         \/ exec' = [exec EXCEPT ![o].phase = "answered"] /\ UNCHANGED stored
  BY DEF ResumedChildEnds
<1>2. c \in Children /\ Names(stored.cp, c) /\ child[c].status = "running"
  BY <1>1, CurrentChild DEF ChildMayEnd
<1>3. MayLeave(child')
  BY <1>1, <1>2, ChildMayEndIsSound
<1>4. failures' \in Nat
  BY <1>1, StateOfType DEF EngineInv
<1> QED BY <1>1, <1>3, <1>4, ReleaseKeepsInv, AnsweredKeepsInv

LEMMA ResumedChildExpiresKeepsInv ==
  ASSUME EngineInv, NEW o \in Owners, ResumedChildExpires(o) PROVE EngineInv'
<1> DEFINE c == exec[o].cursor
<1>1. /\ exec[o].phase = "child" /\ UNCHANGED <<failures, crashes>> /\ child[c].worker = o
      /\ \/ /\ child' = CancelAll(exec[o].pause)
            /\ exec' = [exec EXCEPT ![o].phase = "expired"] /\ UNCHANGED stored
         \/ child' = ChildEnded(c, "cancelled") /\ Release(o)
  BY DEF ResumedChildExpires, Untouched
<1>2. c \in Children /\ Names(stored.cp, c) /\ child[c].status = "running"
  BY <1>1, CurrentChild
<1>3. failures' \in Nat /\ "cancelled" \in Terminal
  BY <1>1, StateOfType DEF EngineInv, Terminal
<1>4. MayLeave(CancelAll(exec[o].pause)) /\ MayLeave(ChildEnded(c, "cancelled"))
  BY <1>2, <1>3, CancelAllIsSound, ChildMayEndIsSound
<1> QED BY <1>1, <1>3, <1>4, ReleaseKeepsInv, AnsweredKeepsInv

LEMMA CommitExpiredKeepsInv ==
  ASSUME EngineInv, NEW o \in Owners, NEW status \in Terminal \cup Active, CommitExpired(o, status)
  PROVE  EngineInv'
<1>1. /\ EndingCommit(o, Ended(status)) /\ UNCHANGED <<child, crashes>>
      /\ status \in Terminal /\ status # "completed"
  BY DEF CommitExpired, Untouched, Terminal
<1> QED BY <1>1, EndingKeepsInv

LEMMA ResumedChildConflictsKeepsInv ==
  ASSUME EngineInv, NEW o \in Owners, ResumedChildConflicts(o) PROVE EngineInv'
<1>1. /\ exec[o].phase = "child" /\ ChildLosesLease(exec[o].cursor, o) /\ Release(o) /\ UNCHANGED crashes
  BY DEF ResumedChildConflicts, Untouched
<1>2. exec[o].cursor \in Children /\ child[exec[o].cursor].status # "none"
  BY <1>1, CurrentChild
<1>3. MayLeave(child') /\ failures' \in Nat
  BY <1>1, <1>2, ChildLeaseIsSound
<1> QED BY <1>1, <1>3, ReleaseKeepsInv

-----------------------------------------------------------------------------
(* After the items.                                                        *)

(* An attempt that goes on, or stops, after the items. *)
LEMMA PhaseIsSound ==
  ASSUME EngineInv, NEW o \in Owners, exec[o].phase \notin {"idle", "dead", "over"},
         NEW f \in Attempts, f.cp = exec[o].cp, f.pause = exec[o].pause, f.fresh = exec[o].fresh,
         f.poisoned = exec[o].poisoned,
         f.phase \in (Advancing \ {"working"}) \cup {"stuck", "over", "cancelling"},
         f.phase \in Advancing \cup {"stuck"} => exec[o].phase \in Advancing \cup {"stuck"},
         UndoingIsSound(f), NEW l, MayLeave(l)
  PROVE  MayBecome(f, stored, l)
<1> DEFINE e == exec[o]
<1>1. /\ Checkpoint(e.cp) /\ SoundCheckpoint(e.cp, l) /\ IsInStep(e, stored) /\ KnowsTheStore(e, stored)
  BY AttemptOfInv
<1>2. f.phase \notin Reading \cup {"working", "idle", "dead"}
  BY DEF Advancing, Reading
<1> HIDE DEF e
<1>3. IsInStep(f, stored)
  BY <1>1, <1>2 DEF IsInStep, e
<1>4. KnowsTheStore(f, stored)
  BY <1>1, <1>2 DEF KnowsTheStore, e, Reading
<1>5. ReplayIsSound(f, l)
  BY <1>2 DEF ReplayIsSound
<1> QED BY <1>1, <1>3, <1>4, <1>5 DEF MayBecome, AttemptIsSound, e

LEMMA CancelChildrenKeepsInv ==
  ASSUME EngineInv, NEW o \in Owners, CancelChildren(o) PROVE EngineInv'
<1> DEFINE e == exec[o]
           cs == RunningChildren(e.cp)
           f == [e EXCEPT !.phase = "cancelling"]
<1>1. /\ e.phase \in {"failing", "cancelLeased"} /\ UNCHANGED <<failures, crashes>>
      /\ \/ /\ child' = CancelAll(cs) /\ UNCHANGED stored
            /\ exec' = [exec EXCEPT ![o].phase = "cancelling"]
         \/ Release(o) /\ UNCHANGED child
  BY DEF CancelChildren, Untouched
<1>2. /\ e \in Attempts /\ exec \in [Owners -> Attempts] /\ failures' \in Nat /\ crashes' \in Nat
  BY <1>1, AttemptOfInv, StateOfType DEF EngineInv
<1>3. CASE /\ child' = CancelAll(cs) /\ UNCHANGED stored
           /\ exec' = [exec EXCEPT ![o].phase = "cancelling"]
  <2>1. exec' = [exec EXCEPT ![o] = f]
    BY <1>2, <1>3
  <2>2. /\ f \in Attempts /\ f.phase = "cancelling" /\ f.cp = e.cp
        /\ f.pause = e.pause /\ f.poisoned = e.poisoned /\ f.fresh = e.fresh
    BY <1>2 DEF Attempts, Phases
  <2>3. MayLeave(child')
    BY <1>3, CancelAllIsSound
  <2> HIDE DEF f, e
  <2>4. UndoingIsSound(f) /\ f.phase \notin Advancing
    BY <2>2 DEF UndoingIsSound, Advancing
  <2>5. MayBecome(f, stored, child')
    BY <1>1, <2>2, <2>3, <2>4, PhaseIsSound DEF e
  <2> QED BY <1>2, <1>3, <2>1, <2>3, <2>5, StoredIsSame, AttemptMoves
<1>4. CASE Release(o) /\ UNCHANGED child
  BY <1>1, <1>2, <1>4, ChildrenMayStay, ReleaseKeepsInv
<1> QED BY <1>1, <1>3, <1>4

LEMMA CommitCancelledKeepsInv ==
  ASSUME EngineInv, NEW o \in Owners, CommitCancelled(o) PROVE EngineInv'
<1>1. EndingCommit(o, Ended("cancelled")) /\ UNCHANGED <<child, crashes>> /\ "cancelled" \in Terminal
  BY DEF CommitCancelled, Untouched, Terminal
<1> QED BY <1>1, EndingKeepsInv

LEMMA GiveUpKeepsInv ==
  ASSUME EngineInv, NEW o \in Owners, GiveUp(o) PROVE EngineInv'
<1>1. Release(o) /\ UNCHANGED <<child, failures, crashes>>
  BY DEF GiveUp, Untouched
<1>2. MayLeave(child') /\ failures' \in Nat
  BY <1>1, ChildrenMayStay, StateOfType DEF EngineInv
<1> QED BY <1>1, <1>2, ReleaseKeepsInv

(* Only the phase moves on. *)
LEMMA PhaseMoves ==
  ASSUME EngineInv, NEW o \in Owners, exec[o].phase \in Advancing,
         NEW phase \in {"failing", "compensating", "undone", "undoFailed", "committing", "stuck"},
         exec' = [exec EXCEPT ![o].phase = phase], UNCHANGED <<stored, child, failures, crashes>>,
         phase \in {"compensating", "undone"} => ~exec[o].poisoned,
         phase \in {"undone", "undoFailed"} /\ ~exec[o].poisoned =>
           exec[o].undoing \in StepIds /\ exec[o].cp.steps[exec[o].undoing].comp = "pending"
  PROVE  EngineInv'
<1> DEFINE e == exec[o]
           f == [e EXCEPT !.phase = phase]
<1>1. /\ e \in Attempts /\ exec \in [Owners -> Attempts] /\ failures' \in Nat /\ crashes' \in Nat
      /\ MayLeave(child')
  BY AttemptOfInv, StateOfType, ChildrenMayStay DEF EngineInv
<1>2. exec' = [exec EXCEPT ![o] = f]
  BY <1>1
<1>3. phase \in Phases /\ phase \in (Advancing \ {"working"}) \cup {"stuck"}
      /\ exec[o].phase \notin {"idle", "dead", "over"}
  BY DEF Phases, Advancing
<1>4. /\ f \in Attempts /\ f.phase = phase /\ f.cp = e.cp /\ f.undoing = e.undoing
      /\ f.pause = e.pause /\ f.poisoned = e.poisoned /\ f.fresh = e.fresh
  BY <1>1, <1>3 DEF Attempts
<1> HIDE DEF f
<1>5. UndoingIsSound(f)
  BY <1>4 DEF UndoingIsSound
<1>6. MayBecome(f, stored, child')
  BY <1>1, <1>3, <1>4, <1>5, PhaseIsSound
<1> QED BY <1>1, <1>2, <1>6, StoredIsSame, AttemptMoves

LEMMA AwaitKeepsInv ==
  ASSUME EngineInv, NEW o \in Owners, AwaitQueue(o) PROVE EngineInv'
<1>1. /\ exec[o].phase = "failing" /\ UNCHANGED <<stored, child, failures, crashes>>
      /\ exec' = [exec EXCEPT ![o].phase = IF exec[o].poisoned THEN "stuck" ELSE "compensating"]
  BY DEF AwaitQueue, Untouched
<1>2. exec[o].phase \in Advancing
  BY <1>1 DEF Advancing
<1>3. PICK phase \in {"stuck", "compensating"} :
        /\ exec' = [exec EXCEPT ![o].phase = phase]
        /\ phase = "compensating" => ~exec[o].poisoned
  BY <1>1
<1> QED BY <1>1, <1>2, <1>3, PhaseMoves

LEMMA RunHandlerKeepsInv ==
  ASSUME EngineInv, NEW o \in Owners, RunHandler(o) PROVE EngineInv'
<1>1. PICK phase \in {"undone", "undoFailed"} :
        exec' = [exec EXCEPT ![o].phase = phase]
  BY DEF RunHandler
<1>2. exec[o].phase = "undoing" /\ UNCHANGED <<stored, child, failures, crashes>>
  BY DEF RunHandler
<1>3. /\ exec[o].phase \in Advancing /\ ~exec[o].poisoned
      /\ exec[o].undoing \in StepIds /\ exec[o].cp.steps[exec[o].undoing].comp = "pending"
  BY <1>2, AttemptOfInv DEF Advancing, UndoingIsSound
<1> QED BY <1>1, <1>2, <1>3, PhaseMoves

(* A commit of the compensation. *)
LEMMA UndoingCommits ==
  ASSUME EngineInv, NEW o \in Owners, exec[o].phase \in Advancing, NEW cp,
         NEW ok \in Attempts, ok.phase \in {"undoing", "compensating", "committing"},
         ok.pause = exec[o].pause, ok.poisoned = exec[o].poisoned,
         NEW bad \in Attempts, bad.phase \in {"undoFailed", "committing"}, bad.cp = exec[o].cp,
         bad.pause = exec[o].pause, bad.fresh = exec[o].fresh,
         QueuedCommit(o, cp, ok, bad), UNCHANGED <<child, crashes>>,
         ~exec[o].poisoned =>
           /\ Checkpoint(cp) /\ Covers(exec[o].cp, cp) /\ SoundCheckpoint(cp, child)
           /\ ok.phase = "undoing" => ok.undoing \in StepIds /\ cp.steps[ok.undoing].comp = "pending"
  PROVE  EngineInv'
<1> DEFINE e == exec[o]
<1>1. /\ e \in Attempts /\ Checkpoint(e.cp) /\ SoundCheckpoint(e.cp, child) /\ Covers(e.cp, e.cp)
      /\ MayLeave(child') /\ child' = child
  BY AttemptOfInv, ChildrenMayStay, CoversIsPreorder
<1>2. MayBecome([bad EXCEPT !.poisoned = TRUE], stored, child')
  <2> DEFINE f == [bad EXCEPT !.poisoned = TRUE]
  <2>1. /\ f \in Attempts /\ f.phase = bad.phase /\ f.cp = bad.cp /\ f.pause = bad.pause
        /\ f.fresh = bad.fresh /\ f.poisoned
    BY DEF Attempts
  <2> HIDE DEF f
  <2>2. MayBecome(f, stored, child')
    BY <1>1, <2>1, RejectionIsSound
  <2> QED BY <2>2 DEF f
<1>3. ASSUME ~e.poisoned PROVE MayBecome([bad EXCEPT !.cp = cp, !.poisoned = TRUE], stored, child')
  <2> DEFINE f == [bad EXCEPT !.cp = cp, !.poisoned = TRUE]
  <2>1. Checkpoint(cp) /\ Covers(exec[o].cp, cp) /\ SoundCheckpoint(cp, child)
    BY <1>3
  <2>2. /\ f \in Attempts /\ f.phase = bad.phase /\ f.cp = cp /\ f.pause = bad.pause
        /\ f.fresh = bad.fresh /\ f.poisoned
    BY <2>1 DEF Attempts, Checkpoint
  <2> HIDE DEF f
  <2>3. MayBecome(f, stored, child')
    BY <1>1, <2>1, <2>2, RejectionIsSound
  <2> QED BY <2>3 DEF f
<1>4. ASSUME ~e.poisoned, StoreAccepts(o), NEW img, img.cp = cp, img.status = "running", img.pause = {}
      PROVE  MayBecome([ok EXCEPT !.cp = cp], img, child')
  <2> DEFINE f == [ok EXCEPT !.cp = cp]
  <2>1. /\ Checkpoint(cp) /\ Covers(exec[o].cp, cp) /\ SoundCheckpoint(cp, child)
        /\ ok.phase = "undoing" => ok.undoing \in StepIds /\ cp.steps[ok.undoing].comp = "pending"
    BY <1>4
  <2>2. /\ f \in Attempts /\ f.phase = ok.phase /\ f.cp = cp /\ f.pause = ok.pause
        /\ f.poisoned = ok.poisoned /\ f.undoing = ok.undoing
    BY <2>1 DEF Attempts, Checkpoint
  <2> HIDE DEF f
  <2>3. UndoingIsSound(f) /\ f.phase \in Advancing \ {"working"} /\ ~f.poisoned
    BY <1>4, <2>1, <2>2 DEF UndoingIsSound, Advancing
  <2>4. MayBecome(f, img, child')
    BY <1>1, <1>4, <2>1, <2>2, <2>3, AcceptanceIsSound
  <2> QED BY <2>4 DEF f
<1> QED BY <1>1, <1>2, <1>3, <1>4, QueuedKeepsInv

(* Among the pending steps there is a last one. *)
LEMMA NextUndoneIsPending ==
  ASSUME NEW cp, Checkpoint(cp), NEW k, SoundCheckpoint(cp, k), Pending(cp) # {}
  PROVE  NextUndone(cp) \in Pending(cp) /\ NextUndone(cp) \in StepIds
<1> DEFINE n == Len(cp.order)
           T == {n - Position(cp, id) : id \in Pending(cp)}
<1>1. cp.order \in Seq(StepIds) /\ n \in Nat /\ DOMAIN cp.order = 1 .. n
      /\ ToSet(cp.order) = {id \in StepIds : cp.steps[id].status # "none"}
  BY DEF Checkpoint, Checkpoints
<1>2. ASSUME NEW id \in Pending(cp) PROVE Position(cp, id) \in 1 .. n
  <2>1. id \in StepIds /\ cp.steps[id].status # "none"
    BY DEF Pending, SoundCheckpoint, Done
  <2>2. \E i \in 1 .. n : cp.order[i] = id
    BY <1>1, <2>1 DEF ToSet
  <2> QED BY <2>2 DEF Position
<1>3. T \subseteq Nat /\ T # {}
  BY <1>1, <1>2
<1>4. PICK x \in T : \A y \in T : x <= y
  BY <1>3, LeastNatural
<1>5. PICK id \in Pending(cp) : x = n - Position(cp, id)
  BY <1>4
<1>6. \A y \in Pending(cp) : Position(cp, y) <= Position(cp, id)
  <2> SUFFICES ASSUME NEW y \in Pending(cp) PROVE Position(cp, y) <= Position(cp, id)
    OBVIOUS
  <2>1. n - Position(cp, id) <= n - Position(cp, y)
    BY <1>4, <1>5
  <2> QED BY <1>1, <1>2, <2>1
<1>7. NextUndone(cp) \in Pending(cp)
  BY <1>6 DEF NextUndone
<1> QED BY <1>7 DEF Pending

LEMMA CompensateKeepsInv ==
  ASSUME EngineInv, NEW o \in Owners, Compensate(o) PROVE EngineInv'
<1> DEFINE e == exec[o]
           id == NextUndone(e.cp)
           broken == [e EXCEPT !.phase = "committing"]
           ok == [e EXCEPT !.phase = "undoing", !.undoing = id]
<1>1. /\ e.phase = "compensating" /\ UNCHANGED <<child, crashes>>
      /\ \/ /\ exec' = [exec EXCEPT ![o] = broken]
            /\ UNCHANGED <<stored, failures>>
         \/ /\ Pending(e.cp) # {} /\ QueuedCommit(o, e.cp, ok, broken)
  BY DEF Compensate, Untouched
<1>2. /\ e \in Attempts /\ Checkpoint(e.cp) /\ SoundCheckpoint(e.cp, child) /\ Covers(e.cp, e.cp)
      /\ e.phase \in Advancing
  BY <1>1, AttemptOfInv, CoversIsPreorder DEF Advancing
<1>3. CASE exec' = [exec EXCEPT ![o] = broken] /\ UNCHANGED <<stored, failures>>
  <2>1. exec' = [exec EXCEPT ![o].phase = "committing"]
    BY <1>3
  <2> QED BY <1>1, <1>2, <1>3, <2>1, PhaseMoves
<1>4. CASE Pending(e.cp) # {} /\ QueuedCommit(o, e.cp, ok, broken)
  <2>1. id \in Pending(e.cp) /\ id \in StepIds
    BY <1>2, <1>4, NextUndoneIsPending
  <2>2. e.cp.steps[id].comp = "pending"
    BY <2>1 DEF Pending
  <2> HIDE DEF e, id
  <2>3. /\ broken \in Attempts /\ broken.phase = "committing" /\ broken.cp = e.cp
        /\ broken.pause = e.pause /\ broken.fresh = e.fresh
    BY <1>2 DEF Attempts, Phases, Advancing
  <2>4. /\ ok \in Attempts /\ ok.phase = "undoing" /\ ok.undoing = id
        /\ ok.pause = e.pause /\ ok.poisoned = e.poisoned
    BY <1>2, <2>1 DEF Attempts, Phases, Advancing
  <2>5. QueuedCommit(o, e.cp, ok, broken)
    BY <1>4
  <2> HIDE DEF ok, broken
  <2> QED BY <1>1, <1>2, <2>1, <2>2, <2>3, <2>4, <2>5, UndoingCommits DEF e
<1> QED BY <1>1, <1>3, <1>4

LEMMA RecordHandlerKeepsInv ==
  ASSUME EngineInv, NEW o \in Owners, RecordHandler(o) PROVE EngineInv'
<1> DEFINE e == exec[o]
           cp(how) == [e.cp EXCEPT !.steps[e.undoing].comp = how]
           to(phase) == [e EXCEPT !.phase = phase]
<1>1. PICK how \in {"completed", "failed"}, next \in {"compensating", "committing"},
           other \in {"undoFailed", "committing"} :
        QueuedCommit(o, cp(how), to(next), to(other))
  BY DEF RecordHandler
<1>2. e.phase \in {"undone", "undoFailed"} /\ UNCHANGED <<child, crashes>>
  BY DEF RecordHandler, Untouched
<1>3. /\ e \in Attempts /\ Checkpoint(e.cp) /\ SoundCheckpoint(e.cp, child) /\ e.phase \in Advancing
      /\ UndoingIsSound(e)
  BY <1>2, AttemptOfInv DEF Advancing
<1> HIDE DEF e
<1>4. ASSUME NEW phase \in Phases
      PROVE  /\ to(phase) \in Attempts /\ to(phase).phase = phase /\ to(phase).cp = e.cp
             /\ to(phase).pause = e.pause /\ to(phase).fresh = e.fresh
             /\ to(phase).poisoned = e.poisoned
  BY <1>3 DEF Attempts
<1>5. next \in Phases /\ other \in Phases
  BY DEF Phases, Advancing
<1>6. ASSUME ~e.poisoned
      PROVE  Checkpoint(cp(how)) /\ Covers(e.cp, cp(how)) /\ SoundCheckpoint(cp(how), child)
  <2>1. e.undoing \in StepIds /\ e.cp.steps[e.undoing].comp = "pending"
    BY <1>2, <1>3, <1>6 DEF UndoingIsSound
  <2> QED BY <1>3, <2>1, MarkIsSound DEF Covers
<1> HIDE DEF cp, to
<1> QED BY <1>1, <1>2, <1>3, <1>4, <1>5, <1>6, UndoingCommits DEF e

LEMMA CommitFailedKeepsInv ==
  ASSUME EngineInv, NEW o \in Owners, CommitFailed(o) PROVE EngineInv'
<1> DEFINE e == exec[o]
           img == FreedBy(o, Ended("failed"))
           ok == Over(e)
           thrown == [e EXCEPT !.phase = "stuck", !.status = "failed"]
<1>1. e.phase = "committing" /\ CommitStep(o, img, ok, thrown) /\ UNCHANGED <<child, crashes>>
  BY DEF CommitFailed, Untouched
<1>2. /\ e \in Attempts /\ Checkpoint(e.cp) /\ AttemptIsSound(e, stored, child)
      /\ KnowsTheStore(e, stored) /\ MayLeave(child') /\ e.phase \in Advancing /\ e.phase # "working"
  BY <1>1, AttemptOfInv, ChildrenMayStay DEF Advancing
<1>3. /\ thrown \in Attempts /\ thrown.phase = "stuck" /\ thrown.cp = e.cp /\ thrown.pause = e.pause
      /\ thrown.fresh = e.fresh /\ thrown.poisoned = e.poisoned
  BY <1>2 DEF Attempts, Phases, Statuses, Terminal
<1> HIDE DEF thrown
<1>4. MayBecome(thrown, stored, child')
  BY <1>2, <1>3, StuckIsSound DEF KnowsTheStore, Covers
<1>5. ASSUME StoreAccepts(o) PROVE MayStore(img, child') /\ MayBecome(ok, img, child')
  <2>1. "failed" \in Terminal /\ "failed" # "completed"
    BY DEF Terminal
  <2>2. MayStore(img, child)
    BY <2>1, EndedMayStore
  <2> HIDE DEF img, e
  <2>3. Covers(stored.cp, img.cp)
    BY <2>2 DEF MayStore
  <2>4. MayBecome(ok, img, child)
    BY <1>2, <2>3, OverFollows
  <2> QED BY <1>1, <2>2, <2>4
<1> HIDE DEF img, ok
<1> QED BY <1>1, <1>2, <1>4, <1>5, CommitKeepsInv

-----------------------------------------------------------------------------
(* The environment.                                                        *)

LEMMA AbortKeepsInv ==
  ASSUME EngineInv, NEW o \in Owners, Abort(o) PROVE EngineInv'
<1> DEFINE e == exec[o]
           f == [e EXCEPT !.aborted = TRUE]
<1>1. /\ exec' = [exec EXCEPT ![o].aborted = TRUE] /\ UNCHANGED <<stored, child, failures, crashes>>
  BY DEF Abort, Untouched
<1>2. /\ e \in Attempts /\ Checkpoint(e.cp) /\ AttemptIsSound(e, stored, child) /\ MayLeave(child')
      /\ failures' \in Nat /\ crashes' \in Nat /\ exec \in [Owners -> Attempts]
  BY <1>1, AttemptOfInv, StateOfType, ChildrenMayStay DEF EngineInv
<1>3. exec' = [exec EXCEPT ![o] = f]
  BY <1>1, <1>2
<1>4. /\ f \in Attempts /\ f.cp = e.cp /\ f.phase = e.phase /\ f.pause = e.pause
      /\ f.poisoned = e.poisoned /\ f.status = e.status /\ f.pc = e.pc /\ f.open = e.open
      /\ f.cursor = e.cursor /\ f.tasks = e.tasks /\ f.undoing = e.undoing /\ f.fresh = e.fresh
  BY <1>2 DEF Attempts
<1> HIDE DEF f
<1>5. MayBecome(f, stored, child')
  BY <1>1, <1>2, <1>4, SoundIgnores DEF MayBecome
<1> QED BY <1>1, <1>2, <1>3, <1>5, StoredIsSame, AttemptMoves

LEMMA CancelStuckKeepsInv ==
  ASSUME EngineInv, NEW o \in Owners, CancelStuck(o) PROVE EngineInv'
<1> DEFINE e == exec[o]
<1>1. PICK phase \in {"failing", "stuck"} :
        /\ exec' = [exec EXCEPT ![o].aborted = TRUE, ![o].phase = phase]
        /\ e.phase = "stuck" /\ UNCHANGED <<stored, child, failures, crashes>>
  BY DEF CancelStuck, Untouched
<1> DEFINE f == [e EXCEPT !.aborted = TRUE, !.phase = phase]
<1>2. /\ e \in Attempts /\ MayLeave(child')
      /\ failures' \in Nat /\ crashes' \in Nat /\ exec \in [Owners -> Attempts]
  BY <1>1, AttemptOfInv, StateOfType, ChildrenMayStay DEF EngineInv
<1>3. exec' = [exec EXCEPT ![o] = f]
  BY <1>1, <1>2
<1>4. /\ f \in Attempts /\ f.cp = e.cp /\ f.phase = phase /\ f.pause = e.pause
      /\ f.poisoned = e.poisoned /\ f.fresh = e.fresh
  BY <1>2 DEF Attempts, Phases, Advancing
<1> HIDE DEF f
<1>5. UndoingIsSound(f) /\ phase \in (Advancing \ {"working"}) \cup {"stuck"}
  BY <1>4 DEF UndoingIsSound, Advancing
<1>6. MayBecome(f, stored, child')
  BY <1>1, <1>2, <1>4, <1>5, PhaseIsSound
<1> QED BY <1>1, <1>2, <1>3, <1>6, StoredIsSame, AttemptMoves

LEMMA NoticeKeepsInv ==
  ASSUME EngineInv, NEW o \in Owners, NoticeAbort(o) PROVE EngineInv'
<1>1. /\ exec[o].phase = "working" /\ exec' = [exec EXCEPT ![o] = Failing(exec[o], "error")]
      /\ UNCHANGED <<stored, child, failures, crashes>>
  BY DEF NoticeAbort, Untouched
<1>2. exec[o].phase \in Advancing /\ MayLeave(child')
  BY <1>1, ChildrenMayStay DEF Advancing
<1> QED BY <1>1, <1>2, ItemFails

LEMMA LoseLeaseKeepsInv ==
  ASSUME EngineInv, NEW o \in Owners, LoseLease(o) PROVE EngineInv'
<1>1. /\ failures' = failures + 1 /\ stored' = FreedBy(o, stored) /\ UNCHANGED <<child, crashes>>
      /\ exec' = [exec EXCEPT ![o] = Refused(exec[o])]
  BY DEF LoseLease, Untouched
<1>2. /\ exec[o] \in Attempts /\ Checkpoint(exec[o].cp) /\ AttemptIsSound(exec[o], stored, child)
      /\ MayLeave(child') /\ failures \in Nat /\ crashes' \in Nat /\ stored \in Stores
  BY <1>1, AttemptOfInv, StateOfType, ChildrenMayStay DEF EngineInv
<1>3. failures' \in Nat
  BY <1>1, <1>2
<1>4. MayBecome(Refused(exec[o]), stored, child')
  BY <1>1, <1>2, RefusedIsSound DEF MayBecome
<1>5. stored' \in Stores /\ Same(stored, stored')
  BY <1>1, <1>2, FreedIsSame
<1> QED BY <1>1, <1>2, <1>3, <1>4, <1>5, AttemptMoves

(* No attempt moves. *)
LEMMA OthersKeepInv ==
  ASSUME EngineInv, NEW o \in Owners, UNCHANGED <<exec, failures, crashes>>,
         stored' \in Stores, Same(stored, stored'), MayLeave(child')
  PROVE  EngineInv'
<1>1. /\ exec[o] \in Attempts /\ Checkpoint(exec[o].cp) /\ AttemptIsSound(exec[o], stored, child')
      /\ failures' \in Nat /\ crashes' \in Nat /\ exec \in [Owners -> Attempts]
  BY AttemptOfInv, StateOfType DEF EngineInv
<1>2. exec' = [exec EXCEPT ![o] = exec[o]]
  BY <1>1
<1> QED BY <1>1, <1>2, AttemptMoves DEF MayBecome

LEMMA ExpireKeepsInv == EngineInv /\ Expire => EngineInv'
<1> SUFFICES ASSUME EngineInv, Expire PROVE EngineInv'
  OBVIOUS
<1>1. /\ stored.holder # NoOwner /\ stored' = [stored EXCEPT !.holder = NoOwner]
      /\ UNCHANGED <<child, exec, failures, crashes>>
  BY DEF Expire, Untouched
<1>2. stored \in Stores /\ stored.holder \in Owners /\ MayLeave(child')
  BY <1>1, StateOfType, ChildrenMayStay DEF EngineInv
<1>3. stored' \in Stores /\ Same(stored, stored')
  BY <1>1, <1>2 DEF Stores, Same
<1> QED BY <1>1, <1>2, <1>3, OthersKeepInv

LEMMA ExpireChildKeepsInv ==
  ASSUME EngineInv, NEW c \in Children, ExpireChild(c) PROVE EngineInv'
<1>1. /\ child[c].worker # NoOwner /\ child' = [child EXCEPT ![c].worker = NoOwner]
      /\ UNCHANGED <<stored, exec, failures, crashes>>
  BY DEF ExpireChild, Untouched
<1>2. child \in ChildStates /\ NoOwner \in Owners \cup {NoOwner}
  BY StateOfType DEF EngineInv
<1>3. child[c].worker \in Owners /\ child[c].status = "running"
  BY <1>1, <1>2 DEF ChildStates, EngineInv, ChildrenAreSound
<1>4. MayLeave(child')
  BY <1>1, <1>2, <1>3, WorkerMoves
<1> QED BY <1>1, <1>3, <1>4, StoredIsSame, OthersKeepInv

LEMMA IdleIsSound ==
  ASSUME NEW s, NEW k, NEW f, f = Idle \/ f = [Idle EXCEPT !.phase = "dead"]
  PROVE  MayBecome(f, s, k)
<1> DEFINE T == [Agents -> [st : TaskStates, child : Children \cup {NoChild}]]
<1>1. Checkpoint(EmptyCheckpoint) /\ SoundCheckpoint(EmptyCheckpoint, k)
      /\ EmptyCheckpoint \in Checkpoints
  BY EmptyIsSound DEF Checkpoint
<1>2. [a \in Agents |-> NoTask] \in T
  BY DEF NoTask, TaskStates
<1>3. 1 \in 1 .. Len(Program) + 1
  BY ProgramIsTyped
<1>4. /\ f.phase \in {"idle", "dead"} /\ f.cp = EmptyCheckpoint /\ f.pause = {} /\ ~f.poisoned /\ f.pc = 1
      /\ ~f.open /\ f.tasks = [a \in Agents |-> NoTask] /\ ~f.fresh
  BY DEF Idle
<1>5. f \in Attempts
  <2> DEFINE ts == [a \in Agents |-> NoTask]
  <2>1. ts \in T
    BY <1>2
  <2>2. Idle = [phase |-> "idle", status |-> "none", cp |-> EmptyCheckpoint, pause |-> {},
         fresh |-> FALSE, lost |-> FALSE, aborted |-> FALSE, poisoned |-> FALSE,
         recovering |-> FALSE, pc |-> 1, open |-> FALSE, cursor |-> NoChild, error |-> "none",
         tasks |-> ts, handlers |-> {}, undoing |-> "none"]
    BY DEF Idle
  <2> HIDE DEF ts
  <2>3. "idle" \in Phases /\ "dead" \in Phases /\ "none" \in Statuses
    BY DEF Phases, Statuses
  <2>4. Idle \in Attempts
    BY <1>1, <1>3, <2>1, <2>2, <2>3 DEF Attempts
  <2> QED BY <2>3, <2>4 DEF Attempts
<1>6. \A id \in StepIds : ~Recorded(EmptyCheckpoint, id)
  BY DEF EmptyCheckpoint, NoRecord, Recorded
<1>7. KnowsTheStore(f, s)
  BY <1>4, <1>6 DEF KnowsTheStore, CoversAt
<1>8. IsInStep(f, s) /\ ReplayIsSound(f, k) /\ UndoingIsSound(f)
  BY <1>4 DEF IsInStep, ReplayIsSound, UndoingIsSound
<1> QED BY <1>1, <1>4, <1>5, <1>7, <1>8 DEF MayBecome, AttemptIsSound

LEMMA CrashKeepsInv ==
  ASSUME EngineInv, NEW o \in Owners, Crash(o) PROVE EngineInv'
<1>1. /\ crashes' = crashes + 1 /\ exec' = [exec EXCEPT ![o] = [Idle EXCEPT !.phase = "dead"]]
      /\ UNCHANGED <<stored, child, failures>>
  BY DEF Crash
<1>2. failures' \in Nat /\ crashes \in Nat /\ MayLeave(child')
  BY <1>1, StateOfType, ChildrenMayStay DEF EngineInv
<1>3. crashes' \in Nat
  BY <1>1, <1>2
<1> QED BY <1>1, <1>2, <1>3, IdleIsSound, StoredIsSame, AttemptMoves

-----------------------------------------------------------------------------
(* Every step keeps the invariant.                                         *)

LEMMA InitIsSound == Init => EngineInv
<1> SUFFICES ASSUME Init PROVE EngineInv
  OBVIOUS
<1>1. /\ stored = [status |-> "none", cp |-> EmptyCheckpoint, pause |-> {}, holder |-> NoOwner]
      /\ child = [c \in Children |-> [status |-> "none", worker |-> NoOwner, able |-> TRUE]]
      /\ exec = [o \in Owners |-> Idle] /\ failures = 0 /\ crashes = 0
  BY DEF Init
<1>2. Checkpoint(EmptyCheckpoint) /\ SoundCheckpoint(EmptyCheckpoint, child)
      /\ EmptyCheckpoint \in Checkpoints
  BY EmptyIsSound DEF Checkpoint
<1>4. MayBecome(Idle, stored, child)
  BY IdleIsSound
<1>5. stored \in Stores /\ child \in ChildStates
  BY <1>1, <1>2 DEF Stores, ChildStates, Statuses
<1>6. TypeOK
  BY <1>1, <1>2, <1>4, <1>5 DEF TypeOK, Stores, ChildStates, MayBecome
<1>7. StoreIsSound(stored, child)
  BY <1>1, <1>2 DEF StoreIsSound
<1>8. ChildrenAreSound(stored, child)
  <2>1. \A a \in Agents : \A n \in 1 .. MaxChildren : <<a, n>> \in Children
    BY DEF Children
  <2> QED BY <1>1, <2>1 DEF ChildrenAreSound
<1> QED BY <1>1, <1>4, <1>6, <1>7, <1>8 DEF EngineInv, MayBecome

LEMMA TaskStepsKeepInv ==
  ASSUME EngineInv, NEW o \in Owners, NEW s \in Agents,
         \/ ReuseRecord(o, s) \/ CreateChild(o, s) \/ RecordStep(o, s) \/ ChildConflicts(o, s)
         \/ \E status \in Terminal \cup Active : ChildEnds(o, s, status)
         \/ RelayFails(o, s) \/ ReportFailure(o, s) \/ CompleteStep(o, s)
  PROVE  EngineInv'
BY ReuseKeepsInv, CreateKeepsInv, RecordStepKeepsInv, ChildConflictsKeepsInv, ChildEndsKeepsInv,
   RelayKeepsInv, ReportKeepsInv, CompleteKeepsInv

LEMMA AttemptKeepsInv ==
  ASSUME EngineInv, NEW o \in Owners, Attempt(o) PROVE EngineInv'
<1>1. CASE Start(o) \/ Read(o, "read") \/ Read(o, "cancelRead")
           \/ Acquire(o, "read", "leased") \/ Acquire(o, "cancelRead", "cancelLeased")
  BY <1>1, StartKeepsInv, ReadKeepsInv, AcquireKeepsInv
<1>2. CASE Recover(o) \/ \E w \in StepIds : ResumeWait(o, w)
  BY <1>2, RecoverKeepsInv, ResumeWaitKeepsInv
<1>3. CASE \/ \E c \in Children : ResumeChild(o, c)
           \/ \E status \in Terminal \cup Active : ResumedChildEnds(o, status) \/ CommitExpired(o, status)
           \/ ResumedChildConflicts(o) \/ ResumedChildExpires(o) \/ CommitResumed(o)
  BY <1>3, ResumeChildKeepsInv, ResumedChildEndsKeepsInv, CommitExpiredKeepsInv,
     ResumedChildConflictsKeepsInv, ResumedChildExpiresKeepsInv, CommitResumedKeepsInv
<1>4. CASE \E s \in Agents :
             \/ ReuseRecord(o, s) \/ CreateChild(o, s) \/ RecordStep(o, s) \/ ChildConflicts(o, s)
             \/ \E status \in Terminal \cup Active : ChildEnds(o, s, status)
             \/ RelayFails(o, s) \/ ReportFailure(o, s) \/ CompleteStep(o, s)
  BY <1>4, TaskStepsKeepInv
<1>5. CASE OpenParallel(o) \/ JoinAgent(o) \/ JoinParallel(o) \/ Wait(o) \/ Finish(o)
  BY <1>5, OpenKeepsInv, JoinAgentKeepsInv, JoinParallelKeepsInv, WaitKeepsInv, FinishKeepsInv
<1>6. CASE \/ CancelChildren(o) \/ CommitCancelled(o) \/ GiveUp(o) \/ AwaitQueue(o)
           \/ Compensate(o) \/ RunHandler(o) \/ RecordHandler(o) \/ CommitFailed(o)
  BY <1>6, CancelChildrenKeepsInv, CommitCancelledKeepsInv, GiveUpKeepsInv, AwaitKeepsInv,
     CompensateKeepsInv, RunHandlerKeepsInv, RecordHandlerKeepsInv, CommitFailedKeepsInv
<1> QED BY <1>1, <1>2, <1>3, <1>4, <1>5, <1>6 DEF Attempt

LEMMA StutterKeepsInv == EngineInv /\ UNCHANGED vars => EngineInv'
<1> SUFFICES ASSUME EngineInv, UNCHANGED vars PROVE EngineInv'
  OBVIOUS
<1>1. UNCHANGED <<stored, child, exec, failures, crashes>>
  BY DEF vars
<1>2. TypeOK'
  BY <1>1 DEF EngineInv, TypeOK
<1> QED BY <1>1, <1>2 DEF EngineInv

LEMMA StepKeepsInv == EngineInv /\ [Next]_vars => EngineInv'
<1> SUFFICES ASSUME EngineInv, [Next]_vars PROVE EngineInv'
  OBVIOUS
<1>1. ASSUME NEW o \in Owners,
             Attempt(o) \/ Abort(o) \/ CancelStuck(o) \/ NoticeAbort(o) \/ LoseLease(o) \/ Crash(o)
      PROVE  EngineInv'
  BY <1>1, AttemptKeepsInv, AbortKeepsInv, CancelStuckKeepsInv, NoticeKeepsInv, LoseLeaseKeepsInv,
     CrashKeepsInv
<1>2. CASE Expire
  BY <1>2, ExpireKeepsInv
<1>3. ASSUME NEW c \in Children, ExpireChild(c) PROVE EngineInv'
  BY <1>3, ExpireChildKeepsInv
<1>4. CASE UNCHANGED vars
  BY <1>4, StutterKeepsInv
<1> QED BY <1>1, <1>2, <1>3, <1>4 DEF Next

(* Whatever attempts start, crash, lose their leases or their commits: an  *)
(* attempt replays the program against records that the store knows, the   *)
(* records name real children, and only recorded children complete.        *)
THEOREM WorkflowsAreSound == Spec => []EngineInv
BY InitIsSound, StepKeepsInv, PTL DEF Spec

-----------------------------------------------------------------------------
(* The ledger: what a step may do to the run that the store knows.         *)

DoneSteps(cp) == {id \in StepIds : Done(cp, id)}
UndoneSteps(cp) == {id \in StepIds : cp.steps[id].comp = "completed"}

(* Results stay, with their children. *)
Keeps(cp, cq) ==
  \A id \in StepIds : Done(cp, id) => Done(cq, id) /\ cq.steps[id].child = cp.steps[id].child
SameMarks(cp, cq) ==
  Keeps(cp, cq) /\ DoneSteps(cq) = DoneSteps(cp) /\ UndoneSteps(cq) = UndoneSteps(cp)
Adds(cp, cq) ==
  \E id \in StepIds :
    /\ ~Done(cp, id) /\ \A x \in Earlier(id) : x \in StepIds /\ Done(cp, x)
    /\ Keeps(cp, cq) /\ DoneSteps(cq) = DoneSteps(cp) \cup {id} /\ UndoneSteps(cq) = UndoneSteps(cp)
Undoes(cp, cq) ==
  \E id \in DoneSteps(cp) \ UndoneSteps(cp) :
    /\ Keeps(cp, cq) /\ DoneSteps(cq) = DoneSteps(cp) /\ UndoneSteps(cq) = UndoneSteps(cp) \cup {id}

StoreMoves(s, t) ==
  \/ /\ SameMarks(s.cp, t.cp)
     /\ \/ t.status = s.status
        \/ s.status = "none" /\ t.status = "running"
        \/ s.status \in Active /\ t.status \in Active \cup {"failed", "cancelled"}
        \/ s.status = "running" /\ t.status = "completed" /\ \A id \in StepIds : Done(s.cp, id)
  \/ s.status \in Active /\ t.status = "running" /\ Adds(s.cp, t.cp)
  \/ s.status = "running" /\ t.status = "running" /\ Undoes(s.cp, t.cp)

LEMMA MarksStay == ASSUME NEW cp PROVE SameMarks(cp, cp)
BY DEF SameMarks, Keeps

LEMMA StoreMayRest == ASSUME NEW s, NEW t, Same(s, t) PROVE StoreMoves(s, t)
BY MarksStay DEF StoreMoves, Same

LEMMA MovesIgnoreLeases ==
  ASSUME NEW s, NEW t, StoreMoves(s, t), NEW u, u.cp = t.cp, u.status = t.status
  PROVE  StoreMoves(s, u)
BY DEF StoreMoves

(* The steps that a step comes after. *)
LEMMA EarlierSteps ==
  ASSUME NEW i \in Items, NEW id \in StepsOf(i), NEW x \in Earlier(id)
  PROVE  \/ \E j \in Items : j < i /\ x \in StepsOf(j)
         \/ id = Program[i].id /\ id \notin Tasks(i) /\ x \in Tasks(i)
<1> DEFINE n == CHOOSE j \in Items : id \in StepsOf(j)
           U(m) == IF id = Program[m].id /\ id \notin Tasks(m) THEN Tasks(m) ELSE {}
<1>1. n = i
  BY StepsAreDistinct
<1>2. Earlier(id) = (UNION {StepsOf(j) : j \in 1 .. i - 1}) \cup U(i)
  BY <1>1 DEF Earlier
<1>3. CASE x \in UNION {StepsOf(j) : j \in 1 .. i - 1}
  <2>1. PICK j \in 1 .. i - 1 : x \in StepsOf(j)
    BY <1>3
  <2>2. j \in Items /\ j < i
    BY ProgramIsTyped
  <2> QED BY <2>1, <2>2
<1>4. CASE x \in U(i)
  BY <1>4
<1> QED BY <1>2, <1>3, <1>4

LEMMA EarlierIsDone ==
  ASSUME NEW cp, NEW i \in Items, NEW id \in StepsOf(i),
         \A j \in Items : \A x \in StepsOf(j) : j < i => Done(cp, x),
         id = Program[i].id => \A s \in Tasks(i) : s # id => Done(cp, s)
  PROVE  \A x \in Earlier(id) : x \in StepIds /\ Done(cp, x)
<1> SUFFICES ASSUME NEW x \in Earlier(id) PROVE x \in StepIds /\ Done(cp, x)
  OBVIOUS
<1>1. CASE \E j \in Items : j < i /\ x \in StepsOf(j)
  BY <1>1, ProgramIsTyped
<1>2. CASE id = Program[i].id /\ id \notin Tasks(i) /\ x \in Tasks(i)
  BY <1>2, ProgramIsTyped
<1> QED BY <1>1, <1>2, EarlierSteps

(* What putting a record of an unfinished step does. *)
LEMMA PutMarks ==
  ASSUME NEW cp, Checkpoint(cp), NEW k, SoundCheckpoint(cp, k), NEW id \in StepIds,
         NEW record \in Records, record.status # "none", ~Done(cp, id),
         record.comp \in {"none", "pending"},
         NEW cq, cq.steps = Put(cp, id, record).steps
  PROVE  /\ record.status = "running" => SameMarks(cp, cq)
         /\ /\ record.status = "completed"
            /\ \A x \in Earlier(id) : x \in StepIds /\ Done(cp, x)
            => Adds(cp, cq)
<1>1. \A x \in StepIds : cq.steps[x] = IF x = id THEN record ELSE cp.steps[x]
  BY PutKeepsType
<1>2. Keeps(cp, cq)
  BY <1>1 DEF Keeps, Done
<1>3. cp.steps[id].comp = "none" /\ cp.steps[id] \in Records
  BY CheckpointOfType DEF SoundCheckpoint, Records
<1>4. UndoneSteps(cq) = UndoneSteps(cp)
  BY <1>1, <1>3 DEF UndoneSteps
<1>5. CASE record.status = "running"
  BY <1>1, <1>2, <1>4, <1>5 DEF SameMarks, DoneSteps, Done
<1>6. CASE record.status = "completed"
  <2>1. DoneSteps(cq) = DoneSteps(cp) \cup {id}
    BY <1>1, <1>6 DEF DoneSteps, Done
  <2> QED BY <1>2, <1>4, <1>6, <2>1 DEF Adds
<1> QED BY <1>5, <1>6

(* What marking a pending compensation does. *)
LEMMA MarkMarks ==
  ASSUME NEW cp, Checkpoint(cp), NEW k, SoundCheckpoint(cp, k), NEW id \in StepIds,
         cp.steps[id].comp = "pending", NEW how \in {"completed", "failed"}
  PROVE  LET cq == [cp EXCEPT !.steps[id].comp = how] IN
         IF how = "completed" THEN Undoes(cp, cq) ELSE SameMarks(cp, cq)
<1> DEFINE cq == [cp EXCEPT !.steps[id].comp = how]
<1>1. cp \in Checkpoints /\ cp.steps \in [StepIds -> Records] /\ Done(cp, id)
  BY DEF Checkpoint, Checkpoints, SoundCheckpoint
<1>2. cq.steps = [cp.steps EXCEPT ![id].comp = how]
  BY <1>1 DEF Checkpoints
<1>3. \A x \in StepIds : /\ cq.steps[x].status = cp.steps[x].status
                        /\ cq.steps[x].child = cp.steps[x].child
                        /\ cq.steps[x].comp = IF x = id THEN how ELSE cp.steps[x].comp
  BY <1>1, <1>2 DEF Records
<1> HIDE DEF cq
<1>4. Keeps(cp, cq) /\ DoneSteps(cq) = DoneSteps(cp)
  BY <1>3 DEF Keeps, Done, DoneSteps
<1>5. id \in DoneSteps(cp) \ UndoneSteps(cp)
  BY <1>1 DEF DoneSteps, UndoneSteps
<1>6. CASE how = "completed"
  <2>1. UndoneSteps(cq) = UndoneSteps(cp) \cup {id}
    BY <1>3, <1>6 DEF UndoneSteps
  <2> QED BY <1>4, <1>5, <1>6, <2>1 DEF Undoes, cq
<1>7. CASE how = "failed"
  <2>1. UndoneSteps(cq) = UndoneSteps(cp)
    BY <1>3, <1>5, <1>7 DEF UndoneSteps
  <2> QED BY <1>4, <1>7, <2>1 DEF SameMarks, cq
<1> QED BY <1>6, <1>7 DEF cq

LEMMA CommitMoves ==
  ASSUME NEW o \in Owners, NEW img, NEW ok, NEW thrown, CommitStep(o, img, ok, thrown),
         StoreAccepts(o) => StoreMoves(stored, img)
  PROVE  StoreMoves(stored, stored')
<1>1. stored' = stored \/ (StoreAccepts(o) /\ stored' = img)
  BY DEF CommitStep
<1> QED BY <1>1, StoreMayRest DEF Same

LEMMA ReleaseMoves ==
  ASSUME EngineInv, NEW o \in Owners, Release(o) PROVE StoreMoves(stored, stored')
BY StateOfType, FreedIsSame, StoreMayRest DEF Release, EngineInv

LEMMA ReleasingMoves ==
  ASSUME EngineInv, NEW o \in Owners, NEW img \in Stores, NEW ok, ReleasingCommit(o, img, ok),
         StoreAccepts(o) => StoreMoves(stored, img)
  PROVE  StoreMoves(stored, stored')
<1>1. CASE StoreAccepts(o) /\ stored' = img
  BY <1>1
<1>2. CASE Release(o)
  BY <1>2, ReleaseMoves
<1>3. CASE StoreAccepts(o) /\ stored' = [img EXCEPT !.holder = NoOwner]
  <2>1. stored'.cp = img.cp /\ stored'.status = img.status
    BY <1>3 DEF Stores
  <2> QED BY <1>3, <2>1, MovesIgnoreLeases
<1> QED BY <1>1, <1>2, <1>3 DEF ReleasingCommit

LEMMA EndedMoves ==
  ASSUME EngineInv, NEW o \in Owners, NEW status \in Terminal,
         status = "completed" => stored.status = "running" /\ \A id \in StepIds : Done(stored.cp, id)
  PROVE  /\ FreedBy(o, Ended(status)) \in Stores
         /\ StoreAccepts(o) => StoreMoves(stored, FreedBy(o, Ended(status)))
<1> DEFINE s == Ended(status)
<1>1. s \in Stores /\ s.cp = stored.cp /\ s.status = status
  BY StateOfType DEF EngineInv, Ended, Stores, Statuses
<1> HIDE DEF s
<1>2. FreedBy(o, s) \in Stores /\ FreedBy(o, s).cp = stored.cp /\ FreedBy(o, s).status = status
  BY <1>1, FreedIsSame DEF Same
<1>3. StoreAccepts(o) => StoreMoves(stored, s)
  BY <1>1, MarksStay DEF StoreMoves, StoreAccepts, Terminal
<1> QED BY <1>1, <1>2, <1>3, MovesIgnoreLeases DEF s

LEMMA EndingMoves ==
  ASSUME EngineInv, NEW o \in Owners, NEW status \in Terminal \ {"completed"},
         EndingCommit(o, Ended(status))
  PROVE  StoreMoves(stored, stored')
BY EndedMoves, ReleasingMoves DEF EndingCommit

LEMMA QueuedMoves ==
  ASSUME EngineInv, NEW o \in Owners, NEW cp, NEW ok, NEW bad, QueuedCommit(o, cp, ok, bad),
         exec[o].phase \in Advancing, cp \in Checkpoints \/ exec[o].poisoned,
         ~exec[o].poisoned =>
           SameMarks(exec[o].cp, cp) \/ Adds(exec[o].cp, cp) \/ Undoes(exec[o].cp, cp)
  PROVE  StoreMoves(stored, stored')
<1>1. CASE UNCHANGED stored
  BY <1>1, StoreMayRest DEF Same
<1>2. CASE ~exec[o].poisoned /\ \E f, g : CommitStep(o, [stored EXCEPT !.cp = cp, !.status = "running", !.pause = {}], f, g)
  <2> DEFINE img == [stored EXCEPT !.cp = cp, !.status = "running", !.pause = {}]
  <2>1. img.cp = cp /\ img.status = "running"
    BY StateOfType DEF EngineInv, Stores
  <2>2. PICK f, g : CommitStep(o, img, f, g)
    BY <1>2
  <2> HIDE DEF img
  <2>3. ASSUME StoreAccepts(o) PROVE StoreMoves(stored, img)
    <3>1. exec[o].cp = stored.cp /\ stored.status = "running"
      BY <1>2, <2>3, AcceptedIsInStep DEF Advancing
    <3> QED BY <1>2, <2>1, <3>1 DEF StoreMoves, Active
  <2> QED BY <2>2, <2>3, CommitMoves
<1> QED BY <1>1, <1>2 DEF QueuedCommit

LEMMA PauseMoves ==
  ASSUME EngineInv, NEW o \in Owners, NEW cp, NEW pause, PauseRun(o, cp, pause),
         exec[o].phase \in Advancing, ~exec[o].poisoned => SameMarks(exec[o].cp, cp)
  PROVE  StoreMoves(stored, stored')
<1> DEFINE img == [stored EXCEPT !.status = "paused", !.pause = pause, !.cp = cp]
           freed == [img EXCEPT !.holder = NoOwner]
<1>1. stored' = stored \/ (~exec[o].poisoned /\ StoreAccepts(o) /\ stored' \in {img, freed})
  BY DEF PauseRun
<1>2. ASSUME ~exec[o].poisoned, StoreAccepts(o), stored' \in {img, freed}
      PROVE  StoreMoves(stored, stored')
  <2>1. stored'.cp = cp /\ stored'.status = "paused"
    BY <1>2, StateOfType DEF EngineInv, Stores
  <2>2. exec[o].cp = stored.cp /\ stored.status = "running"
    BY <1>2, AcceptedIsInStep DEF Advancing
  <2> QED BY <1>2, <2>1, <2>2 DEF StoreMoves, Active
<1> QED BY <1>1, <1>2, StoreMayRest DEF Same

(* The steps of an attempt, as moves of the ledger. *)
LEMMA OpenMoves ==
  ASSUME EngineInv, NEW o \in Owners, OpenParallel(o) PROVE StoreMoves(stored, stored')
<1> DEFINE e == exec[o]
           id == Program[e.pc].id
           record == RunningRecord(NoChild)
           cp == Put(e.cp, id, record)
<1>1. /\ Working(o) /\ Item(o).kind = "parallel"
      /\ \/ UNCHANGED stored
         \/ /\ e.cp.steps[id].status # "completed"
            /\ \E ok, bad : QueuedCommit(o, cp, ok, bad)
  BY DEF OpenParallel, Item
<1>2. /\ Checkpoint(e.cp) /\ SoundCheckpoint(e.cp, child) /\ e.phase \in Advancing /\ id \in StepIds
  BY <1>1, AttemptOfInv, CurrentItem
<1>3. record \in Records /\ record.status = "running" /\ record.comp = "none"
  BY DEF RunningRecord, Records
<1>4. CASE /\ e.cp.steps[id].status # "completed" /\ \E ok, bad : QueuedCommit(o, cp, ok, bad)
  <2>1. SameMarks(e.cp, cp) /\ cp \in Checkpoints
    BY <1>2, <1>3, <1>4, PutMarks, PutKeepsType DEF Done, Checkpoint
  <2> HIDE DEF cp
  <2> QED BY <1>2, <1>4, <2>1, QueuedMoves
<1> QED BY <1>1, <1>4, StoreMayRest DEF Same

LEMMA RecordStepMoves ==
  ASSUME EngineInv, NEW o \in Owners, NEW s \in Agents, RecordStep(o, s)
  PROVE  StoreMoves(stored, stored')
<1> DEFINE e == exec[o]
           record == RunningRecord(e.tasks[s].child)
           cp == Put(e.cp, s, record)
<1>1. /\ e.phase = "working" /\ e.tasks[s].st = "created" /\ \E ok, bad : QueuedCommit(o, cp, ok, bad)
  BY DEF RecordStep
<1>2. /\ Checkpoint(e.cp) /\ SoundCheckpoint(e.cp, child) /\ e.phase \in Advancing /\ s \in StepIds
      /\ TaskIsSound(e, child, s)
  BY <1>1, AttemptOfInv, CurrentTask, ProgramIsTyped DEF Advancing
<1>3. ~Done(e.cp, s) /\ e.tasks[s].child \in Children
  BY <1>1, <1>2 DEF TaskIsSound, Recorded, Done
<1>4. record \in Records /\ record.status = "running" /\ record.comp = "none"
  BY <1>3 DEF RunningRecord, Records
<1>5. SameMarks(e.cp, cp) /\ cp \in Checkpoints
  BY <1>2, <1>3, <1>4, PutMarks, PutKeepsType DEF Checkpoint
<1> HIDE DEF cp
<1> QED BY <1>1, <1>2, <1>5, QueuedMoves

LEMMA CompleteMoves ==
  ASSUME EngineInv, NEW o \in Owners, NEW s \in Agents, CompleteStep(o, s)
  PROVE  StoreMoves(stored, stored')
<1> DEFINE e == exec[o]
           c == e.tasks[s].child
           record == CompletedRecord(s, c)
           cq == Put(e.cp, s, record)
           cp == [cq EXCEPT !.budget = @ + 1]
<1>1. e.phase = "working" /\ e.tasks[s].st = "settled" /\ \E ok, bad : QueuedCommit(o, cp, ok, bad)
  BY DEF CompleteStep
<1>2. /\ Checkpoint(e.cp) /\ SoundCheckpoint(e.cp, child) /\ e.phase \in Advancing /\ s \in StepIds
      /\ TaskIsSound(e, child, s) /\ e.pc \in Items /\ s \in Tasks(e.pc) /\ ReplayIsSound(e, child)
  BY <1>1, AttemptOfInv, CurrentTask, ProgramIsTyped DEF Advancing
<1>3. ~Done(e.cp, s) /\ c \in Children
  BY <1>1, <1>2, ChildAtWork DEF TaskIsSound, Done
<1>4. record \in Records /\ record.status = "completed" /\ record.comp \in {"none", "pending"}
  BY <1>3 DEF CompletedRecord, Records
<1>5. \A x \in Earlier(s) : x \in StepIds /\ Done(e.cp, x)
  <2>1. s \in StepsOf(e.pc) /\ Program[e.pc].kind \in Kinds
    BY <1>2, ProgramIsTyped DEF StepsOf
  <2>2. s = Program[e.pc].id => \A x \in Tasks(e.pc) : x = s
    BY <1>2, <2>1, ConstantsAssumption DEF Kinds
  <2>3. \A j \in Items : \A x \in StepsOf(j) : j < e.pc => Done(e.cp, x)
    BY <1>1, <1>2 DEF ReplayIsSound
  <2> HIDE DEF e
  <2> QED BY <1>2, <2>1, <2>2, <2>3, EarlierIsDone
<1>6. Checkpoint(cq)
  BY <1>2, <1>4, PutKeepsType
<1> HIDE DEF e, record
<1>7. cp \in Checkpoints /\ cp.steps = cq.steps
  BY <1>6 DEF Checkpoint, Checkpoints
<1>8. Adds(e.cp, cp)
  <2> HIDE DEF cp
  <2> QED BY <1>2, <1>3, <1>4, <1>5, <1>7, PutMarks
<1> HIDE DEF cp
<1> QED BY <1>1, <1>2, <1>7, <1>8, QueuedMoves DEF e

LEMMA JoinAgentMoves ==
  ASSUME EngineInv, NEW o \in Owners, JoinAgent(o) PROVE StoreMoves(stored, stored')
<1>1. /\ Working(o)
      /\ \/ UNCHANGED stored
         \/ \E pause : PauseRun(o, exec[o].cp, pause)
  BY DEF JoinAgent, Joined
<1> QED BY <1>1, CurrentItem, MarksStay, PauseMoves, StoreMayRest DEF Same

(* The commit that completes an item. *)
LEMMA LastPutMoves ==
  ASSUME EngineInv, NEW o \in Owners, Working(o), NEW id, id = Program[exec[o].pc].id,
         ~Done(exec[o].cp, id), \A s \in Tasks(exec[o].pc) : Done(exec[o].cp, s),
         NEW ok, NEW bad, QueuedCommit(o, Put(exec[o].cp, id, CompletedRecord(id, NoChild)), ok, bad)
  PROVE  StoreMoves(stored, stored')
<1> DEFINE e == exec[o]
           record == CompletedRecord(id, NoChild)
           cp == Put(e.cp, id, record)
<1>1. /\ Checkpoint(e.cp) /\ SoundCheckpoint(e.cp, child) /\ e.phase \in Advancing
      /\ id \in StepIds /\ id \in StepsOf(e.pc) /\ e.pc \in Items
      /\ \A j \in Items : \A x \in StepsOf(j) : j < e.pc => Done(e.cp, x)
  BY AttemptOfInv, CurrentItem
<1>2. record \in Records /\ record.status = "completed" /\ record.comp \in {"none", "pending"}
  BY DEF CompletedRecord, Records
<1>3. \A x \in Earlier(id) : x \in StepIds /\ Done(e.cp, x)
  <2> HIDE DEF e
  <2> QED BY <1>1, EarlierIsDone DEF e
<1>4. QueuedCommit(o, cp, ok, bad)
  OBVIOUS
<1> HIDE DEF record
<1>5. Adds(e.cp, cp) /\ cp \in Checkpoints
  BY <1>1, <1>2, <1>3, PutMarks, PutKeepsType DEF Checkpoint
<1> HIDE DEF cp
<1> QED BY <1>1, <1>4, <1>5, QueuedMoves

LEMMA JoinParallelMoves ==
  ASSUME EngineInv, NEW o \in Owners, JoinParallel(o) PROVE StoreMoves(stored, stored')
<1> DEFINE e == exec[o]
           id == Program[e.pc].id
<1>1. /\ Working(o) /\ Joined(o) /\ e.open
      /\ \/ \E ok, bad : QueuedCommit(o, e.cp, ok, bad)
         \/ \E pause : PauseRun(o, e.cp, pause)
         \/ /\ In(e, e.pc, {"failed", "conflict"}) = {} /\ PausedTasks(e) = {}
            /\ \E ok, bad : QueuedCommit(o, Put(e.cp, id, CompletedRecord(id, NoChild)), ok, bad)
  BY DEF JoinParallel, Joined, Item
<1>2. /\ e.cp \in Checkpoints /\ e.phase \in Advancing /\ e.phase = "working" /\ ReplayIsSound(e, child)
      /\ SameMarks(e.cp, e.cp) /\ Tasks(e.pc) \subseteq Agents
  BY <1>1, AttemptOfInv, CurrentItem, MarksStay DEF Checkpoint
<1>3. CASE \E ok, bad : QueuedCommit(o, e.cp, ok, bad)
  BY <1>2, <1>3, QueuedMoves
<1>4. CASE \E pause : PauseRun(o, e.cp, pause)
  BY <1>2, <1>4, PauseMoves
<1>5. CASE /\ In(e, e.pc, {"failed", "conflict"}) = {} /\ PausedTasks(e) = {}
           /\ \E ok, bad : QueuedCommit(o, Put(e.cp, id, CompletedRecord(id, NoChild)), ok, bad)
  <2>1. ~Done(e.cp, id)
    BY <1>1, <1>2 DEF ReplayIsSound, Done
  <2>2. \A s \in Tasks(e.pc) : Done(e.cp, s)
    <3> SUFFICES ASSUME NEW s \in Tasks(e.pc) PROVE Done(e.cp, s)
      OBVIOUS
    <3>1. e.tasks[s].st \in {"done", "paused", "failed", "conflict"}
      BY <1>1 DEF Joined, In
    <3>2. e.tasks[s].st = "done"
      BY <1>5, <3>1 DEF PausedTasks, In
    <3> QED BY <1>2, <3>2 DEF ReplayIsSound, TaskIsSound
  <2> HIDE DEF id
  <2> QED BY <1>1, <1>5, <2>1, <2>2, LastPutMoves DEF id
<1> QED BY <1>1, <1>3, <1>4, <1>5

LEMMA WaitMoves ==
  ASSUME EngineInv, NEW o \in Owners, Wait(o) PROVE StoreMoves(stored, stored')
<1> DEFINE e == exec[o]
           id == Program[e.pc].id
           record == RunningRecord(NoChild)
           cp == Put(e.cp, id, record)
<1>1. /\ Working(o) /\ Item(o).kind \in {"timer", "event"}
      /\ \/ UNCHANGED stored
         \/ /\ ~Done(e.cp, id)
            /\ \E ok, bad : QueuedCommit(o, Put(e.cp, id, CompletedRecord(id, NoChild)), ok, bad)
         \/ /\ ~Done(e.cp, id)
            /\ \E pause : PauseRun(o, cp, pause)
  BY DEF Wait, Item, Done
<1>2. /\ Checkpoint(e.cp) /\ SoundCheckpoint(e.cp, child) /\ e.phase \in Advancing /\ id \in StepIds
      /\ e.pc \in Items /\ Program[e.pc].kind \in {"timer", "event"}
  BY <1>1, AttemptOfInv, CurrentItem
<1>3. Tasks(e.pc) = {}
  BY <1>2, ConstantsAssumption
<1>4. CASE /\ ~Done(e.cp, id)
           /\ \E ok, bad : QueuedCommit(o, Put(e.cp, id, CompletedRecord(id, NoChild)), ok, bad)
  <2>1. \A s \in Tasks(e.pc) : Done(e.cp, s)
    BY <1>3
  <2> HIDE DEF id
  <2> QED BY <1>1, <1>4, <2>1, LastPutMoves DEF id
<1>5. CASE ~Done(e.cp, id) /\ \E pause : PauseRun(o, cp, pause)
  <2>1. record \in Records /\ record.status = "running" /\ record.comp = "none"
    BY DEF RunningRecord, Records
  <2>2. SameMarks(e.cp, cp)
    BY <1>2, <1>5, <2>1, PutMarks
  <2> HIDE DEF cp
  <2> QED BY <1>2, <1>5, <2>2, PauseMoves
<1> QED BY <1>1, <1>4, <1>5, StoreMayRest DEF Same

LEMMA FinishMoves ==
  ASSUME EngineInv, NEW o \in Owners, Finish(o) PROVE StoreMoves(stored, stored')
<1> DEFINE e == exec[o]
           img == FreedBy(o, Ended("completed"))
<1>1. /\ e.phase = "working" /\ e.pc > Len(Program)
      /\ (\E ok, thrown : CommitStep(o, img, ok, thrown)) \/ (\E ok : ReleasingCommit(o, img, ok))
  BY DEF Finish, EndingCommit
<1>2. /\ e \in Attempts /\ ReplayIsSound(e, child) /\ e.phase \in Advancing
  BY <1>1, AttemptOfInv DEF Advancing
<1>3. e.pc \in Nat /\ Len(Program) \in Nat
  BY <1>2, ProgramIsTyped DEF Attempts
<1>4. ~e.poisoned
  BY <1>1, <1>2, <1>3 DEF ReplayIsSound, TaskIsSound
<1>5. \A id \in StepIds : Done(e.cp, id)
  <2> SUFFICES ASSUME NEW id \in StepIds PROVE Done(e.cp, id)
    OBVIOUS
  <2>1. PICK i \in Items : id \in StepsOf(i)
    BY ProgramIsTyped
  <2>2. i < e.pc
    BY <1>1, <1>3, ProgramIsTyped
  <2> QED BY <1>1, <1>2, <2>1, <2>2 DEF ReplayIsSound
<1>6. "completed" \in Terminal
  BY DEF Terminal
<1>7. CASE StoreAccepts(o)
  <2>1. e.cp = stored.cp /\ stored.status = "running"
    BY <1>2, <1>4, <1>7, AcceptedIsInStep DEF Advancing
  <2>2. img \in Stores /\ StoreMoves(stored, img)
    BY <1>5, <1>6, <1>7, <2>1, EndedMoves
  <2> HIDE DEF img
  <2> QED BY <1>1, <2>2, CommitMoves, ReleasingMoves
<1>8. CASE ~StoreAccepts(o)
  <2>1. UNCHANGED stored \/ Release(o)
    BY <1>1, <1>8 DEF CommitStep, ReleasingCommit
  <2> QED BY <2>1, ReleaseMoves, StoreMayRest DEF Same
<1> QED BY <1>7, <1>8

LEMMA ResumeMoves ==
  ASSUME EngineInv, NEW o \in Owners,
         Recover(o) \/ CommitResumed(o) \/ \E w \in StepIds : ResumeWait(o, w)
  PROVE  StoreMoves(stored, stored')
<1> DEFINE e == exec[o]
<1>1. /\ SoundCheckpoint(e.cp, child) /\ Checkpoint(e.cp) /\ stored \in Stores
      /\ StoreIsSound(stored, child)
  BY AttemptOfInv, StateOfType DEF EngineInv
<1>2. ASSUME StoreAccepts(o), e.phase \in {"leased", "answered"}
      PROVE  e.cp = stored.cp /\ e.status = stored.status /\ e.pause = stored.pause
             /\ stored.status \in Active
  BY <1>2, AcceptedIsInStep DEF Reading
<1>3. CASE Recover(o)
  <2> DEFINE img == [stored EXCEPT !.cp = e.cp]
  <2>1. e.phase = "leased" /\ \E ok : ReleasingCommit(o, img, ok)
    BY <1>3 DEF Recover
  <2>2. img \in Stores /\ img.cp = e.cp /\ img.status = stored.status
    BY <1>1 DEF Stores, Checkpoint
  <2> HIDE DEF img
  <2>3. StoreAccepts(o) => StoreMoves(stored, img)
    BY <1>2, <2>1, <2>2, MarksStay DEF StoreMoves
  <2> QED BY <2>1, <2>2, <2>3, ReleasingMoves
<1>4. CASE CommitResumed(o)
  <2> DEFINE img == [stored EXCEPT !.status = "running", !.pause = {}, !.cp = e.cp]
  <2>1. /\ e.phase = "answered"
        /\ EndingCommit(o, Ended("cancelled")) \/ \E ok : ReleasingCommit(o, img, ok)
    BY <1>4 DEF CommitResumed
  <2>2. img \in Stores /\ img.cp = e.cp /\ img.status = "running"
    BY <1>1 DEF Stores, Checkpoint, Statuses, Active
  <2> HIDE DEF img
  <2>3. StoreAccepts(o) => StoreMoves(stored, img)
    BY <1>2, <2>1, <2>2, MarksStay DEF StoreMoves, Active
  <2>4. "cancelled" \in Terminal \ {"completed"}
    BY DEF Terminal
  <2> QED BY <2>1, <2>2, <2>3, <2>4, ReleasingMoves, EndingMoves
<1>5. ASSUME NEW w \in StepIds, ResumeWait(o, w) PROVE StoreMoves(stored, stored')
  <2> DEFINE record == CompletedRecord(w, NoChild)
             cp == Put(e.cp, w, record)
             img == [stored EXCEPT !.status = "running", !.pause = {}, !.cp = cp]
  <2>1. /\ e.phase = "leased" /\ e.status = "paused" /\ w \in WaitIds /\ e.pause = {WaitFor(w)}
        /\ \E ok : ReleasingCommit(o, img, ok)
    BY <1>5 DEF ResumeWait
  <2>2. record \in Records /\ record.status = "completed" /\ record.comp \in {"none", "pending"}
    BY DEF CompletedRecord, Records
  <2> HIDE DEF record
  <2>3. PICK i \in Items : Program[i].kind \in {"timer", "event"} /\ w = Program[i].id
    BY <2>1 DEF WaitIds
  <2>4. w \in StepsOf(i) /\ Tasks(i) = {}
    BY <2>3, ConstantsAssumption DEF StepsOf
  <2>5. Checkpoint(cp)
    BY <1>1, <2>2, PutKeepsType
  <2>6. img \in Stores /\ img.cp = cp /\ img.status = "running"
    BY <1>1, <2>5 DEF Stores, Checkpoint, Statuses, Active
  <2>7. ASSUME StoreAccepts(o) PROVE StoreMoves(stored, img)
    <3>1. e.cp = stored.cp /\ stored.status = "paused" /\ WaitFor(w) \in stored.pause
      BY <1>2, <2>1, <2>7
    <3>2. Recorded(stored.cp, w) /\ ~Done(stored.cp, w)
      BY <1>1, <2>1, <3>1 DEF StoreIsSound
    <3>3. \A j \in Items : \A x \in StepsOf(j) : j < i => Done(stored.cp, x)
      BY <1>1, <2>4, <3>2 DEF StoreIsSound, SoundCheckpoint
    <3>4. \A x \in Earlier(w) : x \in StepIds /\ Done(stored.cp, x)
      BY <2>4, <3>3, EarlierIsDone
    <3> HIDE DEF e
    <3>5. Adds(stored.cp, cp)
      BY <1>1, <2>2, <3>1, <3>2, <3>4, PutMarks
    <3> QED BY <2>6, <3>1, <3>5 DEF StoreMoves, Active
  <2> HIDE DEF img, cp
  <2> QED BY <2>1, <2>6, <2>7, ReleasingMoves
<1> QED BY <1>3, <1>4, <1>5

LEMMA UndoMoves ==
  ASSUME EngineInv, NEW o \in Owners, Compensate(o) \/ RecordHandler(o)
  PROVE  StoreMoves(stored, stored')
<1> DEFINE e == exec[o]
           cp(how) == [e.cp EXCEPT !.steps[e.undoing].comp = how]
<1>1. /\ Checkpoint(e.cp) /\ SoundCheckpoint(e.cp, child) /\ UndoingIsSound(e)
      /\ e.phase \in Advancing /\ SameMarks(e.cp, e.cp)
  BY AttemptOfInv, MarksStay DEF Compensate, RecordHandler, Advancing
<1>2. CASE Compensate(o)
  <2>1. UNCHANGED stored \/ \E ok, bad : QueuedCommit(o, e.cp, ok, bad)
    BY <1>2 DEF Compensate
  <2> QED BY <1>1, <2>1, QueuedMoves, StoreMayRest DEF Checkpoint, Same
<1>3. CASE RecordHandler(o)
  <2>1. e.phase \in {"undone", "undoFailed"}
        /\ \E how \in {"completed", "failed"} : \E ok, bad : QueuedCommit(o, cp(how), ok, bad)
    BY <1>3 DEF RecordHandler
  <2>2. PICK how \in {"completed", "failed"} : \E ok, bad : QueuedCommit(o, cp(how), ok, bad)
    BY <2>1
  <2>3. ASSUME ~e.poisoned
        PROVE  cp(how) \in Checkpoints /\ (Undoes(e.cp, cp(how)) \/ SameMarks(e.cp, cp(how)))
    <3>1. e.undoing \in StepIds /\ e.cp.steps[e.undoing].comp = "pending"
      BY <1>1, <2>1, <2>3 DEF UndoingIsSound
    <3>2. cp(how) \in Checkpoints
      BY <1>1, <3>1, MarkIsSound DEF Checkpoint
    <3>3. Undoes(e.cp, cp(how)) \/ SameMarks(e.cp, cp(how))
      BY <1>1, <3>1, MarkMarks
    <3> QED BY <3>2, <3>3
  <2> HIDE DEF cp
  <2> QED BY <1>1, <2>2, <2>3, QueuedMoves
<1> QED BY <1>2, <1>3

LEMMA EndMoves ==
  ASSUME EngineInv, NEW o \in Owners, NEW status,
         CommitExpired(o, status) \/ CommitCancelled(o) \/ CommitFailed(o)
  PROVE  StoreMoves(stored, stored')
<1>1. /\ "failed" \in Terminal \ {"completed"} /\ "cancelled" \in Terminal \ {"completed"}
      /\ "failed" # "completed"
  BY DEF Terminal
<1>2. CASE CommitExpired(o, status)
  BY <1>1, <1>2, EndingMoves DEF CommitExpired
<1>3. CASE CommitCancelled(o)
  BY <1>1, <1>3, EndingMoves DEF CommitCancelled
<1>4. CASE CommitFailed(o)
  <2> DEFINE img == FreedBy(o, Ended("failed"))
  <2>1. StoreAccepts(o) => StoreMoves(stored, img)
    BY <1>1, EndedMoves
  <2>2. \E ok, thrown : CommitStep(o, img, ok, thrown)
    BY <1>4 DEF CommitFailed
  <2> HIDE DEF img
  <2> QED BY <2>1, <2>2, CommitMoves
<1> QED BY <1>2, <1>3, <1>4

LEMMA LeaseMoves ==
  ASSUME EngineInv, NEW o \in Owners, NEW from, NEW to,
         Acquire(o, from, to) \/ LoseLease(o) \/ Expire \/ Start(o)
  PROVE  StoreMoves(stored, stored')
<1>1. stored \in Stores
  BY StateOfType DEF EngineInv
<1>2. CASE Acquire(o, from, to) \/ LoseLease(o) \/ Expire
  <2>1. stored'.cp = stored.cp /\ stored'.status = stored.status
    BY <1>1, <1>2 DEF Acquire, LoseLease, Expire, FreedBy, Stores
  <2> QED BY <2>1, MarksStay DEF StoreMoves
<1>3. CASE Start(o)
  <2>1. stored'.cp = stored.cp /\ stored.status = "none" /\ stored'.status = "running"
    BY <1>1, <1>3 DEF Start, Stores
  <2> QED BY <2>1, MarksStay DEF StoreMoves
<1> QED BY <1>2, <1>3

LEMMA TaskStepMoves ==
  ASSUME EngineInv, NEW o \in Owners, NEW s \in Agents,
         \/ ReuseRecord(o, s) \/ CreateChild(o, s) \/ RecordStep(o, s) \/ ChildConflicts(o, s)
         \/ \E status \in Terminal \cup Active : ChildEnds(o, s, status)
         \/ RelayFails(o, s) \/ ReportFailure(o, s) \/ CompleteStep(o, s)
  PROVE  StoreMoves(stored, stored')
<1>1. CASE \/ ReuseRecord(o, s) \/ CreateChild(o, s) \/ ChildConflicts(o, s)
           \/ \E status \in Terminal \cup Active : ChildEnds(o, s, status)
           \/ RelayFails(o, s)
  <2>1. UNCHANGED stored
    BY <1>1 DEF ReuseRecord, CreateChild, ChildConflicts, ChildEnds, RelayFails
  <2> QED BY <2>1, StoreMayRest DEF Same
<1>2. CASE ReportFailure(o, s)
  <2>1. exec[o].phase = "working" /\ \E ok, bad : QueuedCommit(o, exec[o].cp, ok, bad)
    BY <1>2 DEF ReportFailure
  <2> QED BY <2>1, AttemptOfInv, MarksStay, QueuedMoves DEF Checkpoint, Advancing
<1> QED BY <1>1, <1>2, RecordStepMoves, CompleteMoves

LEMMA AttemptMovesStore ==
  ASSUME EngineInv, NEW o \in Owners, Attempt(o) PROVE StoreMoves(stored, stored')
<1>1. CASE Start(o) \/ Read(o, "read") \/ Read(o, "cancelRead")
           \/ Acquire(o, "read", "leased") \/ Acquire(o, "cancelRead", "cancelLeased")
  <2>1. CASE Read(o, "read") \/ Read(o, "cancelRead")
    BY <2>1, StoreMayRest DEF Read, Same
  <2> QED BY <1>1, <2>1, LeaseMoves
<1>2. CASE Recover(o) \/ (\E w \in StepIds : ResumeWait(o, w)) \/ CommitResumed(o)
  BY <1>2, ResumeMoves
<1>3. CASE \/ \E c \in Children : ResumeChild(o, c)
           \/ \E status \in Terminal \cup Active : ResumedChildEnds(o, status)
           \/ ResumedChildConflicts(o) \/ ResumedChildExpires(o) \/ CancelChildren(o) \/ GiveUp(o)
  <2>1. UNCHANGED stored \/ Release(o)
    BY <1>3 DEF ResumeChild, ResumedChildEnds, ResumedChildConflicts, ResumedChildExpires,
                CancelChildren, GiveUp
  <2> QED BY <2>1, ReleaseMoves, StoreMayRest DEF Same
<1>4. CASE \E s \in Agents :
             \/ ReuseRecord(o, s) \/ CreateChild(o, s) \/ RecordStep(o, s) \/ ChildConflicts(o, s)
             \/ \E status \in Terminal \cup Active : ChildEnds(o, s, status)
             \/ RelayFails(o, s) \/ ReportFailure(o, s) \/ CompleteStep(o, s)
  BY <1>4, TaskStepMoves
<1>5. CASE OpenParallel(o) \/ JoinAgent(o) \/ JoinParallel(o) \/ Wait(o) \/ Finish(o)
  BY <1>5, OpenMoves, JoinAgentMoves, JoinParallelMoves, WaitMoves, FinishMoves
<1>6. CASE \/ \E status \in Terminal \cup Active : CommitExpired(o, status)
           \/ CommitCancelled(o) \/ CommitFailed(o)
  BY <1>6, EndMoves
<1>7. CASE AwaitQueue(o) \/ RunHandler(o)
  BY <1>7, StoreMayRest DEF AwaitQueue, RunHandler, Same
<1>8. CASE Compensate(o) \/ RecordHandler(o)
  BY <1>8, UndoMoves
<1> QED BY <1>1, <1>2, <1>3, <1>4, <1>5, <1>6, <1>7, <1>8 DEF Attempt

LEMMA StepMovesStore == EngineInv /\ [Next]_vars => StoreMoves(stored, stored')
<1> SUFFICES ASSUME EngineInv, [Next]_vars PROVE StoreMoves(stored, stored')
  OBVIOUS
<1>1. ASSUME NEW o \in Owners,
             Abort(o) \/ CancelStuck(o) \/ NoticeAbort(o) \/ Crash(o)
      PROVE  StoreMoves(stored, stored')
  BY <1>1, StoreMayRest DEF Abort, CancelStuck, NoticeAbort, Crash, Same
<1>2. ASSUME NEW o \in Owners, Attempt(o) PROVE StoreMoves(stored, stored')
  BY <1>2, AttemptMovesStore
<1>3. ASSUME NEW o \in Owners, LoseLease(o) PROVE StoreMoves(stored, stored')
  BY <1>3, LeaseMoves
<1>4. CASE Expire
  <2>1. stored'.cp = stored.cp /\ stored'.status = stored.status
    BY <1>4, StateOfType DEF Expire, EngineInv, Stores
  <2> QED BY <2>1, MarksStay DEF StoreMoves
<1>5. ASSUME NEW c \in Children, ExpireChild(c) PROVE StoreMoves(stored, stored')
  BY <1>5, StoreMayRest DEF ExpireChild, Same
<1>6. CASE UNCHANGED vars
  BY <1>6, StoreMayRest DEF vars, Same
<1> QED BY <1>1, <1>2, <1>3, <1>4, <1>5, <1>6 DEF Next

(* A move of the store is a step of the ledger, or none. *)
LEMMA MovesAreLedgerSteps ==
  ASSUME StoreMoves(stored, stored') PROVE [Ledger!Next]_(Ledger!vars)
<1> DEFINE D == {id \in StepIds : stored.cp.steps[id].status = "completed"}
           U == {id \in StepIds : stored.cp.steps[id].comp = "completed"}
           B == [id \in StepIds |-> Earlier(id)]
<1>1. D = DoneSteps(stored.cp) /\ D' = DoneSteps(stored'.cp)
      /\ U = UndoneSteps(stored.cp) /\ U' = UndoneSteps(stored'.cp)
  BY DEF DoneSteps, UndoneSteps, Done
<1>2. CASE SameMarks(stored.cp, stored'.cp)
  <2>1. D' = D /\ U' = U
    BY <1>1, <1>2 DEF SameMarks
  <2>2. CASE stored'.status = stored.status
    BY <2>1, <2>2 DEF Ledger!vars
  <2>3. CASE stored.status = "none" /\ stored'.status = "running"
    BY <2>1, <2>3 DEF Ledger!Next, Ledger!Begin
  <2>4. CASE stored.status \in Active /\ stored'.status \in {"failed", "cancelled"}
    <3>1. Ledger!Stop(stored'.status)
      BY <2>1, <2>4 DEF Ledger!Stop, Active
    <3> QED BY <2>4, <3>1 DEF Ledger!Next
  <2>5. CASE stored.status \in Active /\ stored'.status \in Active /\ stored'.status # stored.status
    <3>1. CASE stored.status = "running" /\ stored'.status = "paused"
      BY <2>1, <3>1 DEF Ledger!Next, Ledger!Pause
    <3>2. CASE stored.status = "paused" /\ stored'.status = "running"
      BY <2>1, <3>2 DEF Ledger!Next, Ledger!Resume
    <3> QED BY <2>5, <3>1, <3>2 DEF Active
  <2>6. CASE /\ stored.status = "running" /\ stored'.status = "completed"
             /\ \A id \in StepIds : Done(stored.cp, id)
    <3>1. D = StepIds
      BY <2>6 DEF Done
    <3> QED BY <2>1, <2>6, <3>1 DEF Ledger!Next, Ledger!Succeed
  <2> QED BY <2>2, <2>3, <2>4, <2>5, <2>6 DEF StoreMoves, Active
<1>3. CASE stored.status \in Active /\ stored'.status = "running" /\ Adds(stored.cp, stored'.cp)
  <2>1. PICK id \in StepIds :
          /\ ~Done(stored.cp, id) /\ \A x \in Earlier(id) : x \in StepIds /\ Done(stored.cp, x)
          /\ D' = D \cup {id} /\ U' = U
    BY <1>1, <1>3 DEF Adds
  <2>2. id \in StepIds \ D /\ B[id] \subseteq D
    BY <2>1 DEF Done
  <2> HIDE DEF D, U, B
  <2>3. Ledger!Completable(id)
    BY <2>2 DEF Ledger!Completable, D, B
  <2>4. CASE stored.status = "running"
    <3>1. Ledger!Complete(id)
      BY <1>3, <2>1, <2>3, <2>4 DEF Ledger!Complete, D, U
    <3> QED BY <3>1 DEF Ledger!Next
  <2>5. CASE stored.status = "paused"
    <3>1. Ledger!Resume
      BY <1>3, <2>1, <2>3, <2>5 DEF Ledger!Resume, D, U
    <3> QED BY <3>1 DEF Ledger!Next
  <2> QED BY <1>3, <2>4, <2>5 DEF Active
<1>4. CASE stored.status = "running" /\ stored'.status = "running" /\ Undoes(stored.cp, stored'.cp)
  <2>1. PICK id \in D \ U : D' = D /\ U' = U \cup {id}
    BY <1>1, <1>4 DEF Undoes
  <2>2. Ledger!Undo(id)
    BY <1>4, <2>1 DEF Ledger!Undo
  <2> QED BY <2>2 DEF Ledger!Next
<1> QED BY <1>2, <1>3, <1>4 DEF StoreMoves

-----------------------------------------------------------------------------
(* The theorems.                                                           *)

(* Types hold, and the keys of every checkpoint are the steps it has       *)
(* records of, each once.                                                  *)
THEOREM WorkflowTypes == Spec => []TypeOK
<1>1. EngineInv => TypeOK
  BY DEF EngineInv
<1> QED BY <1>1, WorkflowsAreSound, PTL

(* The engine implements the ledger: whatever attempts are started, crash, *)
(* lose their leases or their commits, a step is completed at most once    *)
(* and after the steps before it, a completed step is compensated at most  *)
(* once, a workflow completes only with all its steps, and an ended one    *)
(* does not move.                                                          *)
THEOREM WorkflowsKeepTheLedger == Spec => KeepsTheLedger
<1>1. Init => Ledger!Init
  <2> SUFFICES ASSUME Init PROVE Ledger!Init
    OBVIOUS
  <2>1. stored.status = "none" /\ \A id \in StepIds : stored.cp.steps[id] = NoRecord
    BY DEF Init, EmptyCheckpoint
  <2> QED BY <2>1 DEF Ledger!Init, NoRecord
<1>2. EngineInv /\ [Next]_vars => [Ledger!Next]_(Ledger!vars)
  BY StepMovesStore, MovesAreLedgerSteps
<1> QED BY <1>1, <1>2, WorkflowsAreSound, PTL DEF Spec, KeepsTheLedger, Ledger!Spec

(* An ended run stays as it ended. *)
THEOREM EndedWorkflowsStay == Spec => TerminalStays
<1>1. EngineInv /\ [Next]_vars => [stored.status \in Terminal => stored'.status = stored.status]_vars
  BY StepMovesStore DEF StoreMoves, Terminal, Active
<1> QED BY <1>1, WorkflowsAreSound, PTL DEF Spec, TerminalStays

(* A result that the store has stays, with its child. *)
THEOREM WorkflowResultsStay == Spec => ResultsArePermanent
<1> DEFINE Stay == \A id \in StepIds : stored.cp.steps[id].status = "completed" =>
                     /\ stored'.cp.steps[id].status = "completed"
                     /\ stored'.cp.steps[id].child = stored.cp.steps[id].child
<1>1. EngineInv /\ [Next]_vars => Stay
  BY StepMovesStore DEF StoreMoves, SameMarks, Adds, Undoes, Keeps, Done
<1> QED BY <1>1, WorkflowsAreSound, PTL DEF Spec, ResultsArePermanent

(* The work of a step is done by one child: whatever crashes between the   *)
(* creation of a child, its record and its result, a second child of the   *)
(* step never completes, since only the child on record can and the record *)
(* keeps its child.                                                        *)
THEOREM WorkflowWorkIsDoneOnce == Spec => []WorkIsDoneOnce
<1>1. EngineInv => WorkIsDoneOnce
  <2> SUFFICES ASSUME EngineInv, NEW s \in Agents
               PROVE  Cardinality({n \in 1 .. MaxChildren : child[<<s, n>>].status = "completed"}) <= 1
    BY DEF WorkIsDoneOnce
  <2> DEFINE S == {n \in 1 .. MaxChildren : child[<<s, n>>].status = "completed"}
  <2>1. ASSUME NEW m \in S, NEW n \in S PROVE m = n
    <3>1. <<s, m>> \in Children /\ <<s, n>> \in Children
      BY DEF Children
    <3>2. Names(stored.cp, <<s, m>>) /\ Names(stored.cp, <<s, n>>)
      BY <3>1 DEF EngineInv, ChildrenAreSound
    <3> QED BY <3>2 DEF Names
  <2> HIDE DEF S
  <2>2. CASE S = {}
    <3>1. Cardinality({}) = 0
      BY FS_EmptySet
    <3>2. Cardinality(S) <= 1
      BY <2>2, <3>1
    <3> QED BY <3>2 DEF S
  <2>3. CASE S # {}
    <3>1. PICK m \in S : TRUE
      BY <2>3
    <3>2. S = {m}
      BY <2>1, <3>1
    <3>3. Cardinality({m}) = 1
      BY FS_Singleton
    <3>4. Cardinality(S) = 1
      BY <3>2, <3>3
    <3>5. Cardinality(S) <= 1
      BY <3>4
    <3> QED BY <3>5 DEF S
  <2> QED BY <2>2, <2>3
<1> QED BY <1>1, WorkflowsAreSound, PTL

(* A completed workflow has the result of every step, each from a child    *)
(* that completed.                                                         *)
THEOREM CompletedWorkflowsAreWhole == Spec => []CompletionIsWhole
<1>1. EngineInv => CompletionIsWhole
  <2> SUFFICES ASSUME EngineInv, stored.status = "completed", NEW s \in Agents
               PROVE  /\ stored.cp.steps[s].status = "completed"
                      /\ child[stored.cp.steps[s].child].status = "completed"
    BY DEF CompletionIsWhole
  <2>1. StoreIsSound(stored, child) /\ Done(stored.cp, s)
    BY ProgramIsTyped DEF EngineInv, StoreIsSound
  <2> QED BY <2>1 DEF StoreIsSound, SoundCheckpoint, ChildIsReal, Recorded, Done
<1> QED BY <1>1, WorkflowsAreSound, PTL

-----------------------------------------------------------------------------
(* Compensation and cancellation.                                          *)

(* A completed parallel step is not opened again by a replay, so the       *)
(* handlers of its tasks are not registered again: only those of the last  *)
(* item are never missed.                                                  *)
HandlersOutlive ==
  \A i \in Items : i < Len(Program) /\ Program[i].kind = "parallel" =>
                     Tasks(i) \cap Compensated = {}
Undoable == HandlersOutlive /\ "expired" \notin Outcomes
Unpaused == "paused" \notin Outcomes

Pended(cp, id) == cp.steps[id].comp = "pending"
Declared(cp) == \A id \in StepIds : cp.steps[id].comp # "none" => id \in Compensated
IsUndone(cp) == Pending(cp) = {} \/ \E id \in StepIds : cp.steps[id].comp = "failed"
NothingBeyond(e) ==
  \A j \in Items : \A x \in StepsOf(j) : e.pc < j => ~Recorded(e.cp, x)
HasHandlers(e) == Pending(e.cp) \subseteq e.handlers

(* A replay registers the handlers of what it passes; a step that stopped  *)
(* has nothing after it.                                                   *)
ReplayRegisters(e) ==
  /\ e.pc <= Len(Program) =>
       \A i \in Items : \A x \in StepsOf(i) : i < e.pc /\ Pended(e.cp, x) => x \in e.handlers
  /\ \A s \in Agents : /\ e.tasks[s].st # "new" /\ Pended(e.cp, s) => e.poisoned \/ s \in e.handlers
                       /\ e.tasks[s].st \notin {"new", "done"} => NothingBeyond(e)

(* What leads from an error to the commit of the failure, if no store call *)
(* throws (f) and the lease is kept.                                       *)
UndoesAll(e, f) ==
  /\ e.phase = "working" => ReplayRegisters(e)
  /\ e.phase = "failing" /\ ~e.aborted =>
       e.status = "running" /\ (e.error = "error" /\ ~e.poisoned => HasHandlers(e))
  /\ e.phase \in {"compensating", "undoing", "undone"} => e.status = "running" /\ HasHandlers(e)
  /\ e.phase = "undoFailed" => e.status = "running" /\ (e.poisoned => e.lost \/ f > 0)
  /\ e.phase = "committing" => e.lost \/ f > 0 \/ (~e.poisoned /\ IsUndone(e.cp))
  /\ e.phase # "expired"

AreOver(cp, k) == \A c \in RunningChildren(cp) : k[c].status \in Terminal

StopsWell(e, f, k) ==
  /\ Declared(e.cp)
  /\ Undoable => UndoesAll(e, f)
  /\ e.phase = "cancelling" => AreOver(e.cp, k)
  /\ Unpaused => e.phase \notin {"child", "answered", "expired"}

(* The same of the run itself, once it has failed or was cancelled. *)
StopIsWhole(s, f, k) ==
  /\ Declared(s.cp)
  /\ Undoable => (s.status = "failed" /\ f = 0 => IsUndone(s.cp))
  /\ Unpaused => (s.status = "cancelled" => AreOver(s.cp, k))

StopInv ==
  /\ StopIsWhole(stored, failures, child)
  /\ \A o \in Owners : StopsWell(exec[o], failures, child)
  /\ Unpaused => \A c \in Children : child[c].status # "paused"

-----------------------------------------------------------------------------
(* What a step may do to children that are over, or never paused. *)
ChildrenSettle(k, l) ==
  \A c \in Children : /\ k[c].status \in Terminal => l[c].status \in Terminal
                      /\ Unpaused /\ k[c].status # "paused" => l[c].status # "paused"

LEMMA NothingSettles == \A k : ChildrenSettle(k, k)
BY DEF ChildrenSettle

LEMMA RunningChildrenAreReal ==
  ASSUME NEW cp, NEW k, SoundCheckpoint(cp, k)
  PROVE  RunningChildren(cp) \subseteq Children
BY DEF RunningChildren, SoundCheckpoint, Recorded, ChildIsReal

LEMMA OverStays ==
  ASSUME NEW cp, NEW k, NEW l, SoundCheckpoint(cp, k), ChildrenSettle(k, l), AreOver(cp, k)
  PROVE  AreOver(cp, l)
BY RunningChildrenAreReal DEF AreOver, ChildrenSettle

LEMMA StopStaysWhole ==
  ASSUME NEW s, NEW f \in Nat, NEW k, StopIsWhole(s, f, k), SoundCheckpoint(s.cp, k),
         NEW t, t.cp = s.cp, t.status = s.status, NEW g \in {f, f + 1},
         NEW l, ChildrenSettle(k, l)
  PROVE  StopIsWhole(t, g, l)
<1>1. g = 0 => f = 0
  OBVIOUS
<1>2. Unpaused => (t.status = "cancelled" => AreOver(t.cp, l))
  BY OverStays DEF StopIsWhole
<1> QED BY <1>1, <1>2 DEF StopIsWhole

(* What the invariant looks at; a refusal or an abort asks for less. *)
Alike(e, h) ==
  /\ h.phase = e.phase /\ h.cp = e.cp /\ h.status = e.status /\ h.error = e.error
  /\ h.handlers = e.handlers /\ h.pc = e.pc /\ h.tasks = e.tasks /\ h.poisoned = e.poisoned
  /\ e.aborted => h.aborted
  /\ e.lost => h.lost

LEMMA AlikeStops ==
  ASSUME NEW e, NEW f, NEW k, StopsWell(e, f, k), NEW h, Alike(e, h)
  PROVE  StopsWell(h, f, k)
<1>1. ReplayRegisters(e) => ReplayRegisters(h)
  BY DEF ReplayRegisters, Alike, NothingBeyond
<1>2. HasHandlers(e) => HasHandlers(h)
  BY DEF HasHandlers, Alike
<1>3. UndoesAll(e, f) => UndoesAll(h, f)
  BY <1>1, <1>2 DEF UndoesAll, Alike
<1> QED BY <1>3 DEF StopsWell, Alike

LEMMA StoppingStays ==
  ASSUME NEW e, NEW f \in Nat, NEW k, StopsWell(e, f, k), SoundCheckpoint(e.cp, k),
         NEW g \in {f, f + 1}, NEW l, ChildrenSettle(k, l)
  PROVE  StopsWell(e, g, l)
<1>1. f > 0 => g > 0
  OBVIOUS
<1>2. UndoesAll(e, f) => UndoesAll(e, g)
  BY <1>1 DEF UndoesAll
<1>3. AreOver(e.cp, k) => AreOver(e.cp, l)
  BY OverStays
<1> QED BY <1>2, <1>3 DEF StopsWell

LEMMA RefusedStops ==
  ASSUME NEW e \in Attempts, NEW f \in Nat, NEW k, StopsWell(e, f + 1, k)
  PROVE  StopsWell(Refused(e), f, k)
<1> DEFINE h == Refused(e)
<1>1. Alike(e, h) /\ h.lost /\ h.aborted
  BY DEF Alike, Refused, Attempts
<1> HIDE DEF h
<1>2. StopsWell(h, f + 1, k)
  BY <1>1, AlikeStops
<1>3. UndoesAll(h, f + 1) => UndoesAll(h, f)
  BY <1>1 DEF UndoesAll
<1>4. StopsWell(h, f, k)
  BY <1>2, <1>3 DEF StopsWell
<1> QED BY <1>4 DEF h

Loud == {"working", "failing", "compensating", "undoing", "undone", "undoFailed", "committing",
         "cancelling", "child", "answered", "expired"}
LEMMA QuietStops ==
  ASSUME NEW e, e.phase \notin Loud, Declared(e.cp), NEW f, NEW k
  PROVE  StopsWell(e, f, k)
BY DEF StopsWell, UndoesAll, Loud

(* An attempt that fails has the handlers it may need. *)
LEMMA FailingStops ==
  ASSUME NEW e, e.phase = "failing", Declared(e.cp), e.status = "running",
         e.aborted \/ e.poisoned \/ e.error = "conflict" \/ (Undoable => HasHandlers(e)),
         NEW f, NEW k
  PROVE  StopsWell(e, f, k)
BY DEF StopsWell, UndoesAll

(* One attempt moves. *)
LEMMA OneAttemptStops ==
  ASSUME EngineInv, StopInv, NEW o \in Owners, NEW e,
         exec' = [exec EXCEPT ![o] = e] \/ exec' = Installed(o, e),
         failures' \in {failures, failures + 1}, ChildrenSettle(child, child'),
         StopsWell(e, failures', child'), StopIsWhole(stored', failures', child')
  PROVE  StopInv'
<1>1. failures \in Nat /\ exec \in [Owners -> Attempts]
  BY StateOfType DEF EngineInv
<1>2. ASSUME NEW p \in Owners PROVE StopsWell(exec'[p], failures', child')
  <2>1. CASE p = o
    <3>1. exec'[p] = e
      BY <2>1, <1>1 DEF Installed
    <3> QED BY <3>1
  <2>2. CASE p # o
    <3>1. exec'[p] = exec[p] \/ exec'[p] = [exec[p] EXCEPT !.fresh = FALSE]
      BY <2>2, <1>1 DEF Installed
    <3>2. StopsWell(exec[p], failures, child) /\ SoundCheckpoint(exec[p].cp, child)
      BY AttemptOfInv DEF StopInv
    <3>3. StopsWell(exec[p], failures', child')
      BY <1>1, <3>2, StoppingStays
    <3>4. Alike(exec[p], exec'[p])
      BY <3>1, <1>1 DEF Alike, Attempts
    <3> QED BY <3>3, <3>4, AlikeStops
  <2> QED BY <2>1, <2>2
<1>3. Unpaused => \A c \in Children : child'[c].status # "paused"
  BY DEF StopInv, ChildrenSettle
<1> QED BY <1>2, <1>3 DEF StopInv

(* Commits. *)
LEMMA StopOfInv ==
  ASSUME EngineInv, StopInv, NEW o \in Owners
  PROVE  /\ StopsWell(exec[o], failures, child) /\ Declared(exec[o].cp)
         /\ StopIsWhole(stored, failures, child) /\ Declared(stored.cp)
         /\ failures \in Nat /\ failures + 1 \in Nat /\ failures + 1 # 0 /\ failures + 1 > 0
         /\ SoundCheckpoint(stored.cp, child)
         /\ exec \in [Owners -> Attempts] /\ exec[o] \in Attempts
         /\ Undoable => UndoesAll(exec[o], failures)
<1>1. failures \in Nat /\ exec \in [Owners -> Attempts]
  BY StateOfType DEF EngineInv
<1>2. failures + 1 \in Nat /\ failures + 1 # 0 /\ failures + 1 > 0
  BY <1>1
<1> QED BY <1>1, <1>2 DEF StopInv, StopsWell, StopIsWhole, EngineInv, StoreIsSound

LEMMA WholeLater ==
  ASSUME NEW s, NEW f \in Nat, NEW k, StopIsWhole(s, f, k)
  PROVE  StopIsWhole(s, f + 1, k)
<1>1. f + 1 # 0
  OBVIOUS
<1> QED BY <1>1 DEF StopIsWhole

(* The run stays as it is, up to its lease. *)
LEMMA AttemptStops ==
  ASSUME EngineInv, StopInv, NEW o \in Owners, NEW e, exec' = [exec EXCEPT ![o] = e],
         stored'.cp = stored.cp, stored'.status = stored.status,
         failures' \in {failures, failures + 1}, ChildrenSettle(child, child'),
         StopsWell(e, failures', child')
  PROVE  StopInv'
<1>1. StopIsWhole(stored', failures', child')
  BY StopOfInv, StopStaysWhole
<1> QED BY <1>1, OneAttemptStops

LEMMA CommitStops ==
  ASSUME EngineInv, StopInv, NEW o \in Owners, NEW img, NEW ok, NEW thrown \in Attempts,
         CommitStep(o, img, ok, thrown), ChildrenSettle(child, child'),
         StopsWell(thrown, failures + 1, child'),
         StoreAccepts(o) /\ ~exec[o].lost =>
           StopsWell(ok, failures, child') /\ StopIsWhole(img, failures, child')
  PROVE  StopInv'
<1>1. failures \in Nat
  BY StopOfInv
<1>2. CASE /\ StoreAccepts(o) /\ ~exec[o].lost
           /\ stored' = img /\ exec' = Installed(o, ok) /\ UNCHANGED failures
  BY <1>2, OneAttemptStops
<1>3. CASE exec' = [exec EXCEPT ![o] = Refused(thrown)] /\ UNCHANGED <<stored, failures>>
  <2>1. StopsWell(Refused(thrown), failures, child')
    BY <1>1, RefusedStops
  <2> QED BY <1>3, <2>1, AttemptStops
<1>4. CASE exec' = [exec EXCEPT ![o] = thrown] /\ UNCHANGED stored /\ failures' = failures + 1
  BY <1>4, AttemptStops
<1>5. CASE /\ StoreAccepts(o) /\ ~exec[o].lost /\ stored' = img /\ failures' = failures + 1
           /\ exec' = Installed(o, [thrown EXCEPT !.fresh = FALSE])
  <2> DEFINE h == [thrown EXCEPT !.fresh = FALSE]
  <2>1. Alike(thrown, h)
    BY DEF Alike, Attempts
  <2>2. exec' = Installed(o, h)
    BY <1>5
  <2> HIDE DEF h
  <2>3. StopsWell(h, failures', child')
    BY <1>5, <2>1, AlikeStops
  <2>4. StopIsWhole(stored', failures', child')
    BY <1>1, <1>5, WholeLater
  <2> QED BY <1>5, <2>2, <2>3, <2>4, OneAttemptStops
<1> QED BY <1>2, <1>3, <1>4, <1>5 DEF CommitStep

LEMMA RunningIsWhole ==
  ASSUME NEW s, s.status \in Active, Declared(s.cp), NEW f, NEW k
  PROVE  StopIsWhole(s, f, k)
BY DEF StopIsWhole, Active

(* A rejection before the update and one after it. *)
LEMMA QueuedStops ==
  ASSUME EngineInv, StopInv, NEW o \in Owners, NEW cp, NEW ok, NEW bad \in Attempts,
         QueuedCommit(o, cp, ok, bad), ChildrenSettle(child, child'),
         exec[o].poisoned \/ exec[o].status # "running" =>
           StopsWell([bad EXCEPT !.poisoned = TRUE], failures, child'),
         ~exec[o].poisoned => cp \in Checkpoints /\ Declared(cp),
         ~exec[o].poisoned =>
           StopsWell([bad EXCEPT !.cp = cp, !.poisoned = TRUE], failures + 1, child'),
         ~exec[o].poisoned /\ StoreAccepts(o) => StopsWell([ok EXCEPT !.cp = cp], failures, child')
  PROVE  StopInv'
<1>1. CASE exec[o].poisoned \/ exec[o].status # "running"
  <2>1. /\ exec' = [exec EXCEPT ![o] = [bad EXCEPT !.poisoned = TRUE]]
        /\ UNCHANGED <<stored, failures>>
    BY <1>1 DEF QueuedCommit
  <2> QED BY <1>1, <2>1, AttemptStops
<1>2. CASE ~(exec[o].poisoned \/ exec[o].status # "running")
  <2> DEFINE img == [stored EXCEPT !.cp = cp, !.status = "running", !.pause = {}]
             fine == [ok EXCEPT !.cp = cp]
             thrown == [bad EXCEPT !.cp = cp, !.poisoned = TRUE]
  <2>1. CommitStep(o, img, fine, thrown)
    BY <1>2 DEF QueuedCommit
  <2>2. img.cp = cp /\ img.status = "running"
    BY StateOfType DEF EngineInv, Stores
  <2>3. thrown \in Attempts
    BY <1>2 DEF Attempts
  <2>4. StopsWell(thrown, failures + 1, child')
    BY <1>2
  <2>5. StoreAccepts(o) => StopsWell(fine, failures, child')
    BY <1>2
  <2> HIDE DEF img, fine, thrown
  <2>6. StopIsWhole(img, failures, child')
    BY <1>2, <2>2, RunningIsWhole DEF Active
  <2> QED BY <2>1, <2>3, <2>4, <2>5, <2>6, CommitStops
<1> QED BY <1>1, <1>2

LEMMA OverStops ==
  ASSUME NEW e \in Attempts, Declared(e.cp), NEW f, NEW k
  PROVE  StopsWell(Over(e), f, k)
<1> DEFINE h == Over(e)
<1>1. h.phase = "over" /\ h.cp = e.cp
  BY DEF Over, Attempts
<1> HIDE DEF h
<1>2. StopsWell(h, f, k)
  BY <1>1, QuietStops DEF Loud
<1> QED BY <1>2 DEF h

LEMMA ReleaseStops ==
  ASSUME EngineInv, StopInv, NEW o \in Owners, Release(o), ChildrenSettle(child, child'),
         failures' \in {failures, failures + 1}
  PROVE  StopInv'
<1>1. stored'.cp = stored.cp /\ stored'.status = stored.status
  BY StateOfType DEF Release, FreedBy, EngineInv, Stores
<1>2. StopsWell(Over(exec[o]), failures', child')
  BY StopOfInv, OverStops
<1>3. exec' = [exec EXCEPT ![o] = Over(exec[o])]
  BY DEF Release
<1> QED BY <1>1, <1>2, <1>3, AttemptStops

LEMMA ReleasingStops ==
  ASSUME EngineInv, StopInv, NEW o \in Owners, NEW img, NEW ok,
         ReleasingCommit(o, img, ok), UNCHANGED child,
         StoreAccepts(o) => img \in Stores /\ StopsWell(ok, failures, child)
                            /\ StopIsWhole(img, failures, child)
  PROVE  StopInv'
<1>1. failures \in Nat /\ ChildrenSettle(child, child') /\ exec[o] \in Attempts /\ Declared(exec[o].cp)
  BY StopOfInv, NothingSettles
<1>2. CASE /\ StoreAccepts(o) /\ stored' = img /\ exec' = Installed(o, ok) /\ UNCHANGED failures
  BY <1>1, <1>2, OneAttemptStops
<1>3. CASE Release(o) /\ (failures' = failures \/ failures' = failures + 1)
  BY <1>1, <1>3, ReleaseStops
<1>4. CASE /\ StoreAccepts(o) /\ stored' = [img EXCEPT !.holder = NoOwner]
           /\ exec' = Installed(o, Over(exec[o])) /\ failures' = failures + 1
  <2>1. stored'.cp = img.cp /\ stored'.status = img.status
    BY <1>4 DEF Stores
  <2>2. StopIsWhole(img, failures', child')
    BY <1>1, <1>4, WholeLater
  <2>3. StopIsWhole(stored', failures', child')
    BY <2>1, <2>2 DEF StopIsWhole
  <2>4. StopsWell(Over(exec[o]), failures', child')
    BY <1>1, OverStops
  <2> QED BY <1>1, <1>4, <2>3, <2>4, OneAttemptStops
<1> QED BY <1>2, <1>3, <1>4 DEF ReleasingCommit

LEMMA EndingStops ==
  ASSUME EngineInv, StopInv, NEW o \in Owners, NEW status \in Terminal,
         EndingCommit(o, Ended(status)), UNCHANGED child,
         StoreAccepts(o) => /\ status = "failed" /\ Undoable /\ failures = 0 => IsUndone(stored.cp)
                            /\ status = "cancelled" /\ Unpaused => AreOver(stored.cp, child)
  PROVE  StopInv'
<1> DEFINE img == FreedBy(o, Ended(status))
<1>1. img \in Stores /\ img.cp = stored.cp /\ img.status = status
  <2>1. stored \in Stores
    BY StateOfType DEF EngineInv
  <2> QED BY <2>1 DEF Ended, FreedBy, Stores, Statuses
<1>2. ReleasingCommit(o, img, Over(exec[o]))
  BY DEF EndingCommit
<1> HIDE DEF img
<1>3. StopsWell(Over(exec[o]), failures, child)
  BY StopOfInv, OverStops
<1>4. StoreAccepts(o) => StopIsWhole(img, failures, child)
  BY <1>1, StopOfInv DEF StopIsWhole
<1> QED BY <1>1, <1>2, <1>3, <1>4, ReleasingStops

-----------------------------------------------------------------------------
(* Children that are over stay so.                                         *)

LEMMA WorkerSettles ==
  ASSUME EngineInv, NEW c, NEW w PROVE ChildrenSettle(child, [child EXCEPT ![c].worker = w])
BY StateOfType DEF EngineInv, ChildStates, ChildrenSettle

LEMMA EndingSettles ==
  ASSUME EngineInv, NEW c \in Children, child[c].status = "running", NEW status,
         status = "paused" => "paused" \in Outcomes
  PROVE  ChildrenSettle(child, ChildEnded(c, status))
BY StateOfType DEF EngineInv, ChildStates, ChildrenSettle, ChildEnded, Terminal, Unpaused

LEMMA CancellingSettles ==
  ASSUME EngineInv, NEW cs PROVE ChildrenSettle(child, CancelAll(cs))
BY StateOfType DEF EngineInv, ChildStates, ChildrenSettle, CancelAll, Terminal

LEMMA LosingSettles ==
  ASSUME EngineInv, NEW c, NEW o, ChildLosesLease(c, o)
  PROVE  ChildrenSettle(child, child') /\ failures' \in {failures, failures + 1}
BY WorkerSettles, NothingSettles DEF ChildLosesLease

-----------------------------------------------------------------------------
(* The replay registers the handlers of what it passes.                    *)

LEMMA ReplayStops ==
  ASSUME NEW e, e.phase = "working", Declared(e.cp), Undoable => ReplayRegisters(e),
         NEW f, NEW k
  PROVE  StopsWell(e, f, k)
BY DEF StopsWell, UndoesAll

LEMMA TaskStops ==
  ASSUME NEW e \in Attempts, e.phase = "working", NEW g, NEW k, StopsWell(e, g, k),
         NEW a \in Agents, e.pc \in Items, a \in Tasks(e.pc), NEW t, NEW f, TaskMoved(f, e, a, t),
         Declared(f.cp), \A x \in StepIds \ {a} : f.cp.steps[x] = e.cp.steps[x],
         e.handlers \subseteq f.handlers, e.poisoned => f.poisoned,
         Pended(f.cp, a) => f.poisoned \/ a \in f.handlers,
         t.st \notin {"new", "done"} => e.tasks[a].st \notin {"new", "done"} \/ NothingBeyond(e),
         NEW h, NEW l
  PROVE  StopsWell(f, h, l)
<1>1. /\ f.phase = "working" /\ f.pc = e.pc /\ f.tasks[a] = t /\ a \in StepIds
      /\ \A b \in Agents \ {a} : f.tasks[b] = e.tasks[b]
  BY ProgramIsTyped DEF TaskMoved, Attempts
<1>2. \A i \in Items : \A x \in StepsOf(i) : i # e.pc => x # a /\ x \in StepIds
  BY ProgramIsTyped, StepsAreDistinct DEF StepsOf
<1>3. SUFFICES ASSUME Undoable PROVE ReplayRegisters(f)
  BY <1>1, ReplayStops
<1>4. ReplayRegisters(e)
  BY <1>3 DEF StopsWell, UndoesAll
<1>5. ASSUME NothingBeyond(e) PROVE NothingBeyond(f)
  <2> SUFFICES ASSUME NEW j \in Items, NEW x \in StepsOf(j), f.pc < j PROVE ~Recorded(f.cp, x)
    BY DEF NothingBeyond
  <2>1. ~Recorded(e.cp, x) /\ j # e.pc
    BY <1>1, <1>5, ProgramIsTyped DEF NothingBeyond
  <2> QED BY <1>2, <2>1 DEF Recorded
<1>6. ASSUME f.pc <= Len(Program), NEW i \in Items, NEW x \in StepsOf(i), i < f.pc, Pended(f.cp, x)
      PROVE  x \in f.handlers
  <2>1. x \in StepIds \ {a}
    BY <1>1, <1>2, <1>6, ProgramIsTyped
  <2> QED BY <1>1, <1>4, <1>6, <2>1 DEF ReplayRegisters, Pended
<1>7. ASSUME NEW s \in Agents, f.tasks[s].st # "new", Pended(f.cp, s)
      PROVE  f.poisoned \/ s \in f.handlers
  BY <1>1, <1>4, <1>7, ProgramIsTyped DEF ReplayRegisters, Pended
<1>8. ASSUME NEW s \in Agents, f.tasks[s].st \notin {"new", "done"} PROVE NothingBeyond(f)
  BY <1>1, <1>4, <1>5, <1>8 DEF ReplayRegisters
<1> QED BY <1>6, <1>7, <1>8 DEF ReplayRegisters

(* A step that is not done yet has nothing after it. *)
LEMMA CurrentIsLast ==
  ASSUME NEW e, NEW k, SoundCheckpoint(e.cp, k), e.pc \in Items, NEW a \in StepsOf(e.pc), ~Done(e.cp, a)
  PROVE  NothingBeyond(e) /\ e.cp.steps[a].comp = "none"
<1>1. a \in StepIds
  BY ProgramIsTyped
<1> QED BY <1>1 DEF NothingBeyond, SoundCheckpoint

(* What TaskStops needs of an attempt whose task moves. *)
LEMMA TaskOfStop ==
  ASSUME EngineInv, StopInv, NEW o \in Owners, exec[o].phase = "working", NEW s \in Agents,
         exec[o].tasks[s].st # "new" \/ TaskMayStart(o, s)
  PROVE  /\ exec[o] \in Attempts /\ exec[o].pc \in Items /\ s \in Tasks(exec[o].pc)
         /\ s \in StepsOf(exec[o].pc) /\ s \in StepIds /\ Declared(exec[o].cp)
         /\ StopsWell(exec[o], failures, child)
         /\ ~Done(exec[o].cp, s) => NothingBeyond(exec[o]) /\ exec[o].cp.steps[s].comp = "none"
         /\ exec[o].tasks[s].st \in {"running", "recovered", "settled", "paused", "reporting", "created"} =>
              ~Done(exec[o].cp, s)
<1>1. /\ exec[o].pc \in Items /\ s \in Tasks(exec[o].pc) /\ TaskIsSound(exec[o], child, s)
      /\ s \in StepsOf(exec[o].pc)
  BY CurrentTask DEF StepsOf
<1>2. SoundCheckpoint(exec[o].cp, child) /\ exec[o] \in Attempts
  BY AttemptOfInv
<1>3. exec[o].tasks[s].st \in {"running", "recovered", "settled", "paused", "reporting", "created"} =>
        ~Done(exec[o].cp, s)
  BY <1>1 DEF TaskIsSound, Done, Recorded
<1> QED BY <1>1, <1>2, <1>3, CurrentIsLast, StopOfInv, ProgramIsTyped

(* A task moves on in memory. *)
LEMMA TaskStopsAlone ==
  ASSUME EngineInv, StopInv, NEW o \in Owners, exec[o].phase = "working", NEW a \in Agents,
         exec[o].tasks[a].st # "new" \/ TaskMayStart(o, a),
         NEW t, NEW f, TaskMoved(f, exec[o], a, t), f.cp = exec[o].cp,
         exec[o].handlers \subseteq f.handlers, exec[o].poisoned => f.poisoned,
         ~Done(exec[o].cp, a) \/ (t.st = "done" /\ (a \in Compensated => a \in f.handlers)),
         exec' = [exec EXCEPT ![o] = f], UNCHANGED stored,
         failures' \in {failures, failures + 1}, ChildrenSettle(child, child')
  PROVE  StopInv'
<1> DEFINE e == exec[o]
<1>1. /\ e \in Attempts /\ e.pc \in Items /\ a \in Tasks(e.pc) /\ StopsWell(e, failures, child)
      /\ Declared(e.cp) /\ a \in StepIds
      /\ ~Done(e.cp, a) => NothingBeyond(e) /\ e.cp.steps[a].comp = "none"
  BY TaskOfStop
<1>2. Pended(f.cp, a) => f.poisoned \/ a \in f.handlers
  BY <1>1 DEF Pended, Declared
<1>3. t.st \notin {"new", "done"} => e.tasks[a].st \notin {"new", "done"} \/ NothingBeyond(e)
  BY <1>1
<1> HIDE DEF e
<1>4. StopsWell(f, failures', child')
  BY <1>1, <1>2, <1>3, TaskStops DEF e
<1> QED BY <1>4, AttemptStops

LEMMA TookHandlers ==
  ASSUME NEW e \in Attempts, NEW a, NEW st, NEW c
  PROVE  /\ Took(e, a, st, c).handlers = e.handlers /\ Took(e, a, st, c).cp = e.cp
         /\ Took(e, a, st, c).poisoned = e.poisoned
BY DEF Took, With, Attempts

LEMMA TookStops ==
  ASSUME EngineInv, StopInv, NEW o \in Owners, NEW s \in Agents, TaskMayStart(o, s),
         ~Done(exec[o].cp, s), NEW st \in TaskStates, NEW c \in Children,
         exec' = [exec EXCEPT ![o] = Took(exec[o], s, st, c)], UNCHANGED <<stored, failures>>,
         ChildrenSettle(child, child')
  PROVE  StopInv'
<1> DEFINE e == exec[o]
           h == Took(e, s, st, c)
           t == [[e.tasks[s] EXCEPT !.st = st] EXCEPT !.child = c]
<1>1. e \in Attempts /\ e.phase = "working"
  BY AttemptOfInv DEF TaskMayStart, Working
<1>2. TaskMoved(h, e, s, t)
  <2>1. c \in Children /\ st \in TaskStates /\ s \in Agents
    OBVIOUS
  <2> HIDE DEF e
  <2> QED BY <1>1, <2>1, TookFields
<1>3. h.cp = e.cp /\ h.poisoned = e.poisoned /\ h.handlers = e.handlers
  <2> HIDE DEF e
  <2> QED BY <1>1, TookHandlers
<1>4. exec' = [exec EXCEPT ![o] = h]
  OBVIOUS
<1> HIDE DEF h, t
<1> QED BY <1>1, <1>2, <1>3, <1>4, TaskStopsAlone

LEMMA ReuseStops ==
  ASSUME EngineInv, StopInv, NEW o \in Owners, NEW s \in Agents, ReuseRecord(o, s) PROVE StopInv'
<1> DEFINE e == exec[o]
           c == e.cp.steps[s].child
           f == Handled(With(e, s, "done"), s)
<1>1. /\ e.phase = "working" /\ TaskMayStart(o, s) /\ e \in Attempts /\ s \in StepIds
      /\ UNCHANGED <<stored, failures>>
      /\ e.tasks[s] \in [st : TaskStates, child : Children \cup {NoChild}]
  BY AttemptOfInv, ProgramIsTyped, CurrentTask DEF ReuseRecord, TaskMayStart, Working
<1>2. CASE exec' = [exec EXCEPT ![o] = f] /\ UNCHANGED child
  <2> DEFINE t == [e.tasks[s] EXCEPT !.st = "done"]
             w == With(e, s, "done")
  <2>1. "done" \in TaskStates /\ t.st = "done"
    BY <1>1 DEF TaskStates
  <2> HIDE DEF e
  <2>2. w \in Attempts /\ TaskMoved(w, e, s, t) /\ w.cp = e.cp /\ w.poisoned = e.poisoned
        /\ w.handlers = e.handlers
    BY <1>1, <2>1, WithFields
  <2> HIDE DEF w, t
  <2>3. /\ TaskMoved(f, e, s, t) /\ f.cp = e.cp /\ f.poisoned = e.poisoned
        /\ e.handlers \subseteq f.handlers /\ (s \in Compensated => s \in f.handlers)
    <3>1. /\ f.phase = w.phase /\ f.status = w.status /\ f.cp = w.cp /\ f.pause = w.pause
          /\ f.poisoned = w.poisoned /\ f.pc = w.pc /\ f.open = w.open /\ f.cursor = w.cursor
          /\ f.tasks = w.tasks
          /\ f.handlers = IF s \in Compensated THEN w.handlers \cup {s} ELSE w.handlers
      BY <1>1, <2>2, HandledFields DEF w
    <3> HIDE DEF f
    <3>2. TaskMoved(f, e, s, t)
      BY <2>2, <3>1 DEF TaskMoved
    <3> QED BY <2>2, <3>1, <3>2
  <2> HIDE DEF f
  <2>4. ChildrenSettle(child, child')
    BY <1>2, NothingSettles
  <2> QED BY <1>1, <1>2, <2>1, <2>3, <2>4, TaskStopsAlone DEF e
<1>3. CASE /\ e.cp.steps[s].status = "running" /\ ChildrenSettle(child, child')
           /\ \E st \in {"recovered", "conflict", "failed", "settled", "paused"} :
                exec' = [exec EXCEPT ![o] = [With(e, s, st) EXCEPT !.tasks[s].child = c]]
  <2>1. PICK st \in {"recovered", "conflict", "failed", "settled", "paused"} :
          exec' = [exec EXCEPT ![o] = Took(e, s, st, c)]
    BY <1>3 DEF Took
  <2>2. c \in Children /\ st \in TaskStates
    BY <1>1, <1>3, <2>1, ChildOfRecord DEF Recorded, TaskMayStart, TaskStates
  <2>3. ~Done(e.cp, s)
    BY <1>3 DEF Done
  <2> QED BY <1>1, <1>3, <2>1, <2>2, <2>3, TookStops
<1>4. ChildrenSettle(child, [child EXCEPT ![c].worker = o]) /\ ChildrenSettle(child, child)
  BY WorkerSettles, NothingSettles
<1>5. \/ exec' = [exec EXCEPT ![o] = f] /\ UNCHANGED child
      \/ /\ e.cp.steps[s].status = "running"
         /\ child' = [child EXCEPT ![c].worker = o] \/ child' = child
         /\ \E st \in {"recovered", "conflict", "failed", "settled", "paused"} :
              exec' = [exec EXCEPT ![o] = [With(e, s, st) EXCEPT !.tasks[s].child = c]]
  BY DEF ReuseRecord
<1> HIDE DEF f
<1> QED BY <1>2, <1>3, <1>4, <1>5

LEMMA CreateStops ==
  ASSUME EngineInv, StopInv, NEW o \in Owners, NEW s \in Agents, CreateChild(o, s) PROVE StopInv'
<1> DEFINE e == exec[o]
           c == <<s, NextChild(s)>>
<1>1. /\ e.phase = "working" /\ TaskMayStart(o, s) /\ e \in Attempts /\ UNCHANGED stored
      /\ ~Done(e.cp, s) /\ NextChild(s) <= MaxChildren
      /\ e.tasks[s] \in [st : TaskStates, child : Children \cup {NoChild}]
  BY AttemptOfInv, CurrentTask DEF CreateChild, TaskMayStart, Working, Done
<1>2. CASE /\ child' = [child EXCEPT ![c] = [status |-> "running", worker |-> o,
                                             able |-> e.cp.budget < StepLimit]]
           /\ exec' = [exec EXCEPT ![o] = [With(e, s, "created") EXCEPT !.tasks[s].child = c]]
           /\ UNCHANGED failures
  <2>1. c \in Children /\ child[c].status = "none" /\ "created" \in TaskStates
    BY <1>1, NextChildIsNew DEF Children, TaskStates
  <2>2. exec' = [exec EXCEPT ![o] = Took(e, s, "created", c)]
    BY <1>2 DEF Took
  <2>3. ChildrenSettle(child, child')
    BY <1>2, <2>1, StateOfType DEF EngineInv, ChildStates, ChildrenSettle, Terminal
  <2>4. UNCHANGED <<stored, failures>>
    BY <1>1, <1>2
  <2> HIDE DEF c
  <2> QED BY <1>1, <2>1, <2>2, <2>3, <2>4, TookStops
<1>3. CASE failures' = failures + 1 /\ exec' = [exec EXCEPT ![o] = With(e, s, "failed")] /\ UNCHANGED child
  <2> DEFINE h == With(e, s, "failed")
             t == [e.tasks[s] EXCEPT !.st = "failed"]
  <2>1. TaskMoved(h, e, s, t) /\ h.cp = e.cp /\ h.poisoned = e.poisoned /\ h.handlers = e.handlers
    <3>1. "failed" \in TaskStates
      BY DEF TaskStates
    <3> HIDE DEF e
    <3> QED BY <1>1, <3>1, WithFields
  <2>2. exec' = [exec EXCEPT ![o] = h] /\ ChildrenSettle(child, child')
    BY <1>3, NothingSettles
  <2> HIDE DEF h, t
  <2> QED BY <1>1, <1>3, <2>1, <2>2, TaskStopsAlone
<1> QED BY <1>2, <1>3 DEF CreateChild

(* A task whose child was at work gets another state. *)
LEMMA TurnStops ==
  ASSUME EngineInv, StopInv, NEW o \in Owners, NEW s \in Agents, exec[o].phase = "working",
         exec[o].tasks[s].st \in {"running", "recovered"}, NEW st \in TaskStates,
         NEW f, f = With(exec[o], s, st) \/ \E b \in {With(exec[o], s, st)} : f = [b EXCEPT !.poisoned = TRUE],
         exec' = [exec EXCEPT ![o] = f] \/ exec' = [exec EXCEPT ![o] = Refused(f)], UNCHANGED stored,
         failures' \in {failures, failures + 1}, ChildrenSettle(child, child')
  PROVE  StopInv'
<1> DEFINE e == exec[o]
           w == With(e, s, st)
           t == [e.tasks[s] EXCEPT !.st = st]
<1>1. e \in Attempts /\ ~Done(e.cp, s)
  BY TaskOfStop
<1>2. w \in Attempts /\ TaskMoved(w, e, s, t) /\ w.cp = e.cp /\ w.poisoned = e.poisoned /\ w.handlers = e.handlers
  <2> HIDE DEF e
  <2> QED BY <1>1, WithFields
<1>3. f = w \/ f = [w EXCEPT !.poisoned = TRUE]
  OBVIOUS
<1> HIDE DEF w, t
<1>4. PICK h \in {f, Refused(f)} : exec' = [exec EXCEPT ![o] = h]
  OBVIOUS
<1>5. /\ f \in Attempts /\ TaskMoved(f, e, s, t) /\ f.cp = e.cp
      /\ (e.poisoned => f.poisoned) /\ f.handlers = e.handlers
  <2>1. CASE f = w
    BY <1>2, <2>1
  <2>2. CASE f = [w EXCEPT !.poisoned = TRUE]
    BY <1>2, <2>2 DEF TaskMoved, Attempts
  <2> QED BY <1>3, <2>1, <2>2
<1>6. TaskMoved(h, e, s, t) /\ h.cp = e.cp /\ (e.poisoned => h.poisoned) /\ h.handlers = e.handlers
  <2>1. CASE h = f
    BY <1>5, <2>1
  <2>2. CASE h = Refused(f)
    BY <1>5, <2>2 DEF TaskMoved, Refused, Attempts
  <2> QED BY <1>4, <2>1, <2>2
<1> QED BY <1>1, <1>4, <1>6, TaskStopsAlone

LEMMA ChildEndsStops ==
  ASSUME EngineInv, StopInv, NEW o \in Owners, NEW s \in Agents, NEW status \in Terminal \cup Active,
         ChildEnds(o, s, status)
  PROVE  StopInv'
<1> DEFINE e == exec[o]
           t == e.tasks[s]
           st == StateAfter(t.st, status)
           f == With(e, s, st)
<1>1. /\ e.phase = "working" /\ t.st \in {"running", "recovered"}
      /\ child[t.child].status = "running" /\ child' = ChildEnded(t.child, status)
      /\ status = "paused" => "paused" \in Outcomes
      /\ exec' = [exec EXCEPT ![o] = f] /\ UNCHANGED <<stored, failures>>
  BY DEF ChildEnds, ChildMayEnd
<1>2. t.child \in Children
  BY <1>1, ChildAtWork
<1>3. ChildrenSettle(child, child')
  BY <1>1, <1>2, EndingSettles
<1>4. st \in TaskStates
  BY <1>1 DEF StateAfter, TaskStates
<1> HIDE DEF st
<1>5. f = With(e, s, st)
  OBVIOUS
<1> HIDE DEF f
<1> QED BY <1>1, <1>3, <1>4, <1>5, TurnStops

LEMMA ChildConflictsStops ==
  ASSUME EngineInv, StopInv, NEW o \in Owners, NEW s \in Agents, ChildConflicts(o, s)
  PROVE  StopInv'
<1>1. "conflict" \in TaskStates
  BY DEF TaskStates
<1>2. ChildrenSettle(child, child') /\ failures' \in {failures, failures + 1}
  BY LosingSettles DEF ChildConflicts
<1> DEFINE f == With(exec[o], s, "conflict")
<1>3. /\ exec' = [exec EXCEPT ![o] = f] /\ f = With(exec[o], s, "conflict") /\ UNCHANGED stored
      /\ exec[o].phase = "working" /\ exec[o].tasks[s].st \in {"running", "recovered"}
  BY DEF ChildConflicts
<1> HIDE DEF f
<1> QED BY <1>1, <1>2, <1>3, TurnStops

LEMMA RelayStops ==
  ASSUME EngineInv, StopInv, NEW o \in Owners, NEW s \in Agents, RelayFails(o, s) PROVE StopInv'
<1>1. "failed" \in TaskStates
  BY DEF TaskStates
<1> DEFINE f == [With(exec[o], s, "failed") EXCEPT !.poisoned = TRUE]
<1>2. exec' = [exec EXCEPT ![o] = f] \/ exec' = [exec EXCEPT ![o] = Refused(f)]
  BY DEF RelayFails
<1>3. ChildrenSettle(child, child') /\ failures' \in {failures, failures + 1}
  BY NothingSettles DEF RelayFails
<1>4. \E b \in {With(exec[o], s, "failed")} : f = [b EXCEPT !.poisoned = TRUE]
  OBVIOUS
<1> HIDE DEF f
<1> QED BY <1>1, <1>2, <1>3, <1>4, TurnStops DEF RelayFails

(* A record that is put is pending only where a handler is declared. *)
LEMMA PutDeclares ==
  ASSUME NEW cp, Checkpoint(cp), Declared(cp), NEW id \in StepIds, NEW c \in Children \cup {NoChild},
         NEW record \in {RunningRecord(c), CompletedRecord(id, c)}
  PROVE  /\ Checkpoint(Put(cp, id, record)) /\ Declared(Put(cp, id, record))
         /\ \A x \in StepIds : Put(cp, id, record).steps[x] = IF x = id THEN record ELSE cp.steps[x]
<1>1. /\ record \in Records /\ record.status # "none"
      /\ record.comp # "none" => id \in Compensated
  BY DEF RunningRecord, CompletedRecord, Records
<1>2. /\ Checkpoint(Put(cp, id, record))
      /\ \A x \in StepIds : Put(cp, id, record).steps[x] = IF x = id THEN record ELSE cp.steps[x]
  BY <1>1, PutKeepsType
<1> HIDE DEF Put
<1>3. Declared(Put(cp, id, record))
  BY <1>1, <1>2 DEF Declared
<1> QED BY <1>2, <1>3

(* A task commits, and fails if the commit is rejected. *)
LEMMA TaskCommitStops ==
  ASSUME EngineInv, StopInv, NEW o \in Owners, exec[o].phase = "working", NEW a \in Agents,
         exec[o].tasks[a].st \in {"created", "reporting", "settled"},
         NEW cp, NEW t, NEW ok \in Attempts, TaskMoved(ok, exec[o], a, t),
         exec[o].handlers \subseteq ok.handlers,
         QueuedCommit(o, cp, ok, With(exec[o], a, "failed")), UNCHANGED child,
         ~exec[o].poisoned => /\ cp \in Checkpoints /\ Declared(cp)
                              /\ \A x \in StepIds \ {a} : cp.steps[x] = exec[o].cp.steps[x]
                              /\ Pended(cp, a) => a \in ok.handlers
  PROVE  StopInv'
<1> DEFINE e == exec[o]
           bad == With(e, a, "failed")
           t2 == [e.tasks[a] EXCEPT !.st = "failed"]
<1>1. /\ e \in Attempts /\ e.pc \in Items /\ a \in Tasks(e.pc) /\ StopsWell(e, failures, child)
      /\ Declared(e.cp) /\ a \in StepIds /\ NothingBeyond(e) /\ e.phase = "working"
      /\ ChildrenSettle(child, child')
  BY TaskOfStop, NothingSettles
<1>2. bad \in Attempts /\ TaskMoved(bad, e, a, t2) /\ bad.cp = e.cp /\ bad.handlers = e.handlers
  <2>1. "failed" \in TaskStates
    BY DEF TaskStates
  <2> HIDE DEF e
  <2> QED BY <1>1, <2>1, WithFields
<1> HIDE DEF e, bad, t2
<1>3. ASSUME NEW f, TaskMoved(f, e, a, t2), f.handlers = e.handlers, f.poisoned, Declared(f.cp),
             \A x \in StepIds \ {a} : f.cp.steps[x] = e.cp.steps[x], NEW h
      PROVE  StopsWell(f, h, child')
  BY <1>1, <1>3, TaskStops
<1>4. StopsWell([bad EXCEPT !.poisoned = TRUE], failures, child')
  <2> DEFINE f == [bad EXCEPT !.poisoned = TRUE]
  <2>1. TaskMoved(f, e, a, t2) /\ f.handlers = e.handlers /\ f.poisoned /\ f.cp = e.cp
    BY <1>2 DEF Attempts, TaskMoved
  <2> HIDE DEF f
  <2>2. StopsWell(f, failures, child')
    BY <1>1, <1>3, <2>1
  <2> QED BY <2>2 DEF f
<1>5. ASSUME ~e.poisoned PROVE StopsWell([bad EXCEPT !.cp = cp, !.poisoned = TRUE], failures + 1, child')
  <2> DEFINE f == [bad EXCEPT !.cp = cp, !.poisoned = TRUE]
  <2>1. TaskMoved(f, e, a, t2) /\ f.handlers = e.handlers /\ f.poisoned /\ f.cp = cp
    BY <1>2 DEF Attempts, TaskMoved
  <2> HIDE DEF f
  <2>2. Declared(cp) /\ \A x \in StepIds \ {a} : cp.steps[x] = e.cp.steps[x]
    BY <1>5 DEF e
  <2>3. StopsWell(f, failures + 1, child')
    BY <1>3, <2>1, <2>2
  <2> QED BY <2>3 DEF f
<1>6. ASSUME ~e.poisoned PROVE StopsWell([ok EXCEPT !.cp = cp], failures, child')
  <2> DEFINE f == [ok EXCEPT !.cp = cp]
  <2>1. TaskMoved(f, e, a, t) /\ f.handlers = ok.handlers /\ f.cp = cp
    BY DEF Attempts, TaskMoved, e
  <2>2. /\ Declared(cp) /\ \A x \in StepIds \ {a} : cp.steps[x] = e.cp.steps[x]
        /\ Pended(cp, a) => a \in ok.handlers
        /\ e.handlers \subseteq ok.handlers
    BY <1>6 DEF e
  <2> HIDE DEF f
  <2>3. StopsWell(f, failures, child')
    BY <1>1, <1>6, <2>1, <2>2, TaskStops
  <2> QED BY <2>3 DEF f
<1>7. QueuedCommit(o, cp, ok, bad)
  BY DEF bad, e
<1> QED BY <1>1, <1>2, <1>4, <1>5, <1>6, <1>7, QueuedStops DEF e

LEMMA RecordStepStops ==
  ASSUME EngineInv, StopInv, NEW o \in Owners, NEW s \in Agents, RecordStep(o, s) PROVE StopInv'
<1> DEFINE e == exec[o]
           record == RunningRecord(e.tasks[s].child)
           cp == Put(e.cp, s, record)
           ok == With(e, s, "running")
           t == [e.tasks[s] EXCEPT !.st = "running"]
<1>1. /\ e.phase = "working" /\ e.tasks[s].st = "created" /\ UNCHANGED child
      /\ QueuedCommit(o, cp, ok, With(e, s, "failed"))
  BY DEF RecordStep
<1>2. /\ e \in Attempts /\ s \in StepIds /\ Declared(e.cp) /\ Checkpoint(e.cp) /\ "running" \in TaskStates
      /\ e.tasks[s].child \in Children \cup {NoChild}
  BY <1>1, TaskOfStop, AttemptOfInv, CurrentTask DEF TaskStates
<1>3. ok \in Attempts /\ TaskMoved(ok, e, s, t) /\ ok.handlers = e.handlers
  <2> HIDE DEF e
  <2> QED BY <1>2, WithFields
<1>4. record.comp = "none"
  BY DEF RunningRecord
<1>5. /\ Checkpoint(cp) /\ Declared(cp)
      /\ \A x \in StepIds : cp.steps[x] = IF x = s THEN record ELSE e.cp.steps[x]
  <2> HIDE DEF e
  <2> QED BY <1>2, PutDeclares
<1> HIDE DEF ok, t, record, cp
<1>6. cp \in Checkpoints /\ ~Pended(cp, s)
  BY <1>2, <1>4, <1>5 DEF Checkpoint, Pended
<1> QED BY <1>1, <1>3, <1>5, <1>6, TaskCommitStops

LEMMA ReportStops ==
  ASSUME EngineInv, StopInv, NEW o \in Owners, NEW s \in Agents, ReportFailure(o, s) PROVE StopInv'
<1> DEFINE e == exec[o]
           ok == With(e, s, "failed")
           t == [e.tasks[s] EXCEPT !.st = "failed"]
<1>1. /\ e.phase = "working" /\ e.tasks[s].st = "reporting" /\ UNCHANGED child
      /\ QueuedCommit(o, e.cp, ok, With(e, s, "failed"))
  BY DEF ReportFailure
<1>2. /\ e \in Attempts /\ Declared(e.cp) /\ Checkpoint(e.cp) /\ "failed" \in TaskStates
      /\ e.cp.steps[s].comp = "none"
  BY <1>1, TaskOfStop, AttemptOfInv DEF TaskStates
<1>3. ok \in Attempts /\ TaskMoved(ok, e, s, t) /\ ok.handlers = e.handlers
  <2> HIDE DEF e
  <2> QED BY <1>2, WithFields
<1>4. e.cp \in Checkpoints /\ ~Pended(e.cp, s)
  BY <1>2 DEF Checkpoint, Pended
<1>5. QueuedCommit(o, e.cp, ok, With(exec[o], s, "failed"))
  BY <1>1
<1> HIDE DEF ok, t
<1> QED BY <1>1, <1>2, <1>3, <1>4, <1>5, TaskCommitStops

LEMMA CompleteStops ==
  ASSUME EngineInv, StopInv, NEW o \in Owners, NEW s \in Agents, CompleteStep(o, s) PROVE StopInv'
<1> DEFINE e == exec[o]
           c == e.tasks[s].child
           record == CompletedRecord(s, c)
           cq == Put(e.cp, s, record)
           cp == [cq EXCEPT !.budget = @ + 1]
<1>1. PICK done \in {"failed", "done"} :
      /\ e.phase = "working" /\ e.tasks[s].st = "settled" /\ UNCHANGED child
      /\ QueuedCommit(o, cp, Handled(With(e, s, done), s), With(e, s, "failed"))
  BY DEF CompleteStep
<1> DEFINE w == With(e, s, done)
           ok == Handled(w, s)
           t == [e.tasks[s] EXCEPT !.st = done]
<1>2. /\ e \in Attempts /\ s \in StepIds /\ Declared(e.cp) /\ Checkpoint(e.cp) /\ done \in TaskStates
      /\ c \in Children \cup {NoChild}
  BY <1>1, TaskOfStop, AttemptOfInv, CurrentTask DEF TaskStates
<1>3. /\ ok \in Attempts /\ TaskMoved(ok, e, s, t)
      /\ ok.handlers = IF s \in Compensated THEN e.handlers \cup {s} ELSE e.handlers
  <2> HIDE DEF e
  <2>1. w \in Attempts /\ TaskMoved(w, e, s, t) /\ w.handlers = e.handlers
    BY <1>2, WithFields
  <2> HIDE DEF w, t
  <2> QED BY <1>2, <2>1, HandledFields DEF TaskMoved
<1> HIDE DEF ok, t, w
<1>4. /\ Checkpoint(cq) /\ Declared(cq)
      /\ \A x \in StepIds : cq.steps[x] = IF x = s THEN record ELSE e.cp.steps[x]
  <2> HIDE DEF e, c
  <2> QED BY <1>2, PutDeclares
<1>5. cp.steps = cq.steps /\ cp \in Checkpoints
  <2> HIDE DEF cq
  <2> QED BY <1>4 DEF Checkpoint, Checkpoints
<1> HIDE DEF cq, record, cp
<1>6. Declared(cp) /\ \A x \in StepIds \ {s} : cp.steps[x] = e.cp.steps[x]
  BY <1>4, <1>5 DEF Declared
<1>7. /\ Pended(cp, s) => s \in ok.handlers
      /\ e.handlers \subseteq ok.handlers
  BY <1>2, <1>3, <1>6 DEF Pended, Declared
<1>8. QueuedCommit(o, cp, ok, With(exec[o], s, "failed"))
  BY <1>1 DEF ok, w
<1> QED BY <1>1, <1>3, <1>5, <1>6, <1>7, <1>8, TaskCommitStops

-----------------------------------------------------------------------------
(* Items.                                                                  *)

(* The replay passes an item whose handlers are registered.  Only the last *)
(* item may be passed without.                                             *)
LEMMA NextStops ==
  ASSUME NEW e \in Attempts, e.phase = "working", e.pc \in Items, NEW g, NEW k, StopsWell(e, g, k),
         NEW f, f.phase = "working", f.pc = e.pc + 1, f.tasks = [a \in Agents |-> NoTask],
         e.handlers \subseteq f.handlers, Declared(f.cp),
         \A x \in StepIds \ StepsOf(e.pc) : f.cp.steps[x] = e.cp.steps[x],
         \A x \in StepsOf(e.pc) : Undoable /\ e.pc < Len(Program) /\ Pended(f.cp, x) => x \in f.handlers,
         NEW h, NEW l
  PROVE  StopsWell(f, h, l)
<1>1. SUFFICES ASSUME Undoable PROVE ReplayRegisters(f)
  BY ReplayStops
<1>2. ReplayRegisters(e) /\ Len(Program) \in Nat /\ Items = 1 .. Len(Program)
  BY <1>1, ProgramIsTyped DEF StopsWell, UndoesAll
<1>3. ASSUME f.pc <= Len(Program), NEW i \in Items, NEW x \in StepsOf(i), i < f.pc, Pended(f.cp, x)
      PROVE  x \in f.handlers
  <2>1. e.pc < Len(Program) /\ e.pc <= Len(Program) /\ (i < e.pc \/ i = e.pc)
    BY <1>2, <1>3
  <2>2. CASE i = e.pc
    BY <1>1, <1>3, <2>1, <2>2
  <2>3. CASE i < e.pc
    <3>1. x \in StepIds \ StepsOf(e.pc)
      BY <1>2, <2>3, ProgramIsTyped, StepsAreDistinct
    <3> QED BY <1>2, <1>3, <2>1, <2>3, <3>1 DEF ReplayRegisters, Pended
  <2> QED BY <2>1, <2>2, <2>3
<1>4. \A s \in Agents : f.tasks[s].st = "new"
  BY DEF NoTask
<1> QED BY <1>3, <1>4 DEF ReplayRegisters

LEMMA ItemHandlers ==
  ASSUME NEW e, e.phase = "working", e.pc \in Items, ReplayRegisters(e), NothingBeyond(e),
         \A x \in StepsOf(e.pc) : Pended(e.cp, x) => x \in e.handlers,
         NEW k, SoundCheckpoint(e.cp, k)
  PROVE  HasHandlers(e)
<1> SUFFICES ASSUME NEW x \in StepIds, Pended(e.cp, x) PROVE x \in e.handlers
  BY DEF HasHandlers, Pending, Pended
<1>1. PICK i \in Items : x \in StepsOf(i)
  BY ProgramIsTyped
<1>2. Recorded(e.cp, x)
  BY DEF SoundCheckpoint, Pended, Done, Recorded
<1>3. ~(e.pc < i)
  BY <1>1, <1>2 DEF NothingBeyond
<1>4. e.pc <= Len(Program) /\ (i < e.pc \/ i = e.pc)
  BY <1>3, ProgramIsTyped
<1> QED BY <1>1, <1>4 DEF ReplayRegisters

LEMMA FailingKeeps ==
  ASSUME NEW e \in Attempts, NEW kind
  PROVE  LET f == Failing(e, kind) IN
         /\ f.phase = "failing" /\ f.error = kind /\ f.cp = e.cp /\ f.status = e.status
         /\ f.aborted = e.aborted /\ f.lost = e.lost /\ f.poisoned = e.poisoned /\ f.handlers = e.handlers
BY DEF Failing, Attempts

(* The commit of an item, which fails if it is rejected. *)
LEMMA ItemStops ==
  ASSUME EngineInv, StopInv, NEW o \in Owners, exec[o].phase = "working",
         NEW kind \in {"error", "conflict"}, NEW cp, NEW ok,
         QueuedCommit(o, cp, ok, Failing(exec[o], kind)), ChildrenSettle(child, child'),
         ~exec[o].poisoned =>
           /\ cp \in Checkpoints /\ Declared(cp)
           /\ StoreAccepts(o) => StopsWell([ok EXCEPT !.cp = cp], failures, child')
  PROVE  StopInv'
<1> DEFINE e == exec[o]
           bad == Failing(e, kind)
<1>1. e \in Attempts /\ Declared(e.cp) /\ e.status = "running"
  BY AttemptOfInv, StopOfInv DEF ReplayIsSound
<1>2. bad \in Attempts /\ bad.phase = "failing" /\ bad.cp = e.cp /\ bad.status = e.status
  <2> HIDE DEF e
  <2> QED BY <1>1, FailingFields
<1>3. QueuedCommit(o, cp, ok, bad)
  OBVIOUS
<1> HIDE DEF bad
<1>4. StopsWell([bad EXCEPT !.poisoned = TRUE], failures, child')
  <2> DEFINE f == [bad EXCEPT !.poisoned = TRUE]
  <2>1. f.phase = "failing" /\ f.cp = bad.cp /\ f.status = bad.status /\ f.poisoned
    BY <1>2 DEF Attempts
  <2> HIDE DEF f
  <2>2. StopsWell(f, failures, child')
    BY <1>1, <1>2, <2>1, FailingStops
  <2> QED BY <2>2 DEF f
<1>5. ASSUME ~e.poisoned PROVE StopsWell([bad EXCEPT !.cp = cp, !.poisoned = TRUE], failures + 1, child')
  <2> DEFINE f == [bad EXCEPT !.cp = cp, !.poisoned = TRUE]
  <2>1. f.phase = "failing" /\ f.cp = cp /\ f.status = bad.status /\ f.poisoned
    BY <1>2 DEF Attempts
  <2> HIDE DEF f
  <2>2. StopsWell(f, failures + 1, child')
    BY <1>1, <1>2, <1>5, <2>1, FailingStops
  <2> QED BY <2>2 DEF f
<1> QED BY <1>2, <1>3, <1>4, <1>5, QueuedStops

LEMMA PauseStops ==
  ASSUME EngineInv, StopInv, NEW o \in Owners, exec[o].phase = "working", NEW cp, Declared(cp),
         NEW pause, PauseRun(o, cp, pause), UNCHANGED child
  PROVE  StopInv'
<1> DEFINE e == exec[o]
           img == [stored EXCEPT !.status = "paused", !.pause = pause, !.cp = cp]
<1>1. /\ e \in Attempts /\ Declared(e.cp) /\ e.status = "running" /\ ChildrenSettle(child, child')
      /\ failures \in Nat
  BY AttemptOfInv, StopOfInv, NothingSettles DEF ReplayIsSound
<1>2. /\ img.status = "paused" /\ img.cp = cp
      /\ [img EXCEPT !.holder = NoOwner].status = "paused" /\ [img EXCEPT !.holder = NoOwner].cp = cp
  BY StateOfType DEF EngineInv, Stores
<1>3. CASE e.poisoned
  <2> DEFINE f == Failing(e, "error")
  <2>1. f.phase = "failing" /\ f.cp = e.cp /\ f.status = e.status /\ f.poisoned = e.poisoned
    <3> HIDE DEF e
    <3> QED BY <1>1, FailingKeeps
  <2>2. exec' = [exec EXCEPT ![o] = f] /\ UNCHANGED <<stored, failures>>
    BY <1>3 DEF PauseRun
  <2> HIDE DEF f
  <2>3. StopsWell(f, failures', child')
    BY <1>1, <1>3, <2>1, FailingStops
  <2> QED BY <1>1, <2>2, <2>3, AttemptStops
<1>4. CASE stored' = [img EXCEPT !.holder = NoOwner] /\ exec' = Installed(o, Over(e)) /\ UNCHANGED failures
  <2>1. StopIsWhole(stored', failures', child')
    <3>1. stored'.status \in Active /\ Declared(stored'.cp)
      BY <1>2, <1>4 DEF Active
    <3> HIDE DEF img
    <3> QED BY <3>1, RunningIsWhole
  <2>2. StopsWell(Over(e), failures', child')
    BY <1>1, OverStops
  <2> HIDE DEF img
  <2> QED BY <1>1, <1>4, <2>1, <2>2, OneAttemptStops
<1>5. CASE exec' = [exec EXCEPT ![o] = Refused(Failing(e, "conflict"))] /\ UNCHANGED <<stored, failures>>
  <2> DEFINE f == Failing(e, "conflict")
  <2>1. f \in Attempts /\ f.phase = "failing" /\ f.cp = e.cp /\ f.status = e.status /\ f.error = "conflict"
    <3> HIDE DEF e
    <3> QED BY <1>1, FailingKeeps, FailingFields
  <2>2. exec' = [exec EXCEPT ![o] = Refused(f)]
    BY <1>5
  <2> HIDE DEF f
  <2>3. StopsWell(f, failures + 1, child')
    BY <1>1, <2>1, FailingStops
  <2>4. StopsWell(Refused(f), failures, child')
    BY <1>1, <2>1, <2>3, RefusedStops
  <2> DEFINE r == Refused(f)
  <2>5. exec' = [exec EXCEPT ![o] = r] /\ StopsWell(r, failures', child')
    BY <1>5, <2>2, <2>4
  <2> HIDE DEF r
  <2> QED BY <1>1, <1>5, <2>5, AttemptStops
<1>6. CASE /\ exec' = [exec EXCEPT ![o].phase = "stuck", ![o].status = "paused"]
           /\ UNCHANGED stored /\ failures' = failures + 1
  <2> DEFINE f == [e EXCEPT !.phase = "stuck", !.status = "paused"]
  <2>1. f.phase = "stuck" /\ f.cp = e.cp
    BY <1>1 DEF Attempts
  <2>2. exec' = [exec EXCEPT ![o] = f]
    BY <1>6, StopOfInv
  <2> HIDE DEF f
  <2>3. StopsWell(f, failures', child')
    BY <1>1, <2>1, QuietStops DEF Loud
  <2> QED BY <1>1, <1>6, <2>2, <2>3, AttemptStops
<1>7. CASE /\ stored' = img /\ failures' = failures + 1
           /\ exec' = Installed(o, [e EXCEPT !.phase = "stuck", !.status = "paused", !.fresh = FALSE])
  <2> DEFINE f == [e EXCEPT !.phase = "stuck", !.status = "paused", !.fresh = FALSE]
  <2>1. f.phase = "stuck" /\ f.cp = e.cp
    BY <1>1 DEF Attempts
  <2>2. exec' = Installed(o, f)
    BY <1>7
  <2> HIDE DEF f
  <2>3. StopsWell(f, failures', child')
    BY <1>1, <2>1, QuietStops DEF Loud
  <2>4. StopIsWhole(stored', failures', child')
    <3>1. stored'.status \in Active /\ Declared(stored'.cp)
      BY <1>2, <1>7 DEF Active
    <3> HIDE DEF img
    <3> QED BY <3>1, RunningIsWhole
  <2> HIDE DEF img
  <2> QED BY <1>1, <1>7, <2>2, <2>3, <2>4, OneAttemptStops
<1> QED BY <1>3, <1>4, <1>5, <1>6, <1>7 DEF PauseRun

LEMMA ItemOfStop ==
  ASSUME EngineInv, StopInv, NEW o \in Owners, Working(o)
  PROVE  /\ exec[o] \in Attempts /\ exec[o].phase = "working" /\ exec[o].status = "running"
         /\ exec[o].pc \in Items /\ Item(o) = Program[exec[o].pc]
         /\ Item(o).id \in StepIds /\ Item(o).id \in StepsOf(exec[o].pc)
         /\ Tasks(exec[o].pc) \subseteq Agents
         /\ StepsOf(exec[o].pc) = Tasks(exec[o].pc) \cup {Item(o).id}
         /\ Checkpoint(exec[o].cp) /\ exec[o].cp \in Checkpoints /\ Declared(exec[o].cp)
         /\ SoundCheckpoint(exec[o].cp, child) /\ ReplayIsSound(exec[o], child)
         /\ StopsWell(exec[o], failures, child) /\ ChildrenSettle(child, child)
         /\ Undoable => ReplayRegisters(exec[o])
<1>1. /\ exec[o] \in Attempts /\ exec[o].phase = "working" /\ exec[o].status = "running"
      /\ Checkpoint(exec[o].cp) /\ exec[o].cp \in Checkpoints /\ Declared(exec[o].cp)
      /\ SoundCheckpoint(exec[o].cp, child) /\ ReplayIsSound(exec[o], child)
      /\ StopsWell(exec[o], failures, child) /\ ChildrenSettle(child, child)
  BY AttemptOfInv, CurrentItem, StopOfInv, NothingSettles DEF ReplayIsSound, Checkpoint
<1>2. Undoable => ReplayRegisters(exec[o])
  BY <1>1 DEF StopsWell, UndoesAll
<1> QED BY <1>1, <1>2, CurrentItem DEF StepsOf

(* When its tasks have settled and one did not complete. *)
LEMMA JoinedHandlers ==
  ASSUME EngineInv, StopInv, NEW o \in Owners, Joined(o), Item(o).kind = "agent" \/ exec[o].open,
         Undoable, ~exec[o].poisoned,
         NEW s \in Tasks(exec[o].pc), exec[o].tasks[s].st \notin {"new", "done"}
  PROVE  HasHandlers(exec[o])
<1> DEFINE e == exec[o]
<1>1. /\ e.phase = "working" /\ e.pc \in Items /\ Tasks(e.pc) \subseteq Agents /\ ReplayRegisters(e)
      /\ StepsOf(e.pc) = Tasks(e.pc) \cup {Item(o).id} /\ Item(o).id \in StepIds
      /\ SoundCheckpoint(e.cp, child) /\ ReplayIsSound(e, child) /\ Item(o) = Program[e.pc]
  BY ItemOfStop DEF Joined
<1>2. NothingBeyond(e)
  BY <1>1 DEF ReplayRegisters
<1>3. ASSUME NEW x \in Tasks(e.pc), Pended(e.cp, x) PROVE x \in e.handlers
  <2>1. x \in In(e, e.pc, {"done", "paused", "failed", "conflict"})
    BY DEF Joined
  <2>2. x \in Agents /\ e.tasks[x].st # "new"
    BY <1>1, <2>1 DEF In
  <2> QED BY <1>1, <1>3, <2>2 DEF ReplayRegisters
<1>4. ASSUME Pended(e.cp, Item(o).id) PROVE Item(o).id \in Tasks(e.pc)
  <2>1. CASE Item(o).kind = "agent"
    BY <1>1, <2>1, ConstantsAssumption
  <2>2. CASE e.open
    <3>1. e.cp.steps[Item(o).id].status = "running"
      BY <1>1, <2>2 DEF ReplayIsSound
    <3> QED BY <1>1, <1>4, <3>1 DEF SoundCheckpoint, Pended, Done
  <2> QED BY <2>1, <2>2
<1>5. \A x \in StepsOf(e.pc) : Pended(e.cp, x) => x \in e.handlers
  BY <1>1, <1>3, <1>4
<1> HIDE DEF e
<1>6. HasHandlers(e)
  BY <1>1, <1>2, <1>5, ItemHandlers
<1> QED BY <1>6 DEF e

LEMMA JoinAgentStops ==
  ASSUME EngineInv, StopInv, NEW o \in Owners, JoinAgent(o) PROVE StopInv'
<1> DEFINE e == exec[o]
<1>1. /\ Joined(o) /\ Working(o) /\ Item(o).kind = "agent" /\ UNCHANGED child
      /\ \/ /\ In(e, e.pc, {"done"}) = Tasks(e.pc)
            /\ exec' = [exec EXCEPT ![o] = NextItem(e)] /\ UNCHANGED <<stored, failures>>
         \/ PauseRun(o, e.cp, PausedTasks(e))
         \/ \E kind \in {"error", "conflict"} :
              /\ \E s \in Tasks(e.pc) : e.tasks[s].st \in {"failed", "conflict"}
              /\ exec' = [exec EXCEPT ![o] = Failing(e, kind)] /\ UNCHANGED <<stored, failures>>
  BY DEF JoinAgent, Joined, In
<1>2. /\ e \in Attempts /\ e.phase = "working" /\ e.status = "running" /\ e.pc \in Items
      /\ Tasks(e.pc) \subseteq Agents /\ Declared(e.cp) /\ ReplayIsSound(e, child)
      /\ StepsOf(e.pc) = Tasks(e.pc) \cup {Item(o).id} /\ Item(o) = Program[e.pc]
      /\ StopsWell(e, failures, child) /\ ChildrenSettle(child, child) /\ (Undoable => ReplayRegisters(e))
  BY <1>1, ItemOfStop
<1>3. CASE /\ In(e, e.pc, {"done"}) = Tasks(e.pc)
           /\ exec' = [exec EXCEPT ![o] = NextItem(e)] /\ UNCHANGED <<stored, failures>>
  <2> DEFINE f == NextItem(e)
  <2>1. StepsOf(e.pc) = Tasks(e.pc)
    BY <1>1, <1>2, ConstantsAssumption
  <2>2. ~e.poisoned
    <3>1. \A s \in Agents : e.tasks[s].st = "failed" => s \in Tasks(e.pc)
      BY <1>2 DEF ReplayIsSound, TaskIsSound
    <3>2. \A s \in Agents : e.tasks[s].st # "failed"
      BY <1>3, <3>1 DEF In
    <3> QED BY <1>2, <3>2 DEF ReplayIsSound
  <2>3. \A x \in StepsOf(e.pc) : Undoable /\ Pended(e.cp, x) => x \in e.handlers
    <3>1. \A x \in Tasks(e.pc) : x \in Agents /\ e.tasks[x].st = "done"
      BY <1>2, <1>3 DEF In
    <3> QED BY <1>2, <2>1, <2>2, <3>1 DEF ReplayRegisters
  <2>4. exec' = [exec EXCEPT ![o] = f]
    BY <1>3
  <2> HIDE DEF e
  <2>5. /\ f.phase = e.phase /\ f.cp = e.cp /\ f.pc = e.pc + 1 /\ f.handlers = e.handlers
        /\ f.tasks = [s \in Agents |-> NoTask]
    BY <1>2, NextItemFields
  <2> HIDE DEF f
  <2>6. StopsWell(f, failures, child)
    BY <1>2, <2>3, <2>5, NextStops
  <2> QED BY <1>1, <1>2, <1>3, <2>4, <2>6, AttemptStops DEF e
<1>4. CASE PauseRun(o, e.cp, PausedTasks(e))
  BY <1>1, <1>2, <1>4, PauseStops
<1>5. ASSUME NEW kind \in {"error", "conflict"}, NEW s \in Tasks(e.pc),
             e.tasks[s].st \in {"failed", "conflict"},
             exec' = [exec EXCEPT ![o] = Failing(e, kind)], UNCHANGED <<stored, failures>>
      PROVE  StopInv'
  <2> DEFINE f == Failing(e, kind)
  <2>1. /\ f.phase = "failing" /\ f.cp = e.cp /\ f.status = e.status /\ f.poisoned = e.poisoned
        /\ f.handlers = e.handlers
    <3> HIDE DEF e
    <3> QED BY <1>2, FailingKeeps
  <2>2. exec' = [exec EXCEPT ![o] = f]
    BY <1>5
  <2> HIDE DEF f
  <2>3. f.poisoned \/ (Undoable => HasHandlers(f))
    BY <1>1, <1>5, <2>1, JoinedHandlers DEF HasHandlers
  <2>4. StopsWell(f, failures, child)
    BY <1>2, <2>1, <2>3, FailingStops
  <2> QED BY <1>1, <1>2, <1>5, <2>2, <2>4, AttemptStops
<1> QED BY <1>1, <1>3, <1>4, <1>5

LEMMA OpenStops ==
  ASSUME EngineInv, StopInv, NEW o \in Owners, OpenParallel(o) PROVE StopInv'
<1> DEFINE e == exec[o]
           id == Item(o).id
           record == RunningRecord(NoChild)
           cp == Put(e.cp, id, record)
           ok == [e EXCEPT !.open = TRUE]
<1>1. /\ Working(o) /\ Item(o).kind = "parallel" /\ ~e.open /\ UNCHANGED child
      /\ IF e.cp.steps[id].status = "completed"
         THEN exec' = [exec EXCEPT ![o] = NextItem(Handled(e, id))] /\ UNCHANGED <<stored, failures>>
         ELSE QueuedCommit(o, cp, ok, Failing(e, "error"))
  BY DEF OpenParallel
<1>2. /\ e \in Attempts /\ e.phase = "working" /\ e.status = "running" /\ e.pc \in Items
      /\ Tasks(e.pc) \subseteq Agents /\ Declared(e.cp) /\ ReplayIsSound(e, child)
      /\ StepsOf(e.pc) = Tasks(e.pc) \cup {id} /\ Item(o) = Program[e.pc] /\ id \in StepIds
      /\ StopsWell(e, failures, child) /\ ChildrenSettle(child, child) /\ (Undoable => ReplayRegisters(e))
      /\ Checkpoint(e.cp) /\ e.cp \in Checkpoints /\ SoundCheckpoint(e.cp, child) /\ id \in StepsOf(e.pc)
  BY <1>1, ItemOfStop
<1>3. CASE e.cp.steps[id].status = "completed"
  <2> DEFINE h == Handled(e, id)
             f == NextItem(h)
  <2>1. ASSUME Undoable, e.pc < Len(Program), NEW x \in Tasks(e.pc) PROVE ~Pended(e.cp, x)
    <3>1. x \notin Compensated /\ x \in StepIds
      BY <1>1, <1>2, <2>1, ProgramIsTyped DEF Undoable, HandlersOutlive
    <3> QED BY <1>2, <3>1 DEF Declared, Pended
  <2>2. Pended(e.cp, id) => id \in Compensated
    BY <1>2 DEF Declared, Pended
  <2>3. exec' = [exec EXCEPT ![o] = f] /\ UNCHANGED <<stored, failures>>
    BY <1>1, <1>3
  <2> HIDE DEF e, id
  <2>4. /\ h \in Attempts /\ h.phase = e.phase /\ h.cp = e.cp /\ h.pc = e.pc
        /\ h.handlers = IF id \in Compensated THEN e.handlers \cup {id} ELSE e.handlers
    BY <1>2, HandledFields
  <2> HIDE DEF h
  <2>5. /\ f.phase = h.phase /\ f.cp = h.cp /\ f.pc = h.pc + 1 /\ f.handlers = h.handlers
        /\ f.tasks = [s \in Agents |-> NoTask]
    BY <1>2, <2>4, NextItemFields
  <2> HIDE DEF f
  <2>6. \A x \in StepsOf(e.pc) : Undoable /\ e.pc < Len(Program) /\ Pended(f.cp, x) => x \in f.handlers
    BY <1>2, <2>1, <2>2, <2>4, <2>5
  <2>7. StopsWell(f, failures, child)
    BY <1>2, <2>4, <2>5, <2>6, NextStops
  <2> QED BY <1>1, <1>2, <2>3, <2>7, AttemptStops DEF e
<1>4. CASE e.cp.steps[id].status # "completed"
  <2>1. ~Done(e.cp, id) /\ NoChild \in Children \cup {NoChild} /\ record.comp = "none"
    BY <1>4 DEF Done, RunningRecord
  <2> HIDE DEF record
  <2>2. /\ Checkpoint(cp) /\ Declared(cp)
        /\ \A x \in StepIds : cp.steps[x] = IF x = id THEN record ELSE e.cp.steps[x]
    <3> HIDE DEF e, id
    <3> QED BY <1>2, <2>1, PutDeclares DEF record
  <2>3. NothingBeyond(e)
    BY <1>2, <2>1, CurrentIsLast
  <2> HIDE DEF cp
  <2> DEFINE f == [ok EXCEPT !.cp = cp]
  <2>4. /\ f.phase = "working" /\ f.pc = e.pc /\ f.tasks = e.tasks /\ f.handlers = e.handlers
        /\ f.poisoned = e.poisoned /\ f.cp = cp
    BY <1>2, <2>2 DEF Attempts, Checkpoint
  <2> HIDE DEF f
  <2>5. StopsWell(f, failures, child)
    <3>1. SUFFICES ASSUME Undoable PROVE ReplayRegisters(f)
      BY <2>2, <2>4, ReplayStops
    <3>2. ReplayRegisters(e)
      BY <1>2, <3>1
    <3>3. \A x \in StepIds : Pended(f.cp, x) => Pended(e.cp, x)
      BY <2>1, <2>2, <2>4 DEF Pended
    <3>4. NothingBeyond(f)
      <4> SUFFICES ASSUME NEW j \in Items, NEW x \in StepsOf(j), e.pc < j PROVE ~Recorded(f.cp, x)
        BY <2>4 DEF NothingBeyond
      <4>1. x \in StepIds /\ x # id
        BY <1>2, ProgramIsTyped, StepsAreDistinct
      <4> QED BY <2>2, <2>3, <2>4, <4>1 DEF NothingBeyond, Recorded
    <3> HIDE DEF e
    <3> QED BY <2>4, <3>2, <3>3, <3>4, ProgramIsTyped DEF ReplayRegisters
  <2>6. QueuedCommit(o, cp, ok, Failing(exec[o], "error"))
    BY <1>1, <1>4 DEF cp
  <2>7. cp \in Checkpoints /\ StopsWell([ok EXCEPT !.cp = cp], failures, child')
    BY <1>1, <2>2, <2>5 DEF Checkpoint, f
  <2> HIDE DEF ok, e, id
  <2> QED BY <1>1, <1>2, <2>2, <2>6, <2>7, ItemStops DEF e
<1> QED BY <1>3, <1>4

LEMMA JoinParallelStops ==
  ASSUME EngineInv, StopInv, NEW o \in Owners, JoinParallel(o) PROVE StopInv'
<1> DEFINE e == exec[o]
           id == Item(o).id
           record == CompletedRecord(id, NoChild)
           cp == Put(e.cp, id, record)
           ok == NextItem(Handled(e, id))
<1>1. /\ Joined(o) /\ Working(o) /\ e.open
      /\ \/ \E kind \in {"error", "conflict"}, s \in Tasks(e.pc) :
              /\ e.tasks[s].st \in {"failed", "conflict"}
              /\ child' = CancelAll(PausedTasks(e))
              /\ QueuedCommit(o, e.cp, Failing(e, kind), Failing(e, kind))
         \/ PauseRun(o, e.cp, PausedTasks(e)) /\ UNCHANGED child
         \/ /\ In(e, e.pc, {"failed", "conflict"}) = {} /\ PausedTasks(e) = {} /\ UNCHANGED child
            /\ QueuedCommit(o, cp, ok, Failing(e, "error"))
  BY DEF JoinParallel, Joined, In
<1>2. /\ e \in Attempts /\ e.phase = "working" /\ e.status = "running" /\ e.pc \in Items
      /\ Tasks(e.pc) \subseteq Agents /\ Declared(e.cp) /\ ReplayIsSound(e, child)
      /\ StepsOf(e.pc) = Tasks(e.pc) \cup {id} /\ Item(o) = Program[e.pc] /\ id \in StepIds
      /\ StopsWell(e, failures, child) /\ ChildrenSettle(child, child) /\ (Undoable => ReplayRegisters(e))
      /\ Checkpoint(e.cp) /\ e.cp \in Checkpoints /\ SoundCheckpoint(e.cp, child) /\ id \in StepsOf(e.pc)
  BY <1>1, ItemOfStop
<1>3. ASSUME NEW kind \in {"error", "conflict"}, NEW s \in Tasks(e.pc),
             e.tasks[s].st \in {"failed", "conflict"}, child' = CancelAll(PausedTasks(e)),
             QueuedCommit(o, e.cp, Failing(e, kind), Failing(e, kind))
      PROVE  StopInv'
  <2> DEFINE bad == Failing(e, kind)
             f == [bad EXCEPT !.cp = e.cp]
  <2>1. /\ bad \in Attempts /\ bad.phase = "failing" /\ bad.cp = e.cp /\ bad.status = e.status
        /\ bad.poisoned = e.poisoned /\ bad.handlers = e.handlers
    <3> HIDE DEF e
    <3> QED BY <1>2, FailingKeeps, FailingFields
  <2>2. QueuedCommit(o, e.cp, bad, Failing(exec[o], kind))
    BY <1>3
  <2> HIDE DEF bad
  <2>3. /\ f.phase = "failing" /\ f.cp = e.cp /\ f.status = e.status /\ f.poisoned = e.poisoned
        /\ f.handlers = e.handlers
    BY <2>1 DEF Attempts
  <2>4. ChildrenSettle(child, child')
    BY <1>3, CancellingSettles
  <2> HIDE DEF f
  <2>5. f.poisoned \/ (Undoable => HasHandlers(f))
    BY <1>1, <1>3, <2>3, JoinedHandlers DEF HasHandlers
  <2>6. StopsWell(f, failures, child')
    BY <1>2, <2>3, <2>5, FailingStops
  <2>7. StopsWell([bad EXCEPT !.cp = e.cp], failures, child')
    BY <2>6 DEF f
  <2> HIDE DEF e
  <2> QED BY <1>2, <2>2, <2>4, <2>7, ItemStops DEF e
<1>4. CASE PauseRun(o, e.cp, PausedTasks(e)) /\ UNCHANGED child
  BY <1>2, <1>4, PauseStops
<1>5. CASE /\ In(e, e.pc, {"failed", "conflict"}) = {} /\ PausedTasks(e) = {} /\ UNCHANGED child
           /\ QueuedCommit(o, cp, ok, Failing(e, "error"))
  <2>1. ASSUME NEW x \in Tasks(e.pc) PROVE x \in Agents /\ e.tasks[x].st = "done"
    <3>1. In(e, e.pc, {"paused"}) = {}
      BY <1>5 DEF PausedTasks
    <3>2. x \in In(e, e.pc, {"done", "paused", "failed", "conflict"})
      BY <1>1 DEF Joined
    <3> QED BY <1>2, <1>5, <3>1, <3>2 DEF In
  <2>2. NoChild \in Children \cup {NoChild} /\ (record.comp # "none" => id \in Compensated)
    <3> HIDE DEF id
    <3>1. record.comp = IF id \in Compensated THEN "pending" ELSE "none"
      BY DEF CompletedRecord
    <3> HIDE DEF record
    <3> QED BY <3>1
  <2> HIDE DEF record
  <2>3. /\ Checkpoint(cp) /\ Declared(cp)
        /\ \A x \in StepIds : cp.steps[x] = IF x = id THEN record ELSE e.cp.steps[x]
    <3> HIDE DEF e, id
    <3> QED BY <1>2, <2>2, PutDeclares DEF record
  <2> HIDE DEF cp
  <2> DEFINE h == Handled(e, id)
             f == [ok EXCEPT !.cp = cp]
  <2>4. /\ ok \in Attempts /\ ok.phase = "working" /\ ok.pc = e.pc + 1
        /\ ok.handlers = IF id \in Compensated THEN e.handlers \cup {id} ELSE e.handlers
        /\ ok.tasks = [s \in Agents |-> NoTask]
    <3> HIDE DEF e, id
    <3>1. /\ h \in Attempts /\ h.phase = e.phase /\ h.pc = e.pc
          /\ h.handlers = IF id \in Compensated THEN e.handlers \cup {id} ELSE e.handlers
      BY <1>2, HandledFields
    <3> HIDE DEF h
    <3>2. ok = NextItem(h)
      BY DEF h
    <3> HIDE DEF ok
    <3> QED BY <1>2, <3>1, <3>2, NextItemFields
  <2>5. QueuedCommit(o, cp, ok, Failing(exec[o], "error"))
    BY <1>5
  <2> HIDE DEF ok
  <2>6. /\ f.phase = "working" /\ f.pc = e.pc + 1 /\ f.handlers = ok.handlers /\ f.cp = cp
        /\ f.tasks = [s \in Agents |-> NoTask]
    BY <2>4 DEF Attempts
  <2> HIDE DEF f
  <2>7. ASSUME ~e.poisoned, Undoable, NEW x \in StepsOf(e.pc), Pended(f.cp, x) PROVE x \in f.handlers
    <3>1. CASE x = id
      BY <1>2, <2>2, <2>3, <2>4, <2>6, <2>7, <3>1 DEF Pended
    <3>2. CASE x # id
      <4>1. x \in Tasks(e.pc) /\ x \in StepIds /\ Pended(e.cp, x) /\ ReplayRegisters(e)
        BY <1>2, <2>3, <2>6, <2>7, <3>2, ProgramIsTyped DEF Pended
      <4>2. x \in e.handlers
        BY <2>1, <2>7, <4>1 DEF ReplayRegisters
      <4> QED BY <2>4, <2>6, <4>2
    <3> QED BY <3>1, <3>2
  <2>8. ASSUME ~e.poisoned PROVE StopsWell(f, failures, child')
    <3>1. /\ e.handlers \subseteq f.handlers /\ Declared(f.cp)
          /\ \A x \in StepIds \ StepsOf(e.pc) : f.cp.steps[x] = e.cp.steps[x]
      BY <1>2, <2>3, <2>4, <2>6
    <3> HIDE DEF e, id
    <3> QED BY <1>2, <2>6, <2>7, <2>8, <3>1, NextStops
  <2>9. /\ cp \in Checkpoints /\ ChildrenSettle(child, child')
        /\ ~e.poisoned => StopsWell([ok EXCEPT !.cp = cp], failures, child')
    BY <1>2, <1>5, <2>3, <2>8 DEF Checkpoint, f
  <2> HIDE DEF e, id
  <2> QED BY <1>2, <2>3, <2>5, <2>9, ItemStops DEF e
<1> QED BY <1>1, <1>3, <1>4, <1>5

LEMMA WaitStops ==
  ASSUME EngineInv, StopInv, NEW o \in Owners, Wait(o) PROVE StopInv'
<1> DEFINE e == exec[o]
           id == Item(o).id
           fin == CompletedRecord(id, NoChild)
           run == RunningRecord(NoChild)
           f0 == NextItem(e)
<1>1. /\ Working(o) /\ Item(o).kind \in {"timer", "event"} /\ UNCHANGED child
      /\ \/ exec' = [exec EXCEPT ![o] = f0] /\ UNCHANGED <<stored, failures>>
         \/ QueuedCommit(o, Put(e.cp, id, fin), f0, Failing(e, "error"))
         \/ PauseRun(o, Put(e.cp, id, run), {WaitFor(id)})
  BY DEF Wait
<1>2. /\ e \in Attempts /\ e.phase = "working" /\ e.status = "running" /\ e.pc \in Items
      /\ Tasks(e.pc) \subseteq Agents /\ Declared(e.cp) /\ ReplayIsSound(e, child)
      /\ StepsOf(e.pc) = Tasks(e.pc) \cup {id} /\ Item(o) = Program[e.pc] /\ id \in StepIds
      /\ StopsWell(e, failures, child) /\ ChildrenSettle(child, child) /\ (Undoable => ReplayRegisters(e))
      /\ Checkpoint(e.cp) /\ e.cp \in Checkpoints /\ SoundCheckpoint(e.cp, child) /\ id \in StepsOf(e.pc)
  BY <1>1, ItemOfStop
<1>3. Tasks(e.pc) = {} /\ id \notin Compensated
  <2>1. Program[e.pc].kind \notin {"agent", "parallel"}
    BY <1>1, <1>2
  <2> QED BY <1>1, <1>2, <2>1, ConstantsAssumption DEF WaitIds
<1>4. NoChild \in Children \cup {NoChild}
  OBVIOUS
<1>5. /\ Checkpoint(Put(e.cp, id, fin)) /\ Declared(Put(e.cp, id, fin)) /\ Declared(Put(e.cp, id, run))
      /\ \A x \in StepIds : Put(e.cp, id, fin).steps[x] = IF x = id THEN fin ELSE e.cp.steps[x]
  <2> HIDE DEF e, id
  <2>1. fin \in {RunningRecord(NoChild), fin} /\ run \in {run, CompletedRecord(id, NoChild)}
    OBVIOUS
  <2> HIDE DEF fin, run
  <2>2. Declared(Put(e.cp, id, run))
    BY <1>2, <1>4, <2>1, PutDeclares DEF run
  <2> QED BY <1>2, <1>4, <2>1, <2>2, PutDeclares DEF fin
<1>6. /\ f0 \in Attempts /\ f0.phase = "working" /\ f0.cp = e.cp /\ f0.pc = e.pc + 1
      /\ f0.handlers = e.handlers /\ f0.tasks = [s \in Agents |-> NoTask]
  <2> HIDE DEF e
  <2> QED BY <1>2, NextItemFields
<1> HIDE DEF fin, run, f0
<1>7. ASSUME NEW f, f.phase = "working", f.pc = e.pc + 1, f.handlers = e.handlers,
             f.tasks = [s \in Agents |-> NoTask], Declared(f.cp),
             \A x \in StepIds : x # id => f.cp.steps[x] = e.cp.steps[x]
      PROVE  StopsWell(f, failures, child)
  <2>1. \A x \in StepsOf(e.pc) : Undoable /\ e.pc < Len(Program) /\ Pended(f.cp, x) => x \in f.handlers
    BY <1>2, <1>3, <1>7 DEF Declared, Pended
  <2>2. \A x \in StepIds \ StepsOf(e.pc) : f.cp.steps[x] = e.cp.steps[x]
    BY <1>2, <1>7
  <2> HIDE DEF e, id
  <2> QED BY <1>2, <1>7, <2>1, <2>2, NextStops
<1>8. CASE exec' = [exec EXCEPT ![o] = f0] /\ UNCHANGED <<stored, failures>>
  <2>1. StopsWell(f0, failures', child')
    BY <1>1, <1>2, <1>6, <1>7, <1>8
  <2> QED BY <1>1, <1>2, <1>8, <2>1, AttemptStops
<1>9. CASE QueuedCommit(o, Put(e.cp, id, fin), f0, Failing(e, "error"))
  <2> DEFINE cp == Put(e.cp, id, fin)
             f == [f0 EXCEPT !.cp = cp]
  <2>1. Checkpoint(cp) /\ Declared(cp) /\ \A x \in StepIds : x # id => cp.steps[x] = e.cp.steps[x]
    BY <1>5
  <2>2. QueuedCommit(o, cp, f0, Failing(exec[o], "error"))
    BY <1>9
  <2> HIDE DEF cp
  <2>3. /\ f.phase = "working" /\ f.pc = e.pc + 1 /\ f.handlers = e.handlers /\ f.cp = cp
        /\ f.tasks = [s \in Agents |-> NoTask]
    BY <1>6 DEF Attempts
  <2> HIDE DEF f
  <2>4. StopsWell(f, failures, child)
    BY <1>7, <2>1, <2>3
  <2>5. cp \in Checkpoints /\ ChildrenSettle(child, child') /\ StopsWell([f0 EXCEPT !.cp = cp], failures, child')
    BY <1>1, <1>2, <2>1, <2>4 DEF Checkpoint, f
  <2> QED BY <1>2, <2>1, <2>2, <2>5, ItemStops
<1>10. CASE PauseRun(o, Put(e.cp, id, run), {WaitFor(id)})
  BY <1>1, <1>2, <1>5, <1>10, PauseStops
<1> QED BY <1>1, <1>8, <1>9, <1>10

(* Completing disturbs nothing: the program has no more steps. *)
LEMMA FinishStops ==
  ASSUME EngineInv, StopInv, NEW o \in Owners, Finish(o) PROVE StopInv'
<1> DEFINE e == exec[o]
           img == FreedBy(o, Ended("completed"))
           thrown == [e EXCEPT !.phase = "stuck", !.status = "completed"]
<1>1. UNCHANGED child /\ (CommitStep(o, img, Over(e), thrown) \/ EndingCommit(o, Ended("completed")))
  BY DEF Finish
<1>2. e \in Attempts /\ Declared(e.cp) /\ ChildrenSettle(child, child') /\ StopIsWhole(stored, failures, child)
  BY <1>1, StopOfInv, NothingSettles
<1>3. CASE CommitStep(o, img, Over(e), thrown)
  <2>1. thrown \in Attempts /\ thrown.phase = "stuck" /\ thrown.cp = e.cp
    BY <1>2 DEF Attempts, Phases, Statuses, Terminal
  <2>2. img.cp = stored.cp /\ img.status = "completed"
    <3>1. stored \in Stores
      BY StateOfType DEF EngineInv
    <3> QED BY <3>1 DEF Ended, FreedBy, Stores
  <2> HIDE DEF img, thrown
  <2>3. StopsWell(thrown, failures + 1, child')
    BY <1>2, <2>1, QuietStops DEF Loud
  <2>4. StopIsWhole(img, failures, child') /\ StopsWell(Over(e), failures, child')
    BY <1>1, <1>2, <2>2, OverStops DEF StopIsWhole
  <2> QED BY <1>2, <1>3, <2>1, <2>3, <2>4, CommitStops
<1>4. CASE EndingCommit(o, Ended("completed"))
  BY <1>1, <1>4, EndingStops DEF Terminal
<1> QED BY <1>1, <1>3, <1>4

-----------------------------------------------------------------------------
(* Before the items.                                                       *)

LEMMA BlankStops ==
  ASSUME NEW f, f.phase = "working", Blank(f), Declared(f.cp), NEW g, NEW k
  PROVE  StopsWell(f, g, k)
<1>1. \A i \in Items : ~(i < f.pc)
  BY ProgramIsTyped DEF Blank
<1>2. \A s \in Agents : f.tasks[s].st = "new"
  BY DEF Blank, NoTask
<1>3. ReplayRegisters(f)
  BY <1>1, <1>2 DEF ReplayRegisters
<1> QED BY <1>3, ReplayStops

LEMMA StartStops ==
  ASSUME EngineInv, StopInv, NEW o \in Owners, Start(o) PROVE StopInv'
<1> DEFINE e == exec[o]
           g == Opened(e, EmptyCheckpoint, FALSE)
           f == [g EXCEPT !.fresh = TRUE]
<1>1. /\ e.phase = "idle" /\ UNCHANGED <<child, failures>>
      /\ stored' = [stored EXCEPT !.status = "running", !.holder = o]
      /\ exec' = [exec EXCEPT ![o] = f]
  BY DEF Start
<1>2. /\ e \in Attempts /\ Blank(e) /\ Declared(stored.cp) /\ ChildrenSettle(child, child')
      /\ EmptyCheckpoint \in Checkpoints /\ stored \in Stores
  BY <1>1, AttemptOfInv, StateOfType, EmptyIsSound, StopOfInv, NothingSettles
     DEF EngineInv, KnowsTheStore, Blank, Checkpoint
<1>3. Declared(EmptyCheckpoint)
  BY DEF Declared, EmptyCheckpoint, NoRecord
<1>4. IsOpened(g, e, EmptyCheckpoint)
  <2> HIDE DEF e
  <2> QED BY <1>2, OpenedFields
<1> HIDE DEF g
<1>5. f.phase = "working" /\ Blank(f) /\ f.cp = EmptyCheckpoint
  BY <1>2, <1>4 DEF IsOpened, Attempts, Blank
<1> HIDE DEF f
<1>6. StopsWell(f, failures', child')
  BY <1>3, <1>5, BlankStops
<1>7. stored'.status \in Active /\ Declared(stored'.cp)
  BY <1>1, <1>2 DEF Stores, Active
<1> QED BY <1>1, <1>2, <1>6, <1>7, RunningIsWhole, OneAttemptStops

LEMMA ReadStops ==
  ASSUME EngineInv, StopInv, NEW o \in Owners, NEW phase \in {"read", "cancelRead"}, Read(o, phase)
  PROVE  StopInv'
<1> DEFINE e == exec[o]
           f == [e EXCEPT !.phase = phase, !.status = stored.status,
                 !.cp = stored.cp, !.pause = stored.pause, !.fresh = TRUE]
<1>1. UNCHANGED <<stored, child, failures>> /\ exec' = [exec EXCEPT ![o] = f]
  BY DEF Read
<1>2. e \in Attempts /\ Declared(stored.cp) /\ ChildrenSettle(child, child')
  BY <1>1, StopOfInv, NothingSettles
<1>3. f.phase = phase /\ f.cp = stored.cp
  BY <1>2 DEF Attempts
<1> HIDE DEF f
<1>4. StopsWell(f, failures', child')
  BY <1>2, <1>3, QuietStops DEF Loud
<1> QED BY <1>1, <1>2, <1>4, AttemptStops

LEMMA AcquireStops ==
  ASSUME EngineInv, StopInv, NEW o \in Owners, NEW from, NEW to \in {"leased", "cancelLeased"},
         Acquire(o, from, to)
  PROVE  StopInv'
<1> DEFINE e == exec[o]
           f == [e EXCEPT !.phase = to]
<1>1. UNCHANGED <<child, failures>>
  BY DEF Acquire
<1>2. /\ e \in Attempts /\ Declared(e.cp) /\ ChildrenSettle(child, child') /\ stored \in Stores
      /\ exec \in [Owners -> Attempts]
  BY <1>1, StopOfInv, NothingSettles, StateOfType DEF EngineInv
<1>3. CASE stored' = [stored EXCEPT !.holder = o] /\ exec' = [exec EXCEPT ![o].phase = to]
  <2>1. exec' = [exec EXCEPT ![o] = f] /\ f.phase = to /\ f.cp = e.cp
    BY <1>2, <1>3 DEF Attempts
  <2> HIDE DEF f
  <2>2. StopsWell(f, failures', child')
    BY <1>2, <2>1, QuietStops DEF Loud
  <2>3. stored'.cp = stored.cp /\ stored'.status = stored.status
    BY <1>2, <1>3 DEF Stores
  <2> QED BY <1>1, <1>2, <2>1, <2>2, <2>3, AttemptStops
<1>4. CASE exec' = [exec EXCEPT ![o] = Over(e)] /\ UNCHANGED stored
  <2>1. StopsWell(Over(e), failures', child')
    BY <1>2, OverStops
  <2> QED BY <1>1, <1>2, <1>4, <2>1, AttemptStops
<1> QED BY <1>3, <1>4 DEF Acquire

(* The first commit of a recovery or a resolution. *)
LEMMA OpeningStops ==
  ASSUME EngineInv, StopInv, NEW o \in Owners, exec[o].phase \in Reading, NEW img, NEW cp, NEW ok,
         ok \in {Opened(exec[o], cp, FALSE), Opened(exec[o], cp, TRUE)},
         ReleasingCommit(o, img, ok), UNCHANGED child,
         StoreAccepts(o) => /\ img \in Stores /\ img.status = "running" /\ img.cp = cp
                            /\ cp \in Checkpoints /\ Declared(cp)
  PROVE  StopInv'
<1> DEFINE e == exec[o]
<1>1. e \in Attempts /\ Blank(e)
  BY AttemptOfInv DEF KnowsTheStore, Blank
<1>2. ASSUME StoreAccepts(o) PROVE StopsWell(ok, failures, child)
  <2>1. cp \in Checkpoints /\ Declared(cp)
    BY <1>2
  <2>2. IsOpened(ok, e, cp)
    BY <1>1, <2>1, OpenedFields
  <2>3. ok.phase = "working" /\ Blank(ok) /\ ok.cp = cp
    BY <1>1, <2>2 DEF IsOpened, Blank
  <2> QED BY <2>1, <2>3, BlankStops
<1>3. StoreAccepts(o) => StopIsWhole(img, failures, child)
  BY RunningIsWhole DEF Active
<1> QED BY <1>2, <1>3, ReleasingStops

LEMMA RecoverStops ==
  ASSUME EngineInv, StopInv, NEW o \in Owners, Recover(o) PROVE StopInv'
<1> DEFINE img == [stored EXCEPT !.cp = exec[o].cp]
           ok == Opened(exec[o], exec[o].cp, TRUE)
<1>1. /\ exec[o].phase = "leased" /\ exec[o].status = "running" /\ UNCHANGED child
      /\ ReleasingCommit(o, img, ok)
  BY DEF Recover
<1>2. exec[o].phase \in Reading /\ exec[o].phase \notin {"idle", "dead", "over"}
  BY <1>1 DEF Reading
<1>3. ASSUME StoreAccepts(o)
      PROVE  /\ img \in Stores /\ img.status = "running" /\ img.cp = exec[o].cp
             /\ exec[o].cp \in Checkpoints /\ Declared(exec[o].cp)
  <2>1. stored.status = "running" /\ stored \in Stores
    BY <1>1, <1>2, <1>3, AcceptedIsInStep, StateOfType DEF EngineInv
  <2>2. exec[o].cp \in Checkpoints /\ Declared(exec[o].cp)
    BY AttemptOfInv, StopOfInv DEF Checkpoint
  <2> QED BY <2>1, <2>2 DEF Stores
<1> HIDE DEF img
<1> QED BY <1>1, <1>2, <1>3, OpeningStops

LEMMA CommitResumedStops ==
  ASSUME EngineInv, StopInv, NEW o \in Owners, CommitResumed(o) PROVE StopInv'
<1> DEFINE img == [stored EXCEPT !.status = "running", !.pause = {}, !.cp = exec[o].cp]
           ok == Opened(exec[o], exec[o].cp, FALSE)
<1>1. /\ exec[o].phase = "answered" /\ UNCHANGED child
      /\ EndingCommit(o, Ended("cancelled")) \/ ReleasingCommit(o, img, ok)
  BY DEF CommitResumed
<1>2. exec[o].phase \in Reading
  BY <1>1 DEF Reading
<1>3. /\ img \in Stores /\ img.status = "running" /\ img.cp = exec[o].cp
      /\ exec[o].cp \in Checkpoints /\ Declared(exec[o].cp)
  <2>1. stored \in Stores /\ exec[o].cp \in Checkpoints /\ Declared(exec[o].cp)
    BY AttemptOfInv, StateOfType, StopOfInv DEF EngineInv, Checkpoint
  <2> QED BY <2>1 DEF Stores, Statuses, Active
<1> HIDE DEF img
<1>4. CASE ReleasingCommit(o, img, ok)
  BY <1>1, <1>2, <1>3, <1>4, OpeningStops
<1>5. CASE EndingCommit(o, Ended("cancelled"))
  <2>1. ~Unpaused /\ "cancelled" \in Terminal /\ "cancelled" # "failed"
    BY <1>1, StopOfInv DEF StopsWell, Terminal
  <2> QED BY <1>1, <1>5, <2>1, EndingStops
<1> QED BY <1>1, <1>4, <1>5

LEMMA ResumeWaitStops ==
  ASSUME EngineInv, StopInv, NEW o \in Owners, NEW w \in StepIds, ResumeWait(o, w) PROVE StopInv'
<1> DEFINE e == exec[o]
           record == CompletedRecord(w, NoChild)
           cp == Put(e.cp, w, record)
           img == [stored EXCEPT !.status = "running", !.pause = {}, !.cp = cp]
           ok == Opened(e, cp, FALSE)
<1>1. e.phase = "leased" /\ UNCHANGED child /\ ReleasingCommit(o, img, ok)
  BY DEF ResumeWait
<1>2. e.phase \in Reading
  BY <1>1 DEF Reading
<1>3. stored \in Stores /\ Checkpoint(e.cp) /\ Declared(e.cp)
  BY AttemptOfInv, StateOfType, StopOfInv DEF EngineInv
<1>4. Checkpoint(cp) /\ Declared(cp)
  <2>1. NoChild \in Children \cup {NoChild} /\ record \in {RunningRecord(NoChild), record}
    OBVIOUS
  <2> HIDE DEF record, e
  <2> QED BY <1>3, <2>1, PutDeclares DEF record
<1> HIDE DEF cp
<1>5. img \in Stores /\ img.status = "running" /\ img.cp = cp /\ cp \in Checkpoints
  BY <1>3, <1>4 DEF Stores, Statuses, Active, Checkpoint
<1> HIDE DEF img
<1> QED BY <1>1, <1>2, <1>4, <1>5, OpeningStops

(* Without pauses nothing below is ever reached. *)
LEMMA ResumeChildStops ==
  ASSUME EngineInv, StopInv, NEW o \in Owners, NEW c \in Children, ResumeChild(o, c) PROVE StopInv'
<1> DEFINE e == exec[o]
           f == [e EXCEPT !.phase = "child", !.cursor = c]
           k == [child EXCEPT ![c].status = "running"]
           l == [k EXCEPT ![c].worker = o]
<1>1. /\ UNCHANGED failures
      /\ \/ /\ child[c].status = "paused" /\ child' = l /\ UNCHANGED stored
            /\ exec' = [exec EXCEPT ![o].phase = "child", ![o].cursor = c]
         \/ Release(o) /\ UNCHANGED child
  BY DEF ResumeChild
<1>2. e \in Attempts /\ exec \in [Owners -> Attempts] /\ Declared(e.cp) /\ child \in ChildStates
  BY StopOfInv, StateOfType DEF EngineInv
<1>3. CASE /\ child[c].status = "paused" /\ child' = l /\ UNCHANGED stored
           /\ exec' = [exec EXCEPT ![o].phase = "child", ![o].cursor = c]
  <2>1. exec' = [exec EXCEPT ![o] = f] /\ f.phase = "child" /\ f.cp = e.cp
    BY <1>2, <1>3 DEF Attempts
  <2>2. k \in ChildStates /\ k[c].status = "running" /\ \A d \in Children \ {c} : k[d] = child[d]
    BY <1>2 DEF ChildStates, Statuses, Active
  <2> HIDE DEF k
  <2>3. l[c].status = "running" /\ \A d \in Children \ {c} : l[d] = k[d]
    BY <2>2 DEF ChildStates
  <2> HIDE DEF l, f
  <2>4. ChildrenSettle(child, child')
    BY <1>3, <2>2, <2>3 DEF ChildrenSettle, Terminal
  <2>5. ~Unpaused
    BY <1>3 DEF StopInv
  <2>6. StopsWell(f, failures', child')
    BY <1>2, <2>1, <2>5 DEF StopsWell, UndoesAll
  <2> QED BY <1>1, <1>2, <1>3, <2>1, <2>4, <2>6, AttemptStops
<1>4. CASE Release(o) /\ UNCHANGED child
  BY <1>1, <1>4, NothingSettles, ReleaseStops
<1> QED BY <1>1, <1>3, <1>4

LEMMA AnsweredStops ==
  ASSUME EngineInv, StopInv, NEW o \in Owners, exec[o].phase = "child", NEW to \in {"answered", "expired"},
         to = "expired" => "expired" \in Outcomes,
         exec' = [exec EXCEPT ![o].phase = to], UNCHANGED <<stored, failures>>,
         ChildrenSettle(child, child')
  PROVE  StopInv'
<1> DEFINE e == exec[o]
           f == [e EXCEPT !.phase = to]
<1>1. /\ e \in Attempts /\ exec \in [Owners -> Attempts] /\ Declared(e.cp) /\ ~Unpaused
  BY StopOfInv DEF StopsWell
<1>2. exec' = [exec EXCEPT ![o] = f] /\ f.phase = to /\ f.cp = e.cp
  BY <1>1 DEF Attempts
<1> HIDE DEF f
<1>3. StopsWell(f, failures', child')
  BY <1>1, <1>2 DEF StopsWell, UndoesAll, Undoable
<1> QED BY <1>1, <1>2, <1>3, AttemptStops

LEMMA ResumedChildEndsStops ==
  ASSUME EngineInv, StopInv, NEW o \in Owners, NEW status \in Terminal \cup Active,
         ResumedChildEnds(o, status)
  PROVE  StopInv'
<1> DEFINE c == exec[o].cursor
<1>1. /\ exec[o].phase = "child" /\ child' = ChildEnded(c, status) /\ UNCHANGED failures
      /\ ChildMayEnd(c, o, status) \/ (status = "cancelled" /\ child[c].worker = o)
      /\ \/ Release(o)
         \/ exec' = [exec EXCEPT ![o].phase = "answered"] /\ UNCHANGED stored
  BY DEF ResumedChildEnds
<1>2. c \in Children /\ child[c].status = "running" /\ (status = "paused" => "paused" \in Outcomes)
  BY <1>1, CurrentChild DEF ChildMayEnd
<1> HIDE DEF c
<1>3. ChildrenSettle(child, child')
  BY <1>1, <1>2, EndingSettles
<1> QED BY <1>1, <1>3, ReleaseStops, AnsweredStops

LEMMA ResumedChildExpiresStops ==
  ASSUME EngineInv, StopInv, NEW o \in Owners, ResumedChildExpires(o) PROVE StopInv'
<1> DEFINE c == exec[o].cursor
<1>1. /\ exec[o].phase = "child" /\ UNCHANGED failures /\ child[c].worker = o /\ "expired" \in Outcomes
      /\ \/ /\ child' = CancelAll(exec[o].pause)
            /\ exec' = [exec EXCEPT ![o].phase = "expired"] /\ UNCHANGED stored
         \/ child' = ChildEnded(c, "cancelled") /\ Release(o)
  BY DEF ResumedChildExpires
<1>2. c \in Children /\ child[c].status = "running"
  BY <1>1, CurrentChild
<1> HIDE DEF c
<1>3. ChildrenSettle(child, child')
  BY <1>1, <1>2, EndingSettles, CancellingSettles
<1> QED BY <1>1, <1>3, ReleaseStops, AnsweredStops

LEMMA CommitExpiredStops ==
  ASSUME EngineInv, StopInv, NEW o \in Owners, NEW status, CommitExpired(o, status)
  PROVE  StopInv'
<1>1. /\ exec[o].phase = "expired" /\ EndingCommit(o, Ended(status)) /\ UNCHANGED child
      /\ status \in Terminal
  BY DEF CommitExpired, Terminal
<1>2. ~Undoable /\ ~Unpaused
  BY <1>1, StopOfInv DEF StopsWell, UndoesAll
<1> QED BY <1>1, <1>2, EndingStops

LEMMA ResumedChildConflictsStops ==
  ASSUME EngineInv, StopInv, NEW o \in Owners, ResumedChildConflicts(o) PROVE StopInv'
<1>1. ChildLosesLease(exec[o].cursor, o) /\ Release(o)
  BY DEF ResumedChildConflicts
<1> QED BY <1>1, LosingSettles, ReleaseStops

-----------------------------------------------------------------------------
(* After the items.                                                        *)

LEMMA CancelChildrenStops ==
  ASSUME EngineInv, StopInv, NEW o \in Owners, CancelChildren(o) PROVE StopInv'
<1> DEFINE e == exec[o]
           cs == RunningChildren(e.cp)
           f == [e EXCEPT !.phase = "cancelling"]
<1>1. /\ UNCHANGED failures
      /\ \/ /\ child' = CancelAll(cs) /\ UNCHANGED stored
            /\ exec' = [exec EXCEPT ![o].phase = "cancelling"]
         \/ Release(o) /\ UNCHANGED child
  BY DEF CancelChildren
<1>2. /\ e \in Attempts /\ exec \in [Owners -> Attempts] /\ Declared(e.cp) /\ child \in ChildStates
      /\ SoundCheckpoint(e.cp, child)
  BY StopOfInv, AttemptOfInv, StateOfType DEF EngineInv
<1>3. CASE /\ child' = CancelAll(cs) /\ UNCHANGED stored
           /\ exec' = [exec EXCEPT ![o].phase = "cancelling"]
  <2>1. exec' = [exec EXCEPT ![o] = f] /\ f.phase = "cancelling" /\ f.cp = e.cp
    BY <1>2, <1>3 DEF Attempts
  <2>2. ChildrenSettle(child, child')
    BY <1>3, CancellingSettles
  <2> HIDE DEF f, e
  <2>3. ASSUME NEW c \in cs PROVE child'[c].status \in Terminal
    <3>1. c \in Children /\ child[c].status # "none" /\ child[c].status \in Statuses
      BY <1>2 DEF RunningChildren, SoundCheckpoint, Recorded, ChildIsReal, ChildStates
    <3>2. child[c].status \in Active \/ child[c].status \in Terminal
      BY <3>1 DEF Statuses
    <3>3. child[c].status \in Active => child'[c].status = "cancelled"
      BY <1>2, <1>3, <3>1 DEF CancelAll, ChildStates
    <3> QED BY <2>2, <3>1, <3>2, <3>3 DEF ChildrenSettle, Terminal
  <2>4. AreOver(f.cp, child')
    BY <2>1, <2>3 DEF AreOver
  <2>5. StopsWell(f, failures', child')
    BY <1>2, <2>1, <2>4 DEF StopsWell, UndoesAll
  <2> QED BY <1>1, <1>3, <2>1, <2>2, <2>5, AttemptStops
<1>4. CASE Release(o) /\ UNCHANGED child
  BY <1>1, <1>4, NothingSettles, ReleaseStops
<1> QED BY <1>1, <1>3, <1>4

(* The children that the store has on record are those the attempt knows. *)
LEMMA CommitCancelledStops ==
  ASSUME EngineInv, StopInv, NEW o \in Owners, CommitCancelled(o) PROVE StopInv'
<1> DEFINE e == exec[o]
<1>1. /\ e.phase = "cancelling" /\ EndingCommit(o, Ended("cancelled")) /\ UNCHANGED child
      /\ "cancelled" \in Terminal /\ "cancelled" # "failed"
  BY DEF CommitCancelled, Terminal
<1>2. IsInStep(e, stored) /\ SoundCheckpoint(e.cp, child) /\ AreOver(e.cp, child)
  BY <1>1, AttemptOfInv, StopOfInv DEF StopsWell
<1>3. ASSUME StoreAccepts(o) PROVE AreOver(stored.cp, child)
  <2> SUFFICES ASSUME NEW s \in Agents, stored.cp.steps[s].status = "running"
               PROVE  child[stored.cp.steps[s].child].status \in Terminal
    BY DEF AreOver, RunningChildren
  <2>1. CoversAt(stored.cp, e.cp, s)
    BY <1>1, <1>2, <1>3, ProgramIsTyped DEF IsInStep, StoreAccepts
  <2>2. Recorded(e.cp, s) /\ e.cp.steps[s].child = stored.cp.steps[s].child
    BY <2>1 DEF CoversAt, Recorded
  <2>3. CASE e.cp.steps[s].status = "running"
    BY <1>2, <2>2, <2>3 DEF AreOver, RunningChildren
  <2>4. CASE Done(e.cp, s)
    BY <1>2, <2>2, <2>4 DEF SoundCheckpoint, ChildIsReal, Terminal
  <2>5. e.cp.steps[s].status \in {"none", "running", "completed"}
    BY AttemptOfInv, CheckpointOfType, ProgramIsTyped DEF Records
  <2> QED BY <2>2, <2>3, <2>4, <2>5 DEF Recorded, Done
<1> QED BY <1>1, <1>3, EndingStops

LEMMA GiveUpStops ==
  ASSUME EngineInv, StopInv, NEW o \in Owners, GiveUp(o) PROVE StopInv'
BY NothingSettles, ReleaseStops DEF GiveUp

(* Only the phase moves on. *)
LEMMA PhaseStops ==
  ASSUME EngineInv, StopInv, NEW o \in Owners, NEW phase, phase \in Phases,
         exec' = [exec EXCEPT ![o].phase = phase], UNCHANGED <<stored, child, failures>>,
         StopsWell([exec[o] EXCEPT !.phase = phase], failures, child)
  PROVE  StopInv'
<1> DEFINE f == [exec[o] EXCEPT !.phase = phase]
<1>1. exec' = [exec EXCEPT ![o] = f] /\ ChildrenSettle(child, child') /\ StopsWell(f, failures', child')
  BY StopOfInv, NothingSettles
<1> HIDE DEF f
<1> QED BY <1>1, AttemptStops

LEMMA PhaseFields ==
  ASSUME NEW e \in Attempts, NEW phase
  PROVE  LET f == [e EXCEPT !.phase = phase] IN
         /\ f.phase = phase /\ f.cp = e.cp /\ f.status = e.status /\ f.error = e.error
         /\ f.aborted = e.aborted /\ f.lost = e.lost /\ f.poisoned = e.poisoned
         /\ f.handlers = e.handlers /\ f.undoing = e.undoing
         /\ phase \in Phases => f \in Attempts
BY DEF Attempts

LEMMA AwaitStops ==
  ASSUME EngineInv, StopInv, NEW o \in Owners, AwaitQueue(o) PROVE StopInv'
<1> DEFINE e == exec[o]
<1>1. PICK phase \in {"stuck", "compensating"} :
        /\ e.phase = "failing" /\ ~e.aborted /\ e.error = "error" /\ UNCHANGED <<stored, child, failures>>
        /\ exec' = [exec EXCEPT ![o].phase = phase]
        /\ phase = "compensating" => ~e.poisoned
  BY DEF AwaitQueue
<1>2. e \in Attempts /\ StopsWell(e, failures, child) /\ Declared(e.cp)
  BY StopOfInv
<1> DEFINE f == [e EXCEPT !.phase = phase]
<1>3. /\ f.phase = phase /\ f.cp = e.cp /\ f.status = e.status /\ f.handlers = e.handlers
  <2> HIDE DEF e
  <2> QED BY <1>2, PhaseFields
<1> HIDE DEF f
<1>4. StopsWell(f, failures, child)
  BY <1>1, <1>2, <1>3 DEF StopsWell, UndoesAll, HasHandlers
<1>5. phase \in Phases
  BY DEF Phases, Advancing
<1> QED BY <1>1, <1>4, <1>5, PhaseStops DEF f

(* A commit of the compensation is rejected only after a store call threw  *)
(* or the lease was lost.                                                  *)
LEMMA UndoCommitStops ==
  ASSUME EngineInv, StopInv, NEW o \in Owners, NEW cp, NEW ok, NEW bad \in Attempts,
         QueuedCommit(o, cp, ok, bad), UNCHANGED child,
         bad.phase \in {"undoFailed", "committing"}, bad.cp = exec[o].cp, bad.lost = exec[o].lost,
         bad.status = exec[o].status,
         Undoable => exec[o].status = "running" /\ (exec[o].poisoned => exec[o].lost \/ failures > 0),
         ~exec[o].poisoned => /\ cp \in Checkpoints /\ Declared(cp)
                              /\ StopsWell([ok EXCEPT !.cp = cp], failures, child)
  PROVE  StopInv'
<1> DEFINE e == exec[o]
<1>1. /\ Declared(e.cp) /\ ChildrenSettle(child, child') /\ child' = child
      /\ failures \in Nat /\ failures + 1 > 0
  BY StopOfInv, NothingSettles
<1>2. ASSUME NEW f, f.phase = bad.phase, Declared(f.cp), f.status = e.status, f.lost = e.lost,
             NEW g, Undoable => f.lost \/ g > 0
      PROVE  StopsWell(f, g, child')
  BY <1>2 DEF StopsWell, UndoesAll
<1>3. ASSUME e.poisoned \/ e.status # "running"
      PROVE  StopsWell([bad EXCEPT !.poisoned = TRUE], failures, child')
  <2> DEFINE f == [bad EXCEPT !.poisoned = TRUE]
  <2>1. f.phase = bad.phase /\ f.cp = e.cp /\ f.status = e.status /\ f.lost = e.lost
    BY DEF Attempts
  <2> HIDE DEF f
  <2>2. StopsWell(f, failures, child')
    BY <1>1, <1>2, <1>3, <2>1
  <2> QED BY <2>2 DEF f
<1>4. ASSUME ~e.poisoned PROVE StopsWell([bad EXCEPT !.cp = cp, !.poisoned = TRUE], failures + 1, child')
  <2> DEFINE f == [bad EXCEPT !.cp = cp, !.poisoned = TRUE]
  <2>1. f.phase = bad.phase /\ f.cp = cp /\ f.status = e.status /\ f.lost = e.lost
    BY DEF Attempts
  <2> HIDE DEF f
  <2>2. StopsWell(f, failures + 1, child')
    BY <1>1, <1>2, <1>4, <2>1
  <2> QED BY <2>2 DEF f
<1>5. ~e.poisoned => /\ cp \in Checkpoints /\ Declared(cp)
                     /\ StopsWell([ok EXCEPT !.cp = cp], failures, child')
  BY <1>1
<1> QED BY <1>1, <1>3, <1>4, <1>5, QueuedStops

LEMMA CompensateStops ==
  ASSUME EngineInv, StopInv, NEW o \in Owners, Compensate(o) PROVE StopInv'
<1> DEFINE e == exec[o]
           id == NextUndone(e.cp)
           broken == [e EXCEPT !.phase = "committing"]
           ok == [e EXCEPT !.phase = "undoing", !.undoing = id]
<1>1. /\ e.phase = "compensating" /\ UNCHANGED child
      /\ \/ /\ Pending(e.cp) = {} \/ id \notin e.handlers
            /\ exec' = [exec EXCEPT ![o] = broken] /\ UNCHANGED <<stored, failures>>
         \/ QueuedCommit(o, e.cp, ok, broken)
  BY DEF Compensate
<1>2. /\ e \in Attempts /\ Checkpoint(e.cp) /\ e.cp \in Checkpoints /\ SoundCheckpoint(e.cp, child)
      /\ ~e.poisoned /\ Declared(e.cp) /\ StopsWell(e, failures, child)
      /\ Undoable => e.status = "running" /\ HasHandlers(e)
  BY <1>1, AttemptOfInv, StopOfInv DEF UndoingIsSound, UndoesAll, Checkpoint
<1>3. /\ broken \in Attempts /\ broken.phase = "committing" /\ broken.cp = e.cp
      /\ broken.lost = e.lost /\ broken.status = e.status /\ broken.poisoned = e.poisoned
  <2>1. "committing" \in Phases
    BY DEF Phases, Advancing
  <2> HIDE DEF e
  <2> QED BY <1>2, <2>1, PhaseFields
<1>4. CASE /\ Pending(e.cp) = {} \/ id \notin e.handlers
           /\ exec' = [exec EXCEPT ![o] = broken] /\ UNCHANGED <<stored, failures>>
  <2>1. Undoable => IsUndone(e.cp)
    <3>1. Pending(e.cp) # {} => id \in Pending(e.cp)
      BY <1>2, NextUndoneIsPending
    <3> QED BY <1>2, <1>4, <3>1 DEF HasHandlers, IsUndone
  <2> HIDE DEF id, broken
  <2>2. StopsWell(broken, failures', child')
    BY <1>1, <1>2, <1>3, <1>4, <2>1 DEF StopsWell, UndoesAll
  <2>3. ChildrenSettle(child, child')
    BY <1>1, NothingSettles
  <2> QED BY <1>1, <1>4, <2>2, <2>3, AttemptStops
<1>5. CASE QueuedCommit(o, e.cp, ok, broken)
  <2> DEFINE f == [ok EXCEPT !.cp = e.cp]
  <2>1. f.phase = "undoing" /\ f.cp = e.cp /\ f.status = e.status /\ f.handlers = e.handlers
    BY <1>2 DEF Attempts
  <2> HIDE DEF f, id
  <2>2. StopsWell(f, failures, child)
    BY <1>2, <2>1 DEF StopsWell, UndoesAll, HasHandlers
  <2>3. StopsWell([ok EXCEPT !.cp = e.cp], failures, child)
    BY <2>2 DEF f
  <2> HIDE DEF ok, broken
  <2> QED BY <1>1, <1>2, <1>3, <1>5, <2>3, UndoCommitStops
<1> QED BY <1>1, <1>4, <1>5

LEMMA RunHandlerStops ==
  ASSUME EngineInv, StopInv, NEW o \in Owners, RunHandler(o) PROVE StopInv'
<1> DEFINE e == exec[o]
<1>1. PICK phase \in {"undone", "undoFailed"} : exec' = [exec EXCEPT ![o].phase = phase]
  BY DEF RunHandler
<1>2. e.phase = "undoing" /\ UNCHANGED <<stored, child, failures>>
  BY DEF RunHandler
<1>3. /\ e \in Attempts /\ ~e.poisoned /\ Declared(e.cp) /\ StopsWell(e, failures, child)
      /\ Undoable => e.status = "running" /\ HasHandlers(e)
  BY <1>2, AttemptOfInv, StopOfInv DEF UndoingIsSound, UndoesAll
<1> DEFINE f == [e EXCEPT !.phase = phase]
<1>4. /\ f.phase = phase /\ f.cp = e.cp /\ f.status = e.status /\ f.poisoned = e.poisoned
      /\ f.handlers = e.handlers
  <2> HIDE DEF e
  <2> QED BY <1>3, PhaseFields
<1> HIDE DEF f
<1>5. StopsWell(f, failures, child)
  BY <1>3, <1>4 DEF StopsWell, UndoesAll, HasHandlers
<1>6. phase \in Phases
  BY DEF Phases, Advancing
<1> QED BY <1>1, <1>2, <1>5, <1>6, PhaseStops DEF f

LEMMA CompAfterMark ==
  ASSUME NEW cp, Checkpoint(cp), NEW id \in StepIds, NEW how, NEW x \in StepIds
  PROVE  [cp EXCEPT !.steps[id].comp = how].steps[x].comp = IF x = id THEN how ELSE cp.steps[x].comp
<1>1. cp \in Checkpoints /\ cp.steps \in [StepIds -> Records] /\ cp.steps[id] \in Records /\ cp.steps[x] \in Records
  BY DEF Checkpoint, Checkpoints
<1>2. [cp EXCEPT !.steps[id].comp = how].steps = [cp.steps EXCEPT ![id].comp = how]
  BY <1>1 DEF Checkpoints
<1>3. [cp.steps EXCEPT ![id].comp = how][x].comp = IF x = id THEN how ELSE cp.steps[x].comp
  BY <1>1 DEF Records
<1> QED BY <1>2, <1>3

LEMMA RecordHandlerStops ==
  ASSUME EngineInv, StopInv, NEW o \in Owners, RecordHandler(o) PROVE StopInv'
<1> DEFINE e == exec[o]
           cp(how) == [e.cp EXCEPT !.steps[e.undoing].comp = how]
           to(phase) == [e EXCEPT !.phase = phase]
<1>1. PICK how \in {"completed", "failed"}, next \in {"compensating", "committing"},
           other \in {"undoFailed", "committing"} :
        /\ QueuedCommit(o, cp(how), to(next), to(other)) /\ UNCHANGED child
        /\ \/ e.phase = "undone" /\ how = "completed" /\ next = "compensating"
           \/ e.phase = "undoFailed" /\ how = "failed" /\ next = "committing"
  BY DEF RecordHandler
<1>2. /\ e \in Attempts /\ Checkpoint(e.cp) /\ SoundCheckpoint(e.cp, child) /\ UndoingIsSound(e)
      /\ Declared(e.cp) /\ StopsWell(e, failures, child) /\ (Undoable => UndoesAll(e, failures))
  BY AttemptOfInv, StopOfInv
<1> HIDE DEF e
<1>3. ASSUME NEW phase \in Phases
      PROVE  /\ to(phase) \in Attempts /\ to(phase).phase = phase /\ to(phase).cp = e.cp
             /\ to(phase).lost = e.lost /\ to(phase).status = e.status
             /\ to(phase).poisoned = e.poisoned /\ to(phase).handlers = e.handlers
  BY <1>2, PhaseFields
<1>4. next \in Phases /\ other \in Phases
  BY DEF Phases, Advancing
<1>5. Undoable => e.status = "running" /\ (e.poisoned => e.lost \/ failures > 0)
  BY <1>1, <1>2 DEF UndoesAll, UndoingIsSound
<1>6. ASSUME ~e.poisoned
      PROVE  /\ cp(how) \in Checkpoints /\ Declared(cp(how))
             /\ StopsWell([to(next) EXCEPT !.cp = cp(how)], failures, child)
  <2>1. e.undoing \in StepIds /\ e.cp.steps[e.undoing].comp = "pending"
    BY <1>1, <1>2, <1>6 DEF UndoingIsSound
  <2>2. /\ Checkpoint(cp(how))
        /\ \A x \in StepIds : cp(how).steps[x].comp = IF x = e.undoing THEN how ELSE e.cp.steps[x].comp
    <3>1. Checkpoint(cp(how))
      BY <1>2, <2>1, MarkIsSound
    <3>2. ASSUME NEW x \in StepIds
          PROVE  cp(how).steps[x].comp = IF x = e.undoing THEN how ELSE e.cp.steps[x].comp
      BY <1>2, <2>1, <3>2, CompAfterMark
    <3> QED BY <3>1, <3>2
  <2> DEFINE cq == cp(how)
             f == [to(next) EXCEPT !.cp = cq]
  <2>3. /\ Checkpoint(cq) /\ cq \in Checkpoints
        /\ \A x \in StepIds : cq.steps[x].comp = IF x = e.undoing THEN how ELSE e.cp.steps[x].comp
    BY <2>2 DEF Checkpoint
  <2> HIDE DEF cq, cp
  <2>4. Declared(cq) /\ (how = "failed" => IsUndone(cq)) /\ (how = "completed" => Pending(cq) \subseteq Pending(e.cp))
    BY <1>2, <2>1, <2>3 DEF Declared, IsUndone, Pending
  <2>5. to(next) \in Attempts /\ to(next).phase = next /\ to(next).status = e.status
        /\ to(next).handlers = e.handlers /\ to(next).poisoned = e.poisoned
    BY <1>3, <1>4
  <2> HIDE DEF to
  <2>6. /\ f.phase = next /\ f.cp = cq /\ f.status = e.status /\ f.poisoned = e.poisoned
        /\ f.handlers = e.handlers
    BY <2>5 DEF Attempts
  <2> HIDE DEF f
  <2>7. StopsWell(f, failures, child)
    BY <1>1, <1>2, <1>5, <1>6, <2>4, <2>6 DEF StopsWell, UndoesAll, HasHandlers
  <2> QED BY <2>3, <2>4, <2>7 DEF f, cq
<1>7. /\ to(other) \in Attempts /\ to(other).phase = other /\ to(other).cp = e.cp
      /\ to(other).lost = e.lost /\ to(other).status = e.status
  BY <1>3, <1>4
<1> HIDE DEF cp, to
<1> QED BY <1>1, <1>5, <1>6, <1>7, UndoCommitStops DEF e

LEMMA CommitFailedStops ==
  ASSUME EngineInv, StopInv, NEW o \in Owners, CommitFailed(o) PROVE StopInv'
<1> DEFINE e == exec[o]
           img == FreedBy(o, Ended("failed"))
           ok == Over(e)
           thrown == [e EXCEPT !.phase = "stuck", !.status = "failed"]
<1>1. e.phase = "committing" /\ CommitStep(o, img, ok, thrown) /\ UNCHANGED child
  BY DEF CommitFailed
<1>2. /\ e \in Attempts /\ Declared(e.cp) /\ Declared(stored.cp) /\ failures \in Nat
      /\ (Undoable => UndoesAll(e, failures)) /\ ChildrenSettle(child, child')
  BY <1>1, StopOfInv, NothingSettles
<1>3. thrown \in Attempts /\ thrown.phase = "stuck" /\ thrown.cp = e.cp
  BY <1>2 DEF Attempts, Phases, Statuses, Terminal
<1>4. img.cp = stored.cp /\ img.status = "failed"
  <2>1. stored \in Stores
    BY StateOfType DEF EngineInv
  <2> QED BY <2>1 DEF Ended, FreedBy, Stores
<1> HIDE DEF img, thrown
<1>5. StopsWell(thrown, failures + 1, child')
  BY <1>2, <1>3, QuietStops DEF Loud
<1>6. ASSUME StoreAccepts(o), ~e.lost PROVE StopIsWhole(img, failures, child')
  <2>1. ASSUME Undoable, failures = 0 PROVE IsUndone(stored.cp)
    <3>1. ~e.poisoned /\ IsUndone(e.cp)
      BY <1>1, <1>2, <1>6, <2>1 DEF UndoesAll
    <3>2. e.cp = stored.cp
      BY <1>1, <1>6, <3>1, AcceptedIsInStep
    <3> QED BY <3>1, <3>2
  <2> QED BY <1>2, <1>4, <2>1 DEF StopIsWhole
<1>7. StopsWell(ok, failures, child')
  BY <1>2, OverStops
<1> HIDE DEF ok
<1> QED BY <1>1, <1>2, <1>3, <1>5, <1>6, <1>7, CommitStops

-----------------------------------------------------------------------------
(* The environment.                                                        *)

LEMMA AbortStops ==
  ASSUME EngineInv, StopInv, NEW o \in Owners, Abort(o) PROVE StopInv'
<1> DEFINE e == exec[o]
           f == [e EXCEPT !.aborted = TRUE]
<1>1. exec' = [exec EXCEPT ![o].aborted = TRUE] /\ UNCHANGED <<stored, child, failures>>
  BY DEF Abort
<1>2. /\ e \in Attempts /\ exec \in [Owners -> Attempts] /\ StopsWell(e, failures, child)
      /\ ChildrenSettle(child, child')
  BY <1>1, StopOfInv, NothingSettles
<1>3. exec' = [exec EXCEPT ![o] = f] /\ Alike(e, f)
  BY <1>1, <1>2 DEF Attempts, Alike
<1> HIDE DEF f
<1>4. StopsWell(f, failures', child')
  BY <1>1, <1>2, <1>3, AlikeStops
<1> QED BY <1>1, <1>2, <1>3, <1>4, AttemptStops

LEMMA CancelStuckStops ==
  ASSUME EngineInv, StopInv, NEW o \in Owners, CancelStuck(o) PROVE StopInv'
<1> DEFINE e == exec[o]
<1>1. PICK phase \in {"failing", "stuck"} :
        /\ exec' = [exec EXCEPT ![o].aborted = TRUE, ![o].phase = phase]
        /\ UNCHANGED <<stored, child, failures>>
  BY DEF CancelStuck
<1> DEFINE f == [e EXCEPT !.aborted = TRUE, !.phase = phase]
<1>2. /\ e \in Attempts /\ exec \in [Owners -> Attempts] /\ Declared(e.cp) /\ ChildrenSettle(child, child')
  BY <1>1, StopOfInv, NothingSettles
<1>3. exec' = [exec EXCEPT ![o] = f] /\ f.phase = phase /\ f.aborted /\ f.cp = e.cp
  BY <1>1, <1>2 DEF Attempts
<1> HIDE DEF f
<1>4. StopsWell(f, failures', child')
  BY <1>2, <1>3 DEF StopsWell, UndoesAll
<1> QED BY <1>1, <1>2, <1>3, <1>4, AttemptStops

LEMMA NoticeStops ==
  ASSUME EngineInv, StopInv, NEW o \in Owners, NoticeAbort(o) PROVE StopInv'
<1> DEFINE e == exec[o]
           f == Failing(e, "error")
<1>1. /\ e.phase = "working" /\ e.aborted /\ exec' = [exec EXCEPT ![o] = f]
      /\ UNCHANGED <<stored, child, failures>>
  BY DEF NoticeAbort
<1>2. /\ e \in Attempts /\ Declared(e.cp) /\ e.status = "running" /\ ChildrenSettle(child, child')
  BY <1>1, StopOfInv, AttemptOfInv, NothingSettles DEF ReplayIsSound
<1>3. f.phase = "failing" /\ f.cp = e.cp /\ f.status = e.status /\ f.aborted = e.aborted
  <2> HIDE DEF e
  <2> QED BY <1>2, FailingKeeps
<1> HIDE DEF f
<1>4. StopsWell(f, failures', child')
  BY <1>1, <1>2, <1>3, FailingStops
<1> QED BY <1>1, <1>2, <1>4, AttemptStops

LEMMA LoseLeaseStops ==
  ASSUME EngineInv, StopInv, NEW o \in Owners, LoseLease(o) PROVE StopInv'
<1> DEFINE e == exec[o]
           f == Refused(e)
<1>1. /\ failures' = failures + 1 /\ stored' = FreedBy(o, stored) /\ child' = child
      /\ exec' = [exec EXCEPT ![o] = f]
  BY DEF LoseLease
<1>2. /\ e \in Attempts /\ StopsWell(e, failures, child) /\ SoundCheckpoint(e.cp, child)
      /\ failures \in Nat /\ ChildrenSettle(child, child')
  BY <1>1, StopOfInv, AttemptOfInv, NothingSettles
<1>3. Alike(e, f)
  BY <1>2 DEF Refused, Attempts, Alike
<1> HIDE DEF f
<1>4. StopsWell(e, failures', child')
  BY <1>1, <1>2, StoppingStays
<1>5. StopsWell(f, failures', child')
  BY <1>3, <1>4, AlikeStops
<1>6. stored'.cp = stored.cp /\ stored'.status = stored.status
  BY <1>1, StateOfType DEF FreedBy, EngineInv, Stores
<1> QED BY <1>1, <1>2, <1>5, <1>6, AttemptStops

LEMMA CrashStops ==
  ASSUME EngineInv, StopInv, NEW o \in Owners, Crash(o) PROVE StopInv'
<1> DEFINE f == [Idle EXCEPT !.phase = "dead"]
<1>1. exec' = [exec EXCEPT ![o] = f] /\ UNCHANGED <<stored, child, failures>>
  BY DEF Crash
<1>2. f.phase = "dead" /\ f.cp = EmptyCheckpoint
  BY DEF Idle
<1>3. Declared(EmptyCheckpoint)
  BY DEF Declared, EmptyCheckpoint, NoRecord
<1> HIDE DEF f
<1>4. StopsWell(f, failures', child')
  BY <1>2, <1>3, QuietStops DEF Loud
<1> QED BY <1>1, <1>4, NothingSettles, AttemptStops

(* No attempt moves. *)
LEMMA OthersStop ==
  ASSUME EngineInv, StopInv, NEW o \in Owners, UNCHANGED <<exec, failures>>,
         stored'.cp = stored.cp, stored'.status = stored.status, ChildrenSettle(child, child')
  PROVE  StopInv'
<1>1. exec' = [exec EXCEPT ![o] = exec[o]]
  BY StopOfInv
<1>2. StopsWell(exec[o], failures', child')
  BY StopOfInv, AttemptOfInv, StoppingStays
<1> QED BY <1>1, <1>2, AttemptStops

LEMMA ExpireStops ==
  ASSUME EngineInv, StopInv, Expire PROVE StopInv'
<1>1. /\ stored.holder # NoOwner /\ stored' = [stored EXCEPT !.holder = NoOwner]
      /\ UNCHANGED <<child, exec, failures>>
  BY DEF Expire
<1>2. /\ stored.holder \in Owners /\ stored'.cp = stored.cp /\ stored'.status = stored.status
      /\ ChildrenSettle(child, child')
  BY <1>1, StateOfType, NothingSettles DEF EngineInv, Stores
<1> QED BY <1>1, <1>2, OthersStop

LEMMA ExpireChildStops ==
  ASSUME EngineInv, StopInv, NEW c \in Children, ExpireChild(c) PROVE StopInv'
<1>1. /\ child[c].worker # NoOwner /\ child' = [child EXCEPT ![c].worker = NoOwner]
      /\ UNCHANGED <<stored, exec, failures>>
  BY DEF ExpireChild
<1>2. child[c].worker \in Owners /\ ChildrenSettle(child, child')
  BY <1>1, StateOfType, WorkerSettles DEF EngineInv, ChildStates
<1> QED BY <1>1, <1>2, OthersStop

-----------------------------------------------------------------------------
(* Every step keeps the invariant.                                         *)

LEMMA InitStops == ASSUME Init PROVE StopInv
<1>1. /\ stored = [status |-> "none", cp |-> EmptyCheckpoint, pause |-> {}, holder |-> NoOwner]
      /\ child = [c \in Children |-> [status |-> "none", worker |-> NoOwner, able |-> TRUE]]
      /\ exec = [o \in Owners |-> Idle] /\ failures = 0
  BY DEF Init
<1>2. Declared(EmptyCheckpoint)
  BY DEF Declared, EmptyCheckpoint, NoRecord
<1>3. Idle.phase = "idle" /\ Idle.cp = EmptyCheckpoint
  BY DEF Idle
<1>4. StopsWell(Idle, failures, child)
  BY <1>2, <1>3, QuietStops DEF Loud
<1>5. StopIsWhole(stored, failures, child)
  BY <1>1, <1>2 DEF StopIsWhole
<1> QED BY <1>1, <1>4, <1>5 DEF StopInv

LEMMA TaskStepsStop ==
  ASSUME EngineInv, StopInv, NEW o \in Owners, NEW s \in Agents,
         \/ ReuseRecord(o, s) \/ CreateChild(o, s) \/ RecordStep(o, s) \/ ChildConflicts(o, s)
         \/ \E status \in Terminal \cup Active : ChildEnds(o, s, status)
         \/ RelayFails(o, s) \/ ReportFailure(o, s) \/ CompleteStep(o, s)
  PROVE  StopInv'
BY ReuseStops, CreateStops, RecordStepStops, ChildConflictsStops, ChildEndsStops, RelayStops,
   ReportStops, CompleteStops

LEMMA AttemptStepStops ==
  ASSUME EngineInv, StopInv, NEW o \in Owners, Attempt(o) PROVE StopInv'
<1>1. CASE Start(o) \/ Read(o, "read") \/ Read(o, "cancelRead")
           \/ Acquire(o, "read", "leased") \/ Acquire(o, "cancelRead", "cancelLeased")
  BY <1>1, StartStops, ReadStops, AcquireStops
<1>2. CASE Recover(o) \/ \E w \in StepIds : ResumeWait(o, w)
  BY <1>2, RecoverStops, ResumeWaitStops
<1>3. CASE \/ \E c \in Children : ResumeChild(o, c)
           \/ \E status \in Terminal \cup Active : ResumedChildEnds(o, status) \/ CommitExpired(o, status)
           \/ ResumedChildConflicts(o) \/ ResumedChildExpires(o) \/ CommitResumed(o)
  BY <1>3, ResumeChildStops, ResumedChildEndsStops, CommitExpiredStops,
     ResumedChildConflictsStops, ResumedChildExpiresStops, CommitResumedStops
<1>4. CASE \E s \in Agents :
             \/ ReuseRecord(o, s) \/ CreateChild(o, s) \/ RecordStep(o, s) \/ ChildConflicts(o, s)
             \/ \E status \in Terminal \cup Active : ChildEnds(o, s, status)
             \/ RelayFails(o, s) \/ ReportFailure(o, s) \/ CompleteStep(o, s)
  BY <1>4, TaskStepsStop
<1>5. CASE OpenParallel(o) \/ JoinAgent(o) \/ JoinParallel(o) \/ Wait(o) \/ Finish(o)
  BY <1>5, OpenStops, JoinAgentStops, JoinParallelStops, WaitStops, FinishStops
<1>6. CASE \/ CancelChildren(o) \/ CommitCancelled(o) \/ GiveUp(o) \/ AwaitQueue(o)
           \/ Compensate(o) \/ RunHandler(o) \/ RecordHandler(o) \/ CommitFailed(o)
  BY <1>6, CancelChildrenStops, CommitCancelledStops, GiveUpStops, AwaitStops,
     CompensateStops, RunHandlerStops, RecordHandlerStops, CommitFailedStops
<1> QED BY <1>1, <1>2, <1>3, <1>4, <1>5, <1>6 DEF Attempt

LEMMA StepKeepsStop == ASSUME EngineInv, StopInv, [Next]_vars PROVE StopInv'
<1>1. ASSUME NEW o \in Owners,
             Attempt(o) \/ Abort(o) \/ CancelStuck(o) \/ NoticeAbort(o) \/ LoseLease(o) \/ Crash(o)
      PROVE  StopInv'
  BY <1>1, AttemptStepStops, AbortStops, CancelStuckStops, NoticeStops, LoseLeaseStops, CrashStops
<1>2. CASE Expire
  BY <1>2, ExpireStops
<1>3. ASSUME NEW c \in Children, ExpireChild(c) PROVE StopInv'
  BY <1>3, ExpireChildStops
<1>4. CASE UNCHANGED vars
  BY <1>4 DEF vars, StopInv
<1> QED BY <1>1, <1>2, <1>3, <1>4 DEF Next

LEMMA WorkflowsStopWell == Spec => []StopInv
<1>1. Init => EngineInv /\ StopInv
  BY InitIsSound, InitStops
<1>2. EngineInv /\ StopInv /\ [Next]_vars => (EngineInv /\ StopInv)'
  BY StepKeepsInv, StepKeepsStop
<1> QED BY <1>1, <1>2, PTL DEF Spec

(* A workflow that has failed has undone every completed step that was     *)
(* declared with compensate, unless a handler or a store call failed: if   *)
(* nothing follows a parallel step whose tasks take compensation (programs *)
(* with such items lose handlers: workflow-engine.ts:849), and if no       *)
(* resumed child passes its deadline, which ends the workflow at once      *)
(* (workflow-engine.ts:1647).                                              *)
THEOREM FailedWorkflowsAreUndone ==
  ASSUME Undoable PROVE Spec => []FailureIsCompensated
<1>1. ASSUME StopInv PROVE FailureIsCompensated
  BY <1>1 DEF StopInv, StopIsWhole, IsUndone, FailureIsCompensated
<1> QED BY <1>1, WorkflowsStopWell, PTL

(* Whatever process compensates, after whatever crashes, replays and lost  *)
(* commits, holds a handler for every pending step (registerCompensation,  *)
(* workflow-engine.ts:495); the same programs as above.                    *)
THEOREM ReplaysBringHandlersBack ==
  ASSUME Undoable PROVE Spec => []HandlersAreBack
<1>1. ASSUME StopInv PROVE HandlersAreBack
  BY <1>1 DEF StopInv, StopsWell, UndoesAll, HasHandlers, HandlersAreBack
<1> QED BY <1>1, WorkflowsStopWell, PTL

(* A workflow that was cancelled leaves none of the children it has on     *)
(* record at work, if children do not pause (a rejection and a deadline    *)
(* of one paused child end the workflow beside the others).                *)
THEOREM CancelledWorkflowsStopTheirChildren ==
  ASSUME Unpaused PROVE Spec => []CancellationReachesRecordedChildren
<1>1. ASSUME StopInv PROVE CancellationReachesRecordedChildren
  <2>1. Terminal \cap Active = {}
    BY DEF Terminal, Active
  <2> QED BY <1>1, <2>1 DEF StopInv, StopIsWhole, AreOver, CancellationReachesRecordedChildren
<1> QED BY <1>1, WorkflowsStopWell, PTL
=============================================================================
