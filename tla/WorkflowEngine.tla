--------------------------- MODULE WorkflowEngine ---------------------------
(***************************************************************************)
(* Durable workflows (packages/fevex/src/internal/workflow-engine.ts): one *)
(* coordinator run, the attempts that work on it from any number of        *)
(* processes, and the agent runs it starts as children.                    *)
(*                                                                         *)
(* A workflow is a program of items.  An item runs one agent step, several *)
(* of them in parallel, or waits for a timer or an event.  Every attempt   *)
(* replays the program from its first item against the step records of the *)
(* checkpoint.  An element of Owners is one attempt: a start, a recovery,  *)
(* the resolution of a pause, or an out-of-band cancellation.              *)
(*                                                                         *)
(* The revision of the run is abstracted to "fresh": whether the revision  *)
(* an attempt holds is the stored one.  stored.steps keeps the last        *)
(* checkpoint after the run has ended, for the properties; the store has   *)
(* deleted it and no action reads it.                                      *)
(***************************************************************************)
EXTENDS Integers, Sequences, FiniteSets, SequencesExt

CONSTANTS Owners,       \* attempts
          NoOwner,
          Agents,       \* ids of the agent steps
          Program,      \* sequence of [kind, id, tasks]
          Compensated,  \* ids of the steps declared with compensate
          StepLimit,    \* limits.maxSteps; every child takes one model step
          MaxChildren,  \* children per agent step
          MaxFailures,  \* store calls that throw
          MaxCrashes,
          Outcomes      \* how a child may end: "completed", "paused", "failed", "expired"

Kinds == {"agent", "parallel", "timer", "event"}
Items == 1 .. Len(Program)
Tasks(i) == ToSet(Program[i].tasks)
StepIds == Agents \cup {Program[i].id : i \in Items}
Children == Agents \X (1 .. MaxChildren)
NoChild == <<"none", 0>>
(* What a paused run waits for besides children: a timer or an event. *)
WaitFor(id) == <<id, 0>>
Active == {"running", "paused"}
Terminal == {"completed", "failed", "cancelled"}

WaitIds == {Program[i].id : i \in {j \in Items : Program[j].kind \in {"timer", "event"}}}
StepsOf(i) == Tasks(i) \cup {Program[i].id}

(* A step id is the durable identity of one step (README.md:166): it       *)
(* stands in one place of the program.  Waits take no compensation.        *)
ASSUME ConstantsAssumption ==
  /\ Program \in Seq([kind : Kinds, id : StepIds, tasks : Seq(Agents)])
  /\ \A i \in Items : CASE Program[i].kind = "agent" -> Tasks(i) = {Program[i].id}
                         [] Program[i].kind = "parallel" -> Program[i].id \notin Agents
                         [] OTHER -> Program[i].id \notin Agents /\ Tasks(i) = {}
  /\ \A i, j \in Items : i # j => StepsOf(i) \cap StepsOf(j) = {}
  /\ Agents \subseteq UNION {Tasks(i) : i \in Items}
  /\ Compensated \subseteq StepIds \ WaitIds
  /\ NoOwner \notin Owners
  /\ {StepLimit, MaxChildren, MaxFailures, MaxCrashes} \subseteq Nat
  /\ Outcomes \subseteq {"completed", "paused", "failed", "expired"}

VARIABLES stored,    \* the coordinator run, its checkpoint and its lease
          child,     \* the agent runs started by steps
          exec,      \* what each attempt holds in memory
          failures, crashes,
          finished,  \* history: agent steps in the order their children completed
          undone     \* history: compensation handlers in the order they ran

vars == <<stored, child, exec, failures, crashes, finished, undone>>

(* A WorkflowStepRecord.  "none": the step has no record yet. *)
NoRecord == [status |-> "none", child |-> NoChild, comp |-> "none"]
RunningRecord(c) == [status |-> "running", child |-> c, comp |-> "none"]
CompletedRecord(id, c) ==
  [status |-> "completed", child |-> c,
   comp |-> IF id \in Compensated THEN "pending" ELSE "none"]

(* order: the keys of checkpoint.steps in insertion order; budget: the     *)
(* model steps of completed children.                                      *)
EmptyCheckpoint == [steps |-> [s \in StepIds |-> NoRecord], order |-> <<>>, budget |-> 0]

(* Mutant: rewriting a record moves its key. *)
PutAgain(cp, id, record) ==
  [cp EXCEPT !.steps[id] = record, !.order = Append(@, id)]

Put(cp, id, record) ==
  [cp EXCEPT !.steps[id] = record,
             !.order = IF cp.steps[id].status = "none" THEN Append(@, id) ELSE @]

NoTask == [st |-> "new", child |-> NoChild]

Idle == [phase |-> "idle", status |-> "none", cp |-> EmptyCheckpoint, pause |-> {},
         fresh |-> FALSE, lost |-> FALSE, aborted |-> FALSE, poisoned |-> FALSE,
         recovering |-> FALSE, pc |-> 1, open |-> FALSE, cursor |-> NoChild, error |-> "none",
         tasks |-> [s \in Agents |-> NoTask], handlers |-> {}, undoing |-> "none"]

Init ==
  /\ stored = [status |-> "none", cp |-> EmptyCheckpoint, pause |-> {}, holder |-> NoOwner]
  /\ child = [c \in Children |-> [status |-> "none", worker |-> NoOwner, able |-> TRUE]]
  /\ exec = [o \in Owners |-> Idle]
  /\ failures = 0 /\ crashes = 0
  /\ finished = <<>> /\ undone = <<>>

-----------------------------------------------------------------------------
(* Commits.                                                                *)

(* Mutant: the store does not compare revisions. *)
StoreAcceptsAny(o) == stored.holder = o

StoreAccepts(o) == stored.holder = o /\ exec[o].fresh /\ stored.status \in Active

(* One call of commitExecution by o: img is the run it stores, ok what the *)
(* attempt becomes when the call is answered, thrown when it throws, with  *)
(* or without having been applied.  A refusal also marks the lease as lost *)
(* and aborts the attempt; a lost lease is refused without a call.         *)
Refused(e) == [e EXCEPT !.lost = TRUE, !.aborted = TRUE]
Installed(o, e) ==
  [p \in Owners |-> IF p = o THEN e ELSE [exec[p] EXCEPT !.fresh = FALSE]]

CommitStep(o, img, ok, thrown) ==
  \/ /\ ~exec[o].lost /\ StoreAccepts(o)
     /\ stored' = img
     /\ exec' = Installed(o, ok)
     /\ UNCHANGED failures
  \/ /\ exec[o].lost \/ ~StoreAccepts(o)
     /\ exec' = [exec EXCEPT ![o] = Refused(thrown)]
     /\ UNCHANGED <<stored, failures>>
  \/ /\ ~exec[o].lost /\ failures < MaxFailures
     /\ failures' = failures + 1
     /\ \/ /\ exec' = [exec EXCEPT ![o] = thrown]
           /\ UNCHANGED stored
        \/ /\ StoreAccepts(o)
           /\ stored' = img
           /\ exec' = Installed(o, [thrown EXCEPT !.fresh = FALSE])

(* commitWorkflow: the queue of an attempt.  The update is applied in      *)
(* memory, then committed; once a commit was rejected every later one is   *)
(* rejected with the same error.  "bad" is the attempt that sees a         *)
(* rejection, before the update.                                           *)
QueuedCommit(o, cp, ok, bad) ==
  LET e == exec[o] IN
  IF e.poisoned \/ e.status # "running"
  THEN /\ exec' = [exec EXCEPT ![o] = [bad EXCEPT !.poisoned = TRUE]]
       /\ UNCHANGED <<stored, failures>>
  ELSE CommitStep(o, [stored EXCEPT !.cp = cp, !.status = "running", !.pause = {}],
                  [ok EXCEPT !.cp = cp], [bad EXCEPT !.cp = cp, !.poisoned = TRUE])

(* releaseWorkflowExecution *)
FreedBy(o, s) == IF s.holder = o THEN [s EXCEPT !.holder = NoOwner] ELSE s
Over(e) == [e EXCEPT !.phase = "over"]
Release(o) ==
  /\ stored' = FreedBy(o, stored)
  /\ exec' = [exec EXCEPT ![o] = Over(@)]

(* A commit after whose refusal or exception the lease is given up: the    *)
(* last one of an attempt, and the first one of a recovery or resolution.  *)
ReleasingCommit(o, img, ok) ==
  \/ /\ ~exec[o].lost /\ StoreAccepts(o)
     /\ stored' = img
     /\ exec' = Installed(o, ok)
     /\ UNCHANGED failures
  \/ /\ exec[o].lost \/ ~StoreAccepts(o)
     /\ Release(o)
     /\ UNCHANGED failures
  \/ /\ ~exec[o].lost /\ failures < MaxFailures
     /\ failures' = failures + 1
     /\ \/ Release(o)
        \/ /\ StoreAccepts(o)
           /\ stored' = [img EXCEPT !.holder = NoOwner]
           /\ exec' = Installed(o, Over(exec[o]))

EndingCommit(o, img) == ReleasingCommit(o, FreedBy(o, img), Over(exec[o]))

(* The commits that end the run delete the checkpoint. *)
Ended(status) == [stored EXCEPT !.status = status, !.pause = {}]

-----------------------------------------------------------------------------
(* Children.                                                               *)

RunningChildren(cp) == {cp.steps[s].child : s \in {a \in Agents : cp.steps[a].status = "running"}}

(* cancelStoredAgent by attempt o: a run this process works on is aborted, *)
(* another one is cancelled when its lease can be acquired.                *)
Cancellable(o, c) ==
  child[c].status \in Active => child[c].worker \in {NoOwner, o}
(* Mutant: runs that work in this process are not told. *)
CancelAllStored(cs) ==
  [c \in Children |->
     IF c \in cs /\ child[c].status \in Active /\ child[c].worker = NoOwner
     THEN [child[c] EXCEPT !.status = "cancelled"]
     ELSE child[c]]
CancelAll(cs) ==
  [c \in Children |->
     IF c \in cs /\ child[c].status \in Active
     THEN [child[c] EXCEPT !.status = "cancelled", !.worker = NoOwner]
     ELSE child[c]]

NextChild(s) == Cardinality({n \in 1 .. MaxChildren : child[<<s, n>>].status # "none"}) + 1

(* A child ends or pauses: executeAgent of the child's own run. *)
ChildMayEnd(c, o, status) ==
  /\ child[c].status = "running" /\ child[c].worker = o
  /\ \/ status \in Outcomes \ {"completed", "expired"} /\ ~exec[o].aborted
     \/ status = "completed" /\ status \in Outcomes /\ child[c].able /\ ~exec[o].aborted
     \/ status = "failed" /\ ~child[c].able
     \/ status = "cancelled" /\ exec[o].aborted
ChildEnded(c, status) == [child EXCEPT ![c].status = status, ![c].worker = NoOwner]
(* The child loses its own lease, and its attempt ends with a conflict. *)
ChildLosesLease(c, o) ==
  IF child[c].worker = o
  THEN /\ failures < MaxFailures /\ failures' = failures + 1
       /\ child' = [child EXCEPT ![c].worker = NoOwner]
  ELSE UNCHANGED <<child, failures>>

NoteFinished(c, status) ==
  finished' = IF status = "completed" THEN Append(finished, c[1]) ELSE finished

-----------------------------------------------------------------------------
(* Starting, recovering and resolving.                                     *)

Untouched == UNCHANGED <<crashes, finished, undone>>
Opened(e, cp, recovering) ==
  [e EXCEPT !.phase = "working", !.status = "running", !.pause = {}, !.cp = cp,
            !.recovering = recovering]

(* prepareWorkflowExecution: run, checkpoint and lease in one store call. *)
Start(o) ==
  /\ exec[o].phase = "idle" /\ stored.status = "none"
  /\ stored' = [stored EXCEPT !.status = "running", !.holder = o]
  /\ exec' = [exec EXCEPT ![o] = [Opened(@, EmptyCheckpoint, FALSE) EXCEPT !.fresh = TRUE]]
  /\ UNCHANGED <<child, failures>> /\ Untouched

(* The reads before the lease; "read" leads to a recovery or a resolution, *)
(* "cancelRead" to cancelStoredWorkflow.                                   *)
Read(o, phase) ==
  /\ exec[o].phase = "idle" /\ stored.status \in Active
  /\ exec' = [exec EXCEPT ![o] = [@ EXCEPT !.phase = phase, !.status = stored.status,
                 !.cp = stored.cp, !.pause = stored.pause, !.fresh = TRUE]]
  /\ UNCHANGED <<stored, child, failures>> /\ Untouched

Acquire(o, from, to) ==
  /\ exec[o].phase = from
  /\ IF stored.holder = NoOwner
     THEN /\ stored' = [stored EXCEPT !.holder = o]
          /\ exec' = [exec EXCEPT ![o].phase = to]
     ELSE /\ exec' = [exec EXCEPT ![o] = Over(@)]
          /\ UNCHANGED stored
  /\ UNCHANGED <<child, failures>> /\ Untouched

Recover(o) ==
  /\ exec[o].phase = "leased" /\ exec[o].status = "running"
  /\ ReleasingCommit(o, [stored EXCEPT !.cp = exec[o].cp], Opened(exec[o], exec[o].cp, TRUE))
  /\ UNCHANGED child /\ Untouched

(* The resolution of a timer or an event. *)
ResumeWait(o, w) ==
  LET e == exec[o]
      cp == Put(e.cp, w, CompletedRecord(w, NoChild)) IN
  /\ e.phase = "leased" /\ e.status = "paused" /\ w \in WaitIds /\ e.pause = {WaitFor(w)}
  /\ ReleasingCommit(o, [stored EXCEPT !.status = "running", !.pause = {}, !.cp = cp],
                     Opened(e, cp, FALSE))
  /\ UNCHANGED child /\ Untouched

(* The resolution of a paused child: the child is resumed and awaited      *)
(* under the lease of the parent, for which no renewal was started yet.    *)
ResumeChild(o, c) ==
  /\ exec[o].phase = "leased" /\ exec[o].status = "paused"
  /\ c \in exec[o].pause \cap Children
  /\ IF child[c].status = "paused"
     THEN /\ child' = [child EXCEPT ![c].status = "running", ![c].worker = o]
          /\ exec' = [exec EXCEPT ![o].phase = "child", ![o].cursor = c]
          /\ UNCHANGED stored
     ELSE Release(o) /\ UNCHANGED child
  /\ UNCHANGED failures /\ Untouched

(* A resumed child that completes, pauses again or is rejected answers; a  *)
(* child that fails throws, which leaves the workflow paused.              *)
ResumedChildEnds(o, status) ==
  LET c == exec[o].cursor IN
  /\ exec[o].phase = "child"
  /\ \/ ChildMayEnd(c, o, status)
     \/ status = "cancelled" /\ child[c].worker = o
  /\ child' = ChildEnded(c, status) /\ NoteFinished(c, status)
  /\ IF status = "failed"
     THEN Release(o)
     ELSE exec' = [exec EXCEPT ![o].phase = "answered"] /\ UNCHANGED stored
  /\ UNCHANGED <<failures, crashes, undone>>

(* The deadline of the child passes: every paused child is cancelled, then *)
(* the workflow ends, cancelled if it shared the deadline.                 *)
ResumedChildExpires(o) ==
  LET e == exec[o]
      siblings == e.pause \ {e.cursor} IN
  /\ e.phase = "child" /\ "expired" \in Outcomes /\ child[e.cursor].worker = o
  /\ IF \A c \in siblings : Cancellable(o, c)
     THEN /\ child' = CancelAll(e.pause)
          /\ exec' = [exec EXCEPT ![o].phase = "expired"]
          /\ UNCHANGED stored
     ELSE /\ child' = ChildEnded(e.cursor, "cancelled")
          /\ Release(o)
  /\ UNCHANGED failures /\ Untouched

CommitExpired(o, status) ==
  /\ exec[o].phase = "expired" /\ status \in {"failed", "cancelled"}
  /\ EndingCommit(o, Ended(status))
  /\ UNCHANGED child /\ Untouched

ResumedChildConflicts(o) ==
  /\ exec[o].phase = "child"
  /\ ChildLosesLease(exec[o].cursor, o)
  /\ Release(o)
  /\ Untouched

(* A rejected approval cancels the child and with it the workflow. *)
CommitResumed(o) ==
  LET e == exec[o] IN
  /\ e.phase = "answered"
  /\ IF child[e.cursor].status = "cancelled"
     THEN EndingCommit(o, Ended("cancelled"))
     ELSE ReleasingCommit(o, [stored EXCEPT !.status = "running", !.pause = {}, !.cp = e.cp],
                          Opened(e, e.cp, FALSE))
  /\ UNCHANGED child /\ Untouched

-----------------------------------------------------------------------------
(* executeWorkflow: the items of the program, replayed from the first one. *)

Working(o) == exec[o].phase = "working" /\ exec[o].pc <= Len(Program)
Item(o) == Program[exec[o].pc]
Failing(e, kind) == [e EXCEPT !.phase = "failing", !.error = kind]
NextItem(e) == [e EXCEPT !.pc = @ + 1, !.open = FALSE, !.tasks = [s \in Agents |-> NoTask]]
With(e, s, st) == [e EXCEPT !.tasks[s].st = st]
(* Mutant: a recovery does not register handlers again. *)
HandledOnce(e, id) ==
  [e EXCEPT !.handlers = IF id \in Compensated /\ ~e.recovering THEN @ \cup {id} ELSE @]
Handled(e, id) ==
  [e EXCEPT !.handlers = IF id \in Compensated THEN @ \cup {id} ELSE @]

(* step.parallel up to its tasks. *)
OpenParallel(o) ==
  LET e == exec[o]
      id == Item(o).id IN
  /\ Working(o) /\ Item(o).kind = "parallel" /\ ~e.open
  /\ IF e.cp.steps[id].status = "completed"
     THEN /\ exec' = [exec EXCEPT ![o] = NextItem(Handled(e, id))]
          /\ UNCHANGED <<stored, failures>>
     ELSE QueuedCommit(o, Put(e.cp, id, RunningRecord(NoChild)), [e EXCEPT !.open = TRUE],
                       Failing(e, "error"))
  /\ UNCHANGED child /\ Untouched

TaskMayStart(o, s) ==
  /\ Working(o) /\ s \in Tasks(exec[o].pc) /\ exec[o].tasks[s].st = "new"
  /\ Item(o).kind = "agent" \/ exec[o].open

(* step.agent finds a record of the step. *)
ReuseRecord(o, s) ==
  LET e == exec[o]
      record == e.cp.steps[s]
      c == record.child
      Become(st) == exec' = [exec EXCEPT ![o] = [With(e, s, st) EXCEPT !.tasks[s].child = c]] IN
  /\ TaskMayStart(o, s)
  /\ \/ /\ record.status = "completed"
        /\ exec' = [exec EXCEPT ![o] = Handled(With(e, s, "done"), s)]
        /\ UNCHANGED child
     \/ /\ record.status = "running"
        /\ \/ /\ child[c].status = "running" /\ e.recovering /\ child[c].worker = NoOwner
              /\ child' = [child EXCEPT ![c].worker = o]
              /\ Become("recovered")
           \/ /\ child[c].status = "running" /\ e.recovering /\ child[c].worker # NoOwner
              /\ Become("conflict") /\ UNCHANGED child
           \/ /\ child[c].status = "running" /\ ~e.recovering
              /\ Become("failed") /\ UNCHANGED child
           \/ /\ child[c].status = "completed"
              /\ Become("settled") /\ UNCHANGED child
           \/ /\ child[c].status = "paused"
              /\ Become("paused") /\ UNCHANGED child
           \/ /\ child[c].status \in {"failed", "cancelled"}
              /\ Become("failed") /\ UNCHANGED child
  /\ UNCHANGED <<stored, failures>> /\ Untouched

(* Mutant: a running record does not stop a second child. *)
CreateChildAgain(o, s) ==
  LET e == exec[o]
      c == <<s, NextChild(s)>> IN
  /\ TaskMayStart(o, s) /\ e.cp.steps[s].status # "completed" /\ NextChild(s) <= MaxChildren
  /\ child' = [child EXCEPT ![c] = [status |-> "running", worker |-> o, able |-> TRUE]]
  /\ exec' = [exec EXCEPT ![o] = [With(e, s, "created") EXCEPT !.tasks[s].child = c]]
  /\ UNCHANGED <<stored, failures>> /\ Untouched

(* prepareExecution of the child, with what is left of the limits. *)
CreateChild(o, s) ==
  LET e == exec[o]
      c == <<s, NextChild(s)>> IN
  /\ TaskMayStart(o, s) /\ e.cp.steps[s].status = "none" /\ NextChild(s) <= MaxChildren
  /\ \/ /\ child' = [child EXCEPT ![c] = [status |-> "running", worker |-> o,
                                          able |-> e.cp.budget < StepLimit]]
        /\ exec' = [exec EXCEPT ![o] = [With(e, s, "created") EXCEPT !.tasks[s].child = c]]
        /\ UNCHANGED failures
     \/ /\ failures < MaxFailures /\ failures' = failures + 1
        /\ exec' = [exec EXCEPT ![o] = With(e, s, "failed")]
        /\ UNCHANGED child
  /\ UNCHANGED stored /\ Untouched

(* The commit of the running record; the child does not move before it. *)
RecordStep(o, s) ==
  LET e == exec[o] IN
  /\ e.phase = "working" /\ e.tasks[s].st = "created"
  /\ QueuedCommit(o, Put(e.cp, s, RunningRecord(e.tasks[s].child)),
                  With(e, s, "running"), With(e, s, "failed"))
  /\ UNCHANGED child /\ Untouched

(* Mutant: a child that stopped is taken for one that completed. *)
StateAfterAny(st, status) == IF status = "failed" THEN "failed" ELSE "settled"

StateAfter(st, status) ==
  CASE status = "completed" -> "settled"
    [] status = "paused" -> "paused"
    [] OTHER -> IF st = "running" THEN "reporting" ELSE "failed"

ChildEnds(o, s, status) ==
  LET e == exec[o]
      t == e.tasks[s] IN
  /\ e.phase = "working" /\ t.st \in {"running", "recovered"}
  /\ ChildMayEnd(t.child, o, status)
  /\ child' = ChildEnded(t.child, status) /\ NoteFinished(t.child, status)
  /\ exec' = [exec EXCEPT ![o] = With(e, s, StateAfter(t.st, status))]
  /\ UNCHANGED <<stored, failures, crashes, undone>>

ChildConflicts(o, s) ==
  LET e == exec[o]
      t == e.tasks[s] IN
  /\ e.phase = "working" /\ t.st \in {"running", "recovered"}
  /\ ChildLosesLease(t.child, o)
  /\ exec' = [exec EXCEPT ![o] = With(e, s, "conflict")]
  /\ UNCHANGED stored /\ Untouched

(* relayChildEvent is rejected: the child is left where it is. *)
RelayFails(o, s) ==
  LET e == exec[o] IN
  /\ e.phase = "working" /\ e.tasks[s].st = "running"
  /\ e.poisoned \/ ~StoreAccepts(o) \/ failures < MaxFailures
  /\ failures' = IF e.poisoned \/ ~StoreAccepts(o) THEN failures ELSE failures + 1
  /\ LET bad == [With(e, s, "failed") EXCEPT !.poisoned = TRUE] IN
     exec' = [exec EXCEPT ![o] =
               IF e.poisoned THEN bad ELSE IF StoreAccepts(o) THEN bad ELSE Refused(bad)]
  /\ UNCHANGED <<stored, child>> /\ Untouched

(* The workflow.step.failed event. *)
ReportFailure(o, s) ==
  LET e == exec[o] IN
  /\ e.phase = "working" /\ e.tasks[s].st = "reporting"
  /\ QueuedCommit(o, e.cp, With(e, s, "failed"), With(e, s, "failed"))
  /\ UNCHANGED child /\ Untouched

(* completeAgentStep, and the same commit after a child that ran here; the *)
(* budget is asserted after the commit.                                    *)
CompleteStep(o, s) ==
  LET e == exec[o]
      cp == [Put(e.cp, s, CompletedRecord(s, e.tasks[s].child)) EXCEPT !.budget = @ + 1]
      done == IF cp.budget > StepLimit THEN "failed" ELSE "done" IN
  /\ e.phase = "working" /\ e.tasks[s].st = "settled"
  /\ QueuedCommit(o, cp, Handled(With(e, s, done), s), With(e, s, "failed"))
  /\ UNCHANGED child /\ Untouched

In(e, i, sts) == {s \in Tasks(i) : e.tasks[s].st \in sts}
Joined(o) == Working(o) /\ In(exec[o], exec[o].pc, {"done", "paused", "failed", "conflict"}) = Tasks(exec[o].pc)

(* The commit of a pause, and the release after it.  When the commit       *)
(* throws, the status in memory is "paused" already, and executeWorkflow   *)
(* rethrows without a release.                                             *)
PauseRun(o, cp, pause) ==
  LET e == exec[o] IN
  IF e.poisoned
  THEN /\ exec' = [exec EXCEPT ![o] = Failing(e, "error")]
       /\ UNCHANGED <<stored, failures>>
  ELSE LET img == [stored EXCEPT !.status = "paused", !.pause = pause, !.cp = cp] IN
       \/ /\ ~e.lost /\ StoreAccepts(o)
          /\ stored' = [img EXCEPT !.holder = NoOwner]
          /\ exec' = Installed(o, Over(e))
          /\ UNCHANGED failures
       \/ /\ e.lost \/ ~StoreAccepts(o)
          /\ exec' = [exec EXCEPT ![o] = Refused(Failing(e, "conflict"))]
          /\ UNCHANGED <<stored, failures>>
       \/ /\ ~e.lost /\ failures < MaxFailures
          /\ failures' = failures + 1
          /\ \/ /\ exec' = [exec EXCEPT ![o].phase = "stuck", ![o].status = "paused"]
                /\ UNCHANGED stored
             \/ /\ StoreAccepts(o)
                /\ stored' = img
                /\ exec' = Installed(o, [e EXCEPT !.phase = "stuck", !.status = "paused", !.fresh = FALSE])

PausedTasks(e) == {e.tasks[s].child : s \in In(e, e.pc, {"paused"})}

(* An agent step outside of parallel is over. *)
JoinAgent(o) ==
  LET e == exec[o] IN
  /\ Joined(o) /\ Item(o).kind = "agent"
  /\ \/ /\ In(e, e.pc, {"done"}) = Tasks(e.pc)
        /\ exec' = [exec EXCEPT ![o] = NextItem(e)]
        /\ UNCHANGED <<stored, failures>>
     \/ /\ PausedTasks(e) # {}
        /\ PauseRun(o, e.cp, PausedTasks(e))
     \/ /\ \E kind \in {"failed", "conflict"} : In(e, e.pc, {kind}) # {}
        /\ exec' = [exec EXCEPT ![o] =
                      Failing(e, IF In(e, e.pc, {"conflict"}) # {} THEN "conflict" ELSE "error")]
        /\ UNCHANGED <<stored, failures>>
  /\ UNCHANGED child /\ Untouched

(* All tasks of a parallel step settled.  Errors go before pauses and      *)
(* cancel the paused siblings; several errors become an AggregateError,    *)
(* which is no conflict any more.                                          *)
JoinParallel(o) ==
  LET e == exec[o]
      id == Item(o).id
      errors == In(e, e.pc, {"failed", "conflict"})
      kind == IF errors = In(e, e.pc, {"conflict"}) /\ Cardinality(errors) = 1
              THEN "conflict" ELSE "error" IN
  /\ Joined(o) /\ Item(o).kind = "parallel" /\ e.open
  /\ \/ /\ errors # {}
        /\ child' = CancelAll(PausedTasks(e))
        /\ QueuedCommit(o, e.cp, Failing(e, kind), Failing(e, kind))
     \/ /\ errors = {} /\ PausedTasks(e) # {}
        /\ PauseRun(o, e.cp, PausedTasks(e))
        /\ UNCHANGED child
     \/ /\ errors = {} /\ PausedTasks(e) = {}
        /\ QueuedCommit(o, Put(e.cp, id, CompletedRecord(id, NoChild)),
                        NextItem(Handled(e, id)), Failing(e, "error"))
        /\ UNCHANGED child
  /\ Untouched

(* waitUntil and waitForEvent. *)
Wait(o) ==
  LET e == exec[o]
      id == Item(o).id IN
  /\ Working(o) /\ Item(o).kind \in {"timer", "event"}
  /\ \/ /\ e.cp.steps[id].status = "completed"
        /\ exec' = [exec EXCEPT ![o] = NextItem(e)]
        /\ UNCHANGED <<stored, failures>>
     \/ /\ e.cp.steps[id].status # "completed" /\ Item(o).kind = "timer"
        /\ QueuedCommit(o, Put(e.cp, id, CompletedRecord(id, NoChild)), NextItem(e),
                        Failing(e, "error"))
     \/ /\ e.cp.steps[id].status # "completed"
        /\ PauseRun(o, Put(e.cp, id, RunningRecord(NoChild)), {WaitFor(id)})
  /\ UNCHANGED child /\ Untouched

(* The completion.  Released also when the commit throws, unless the       *)
(* attempt was aborted: then cancelWorkflowExecution finds a terminal      *)
(* status in memory and does nothing.                                      *)
Finish(o) ==
  LET img == Ended("completed") IN
  /\ exec[o].phase = "working" /\ exec[o].pc > Len(Program)
  /\ IF exec[o].aborted
     THEN CommitStep(o, FreedBy(o, img), Over(exec[o]), [exec[o] EXCEPT !.phase = "stuck", !.status = "completed"])
     ELSE EndingCommit(o, img)
  /\ UNCHANGED child /\ Untouched

-----------------------------------------------------------------------------
(* The catch of executeWorkflow.                                           *)

(* The signal is aborted: the recorded children go first, then the run. *)
CancelChildren(o) ==
  LET e == exec[o]
      cs == RunningChildren(e.cp) IN
  /\ \/ /\ e.phase = "failing" /\ e.aborted /\ ~e.lost
     \/ e.phase = "cancelLeased"
  /\ IF \A c \in cs : Cancellable(o, c)
     THEN /\ child' = CancelAll(cs)
          /\ exec' = [exec EXCEPT ![o].phase = "cancelling"]
          /\ UNCHANGED stored
     ELSE Release(o) /\ UNCHANGED child
  /\ UNCHANGED failures /\ Untouched

CommitCancelled(o) ==
  /\ exec[o].phase = "cancelling"
  /\ EndingCommit(o, Ended("cancelled"))
  /\ UNCHANGED child /\ Untouched

(* Mutant: only a lost lease is given up. *)
GiveUpLost(o) ==
  /\ exec[o].phase = "failing" /\ exec[o].lost
  /\ Release(o)
  /\ UNCHANGED <<child, failures>> /\ Untouched

(* RUN_CONFLICT and a lost lease: the run is left to a recovery. *)
GiveUp(o) ==
  LET e == exec[o] IN
  /\ e.phase = "failing"
  /\ e.lost \/ (~e.aborted /\ e.error = "conflict")
  /\ Release(o)
  /\ UNCHANGED <<child, failures>> /\ Untouched

(* Mutant: nothing is undone. *)
AwaitQueueOnly(o) ==
  /\ exec[o].phase = "failing" /\ ~exec[o].aborted /\ exec[o].error = "error"
  /\ exec' = [exec EXCEPT ![o].phase = "committing"]
  /\ UNCHANGED <<stored, child, failures>> /\ Untouched

(* Any other error waits for the commit queue.  A rejected queue throws    *)
(* again, out of the catch and past the release.                           *)
AwaitQueue(o) ==
  LET e == exec[o] IN
  /\ e.phase = "failing" /\ ~e.aborted /\ e.error = "error"
  /\ exec' = [exec EXCEPT ![o].phase = IF e.poisoned THEN "stuck" ELSE "compensating"]
  /\ UNCHANGED <<stored, child, failures>> /\ Untouched

(* runCompensations: the pending steps, last key of the checkpoint first. *)
Pending(cp) == {id \in StepIds : cp.steps[id].comp = "pending"}
Position(cp, id) == CHOOSE i \in 1 .. Len(cp.order) : cp.order[i] = id
(* Mutant: first key of the checkpoint first. *)
FirstUndone(cp) == CHOOSE id \in Pending(cp) : \A x \in Pending(cp) : Position(cp, id) <= Position(cp, x)

NextUndone(cp) == CHOOSE id \in Pending(cp) : \A x \in Pending(cp) : Position(cp, x) <= Position(cp, id)

Compensate(o) ==
  LET e == exec[o]
      id == NextUndone(e.cp)
      broken == [e EXCEPT !.phase = "committing"] IN
  /\ e.phase = "compensating"
  /\ IF Pending(e.cp) = {} \/ id \notin e.handlers
     THEN /\ exec' = [exec EXCEPT ![o] = broken]
          /\ UNCHANGED <<stored, failures>>
     ELSE QueuedCommit(o, e.cp, [e EXCEPT !.phase = "undoing", !.undoing = id], broken)
  /\ UNCHANGED child /\ Untouched

(* The handler runs, or throws, or is interrupted by an abort. *)
RunHandler(o) ==
  LET e == exec[o] IN
  /\ e.phase = "undoing"
  /\ \/ /\ ~e.aborted
        /\ undone' = Append(undone, e.undoing)
        /\ exec' = [exec EXCEPT ![o].phase = "undone"]
     \/ /\ e.aborted
        /\ UNCHANGED undone
        /\ exec' = [exec EXCEPT ![o].phase = "undoFailed"]
  /\ UNCHANGED <<stored, child, failures, crashes, finished>>

RecordHandler(o) ==
  LET e == exec[o]
      cp(how) == [e.cp EXCEPT !.steps[e.undoing].comp = how]
      to(phase) == [e EXCEPT !.phase = phase] IN
  /\ \/ /\ e.phase = "undone"
        /\ QueuedCommit(o, cp("completed"), to("compensating"), to("undoFailed"))
     \/ /\ e.phase = "undoFailed"
        /\ QueuedCommit(o, cp("failed"), to("committing"), to("committing"))
  /\ UNCHANGED child /\ Untouched

(* The commit of the failure: an exception leaves the catch unreleased. *)
CommitFailed(o) ==
  /\ exec[o].phase = "committing"
  /\ CommitStep(o, FreedBy(o, Ended("failed")), Over(exec[o]),
                [exec[o] EXCEPT !.phase = "stuck", !.status = "failed"])
  /\ UNCHANGED child /\ Untouched

-----------------------------------------------------------------------------
(* The environment.                                                        *)

Advancing == {"working", "failing", "compensating", "undoing", "undone", "undoFailed", "committing"}

(* cancelRun in the process of the attempt, or its deadline. *)
Abort(o) ==
  /\ exec[o].phase \in {"working", "undoing"} /\ ~exec[o].aborted
  /\ exec' = [exec EXCEPT ![o].aborted = TRUE]
  /\ UNCHANGED <<stored, child, failures>> /\ Untouched

(* cancelRun of an attempt that nobody advances any more cancels at once;  *)
(* it only stops the renewals when the status in memory is terminal.       *)
CancelStuck(o) ==
  /\ exec[o].phase = "stuck" /\ ~exec[o].aborted
  /\ exec' = [exec EXCEPT ![o].aborted = TRUE,
                ![o].phase = IF exec[o].status \in Active THEN "failing" ELSE "stuck"]
  /\ UNCHANGED <<stored, child, failures>> /\ Untouched

(* The only look at the signal outside of a step. *)
NoticeAbort(o) ==
  LET e == exec[o] IN
  /\ e.phase = "working" /\ e.aborted /\ e.pc = 1 /\ ~e.open /\ e.tasks = NextItem(e).tasks
  /\ exec' = [exec EXCEPT ![o] = Failing(e, "error")]
  /\ UNCHANGED <<stored, child, failures>> /\ Untouched

(* A renewal is lost: the watchdog aborts the attempt. *)
LoseLease(o) ==
  /\ exec[o].phase \in Advancing /\ stored.holder = o /\ failures < MaxFailures
  /\ failures' = failures + 1
  /\ stored' = FreedBy(o, stored)
  /\ exec' = [exec EXCEPT ![o] = Refused(@)]
  /\ UNCHANGED child /\ Untouched

(* A lease that nobody renews runs out. *)
Renewed(o) ==
  \/ exec[o].phase \in Advancing
  \/ exec[o].phase = "stuck" /\ ~exec[o].lost /\ ~exec[o].aborted
Expire ==
  /\ stored.holder # NoOwner /\ ~Renewed(stored.holder)
  /\ stored' = [stored EXCEPT !.holder = NoOwner]
  /\ UNCHANGED <<child, exec, failures>> /\ Untouched

ExpireChild(c) ==
  LET o == child[c].worker IN
  /\ o # NoOwner
  /\ exec[o].phase = "dead" \/ exec[o].aborted
  /\ child' = [child EXCEPT ![c].worker = NoOwner]
  /\ UNCHANGED <<stored, exec, failures>> /\ Untouched

Crash(o) ==
  /\ exec[o].phase \notin {"idle", "dead"} /\ crashes < MaxCrashes
  /\ crashes' = crashes + 1
  /\ exec' = [exec EXCEPT ![o] = [Idle EXCEPT !.phase = "dead"]]
  /\ UNCHANGED <<stored, child, failures, finished, undone>>

Attempt(o) ==
  \/ Start(o) \/ Read(o, "read") \/ Read(o, "cancelRead")
  \/ Acquire(o, "read", "leased") \/ Acquire(o, "cancelRead", "cancelLeased")
  \/ Recover(o) \/ \E w \in StepIds : ResumeWait(o, w)
  \/ \E c \in Children : ResumeChild(o, c)
  \/ \E status \in Terminal \cup Active : ResumedChildEnds(o, status) \/ CommitExpired(o, status)
  \/ ResumedChildConflicts(o) \/ ResumedChildExpires(o) \/ CommitResumed(o) \/ OpenParallel(o)
  \/ \E s \in Agents :
       \/ ReuseRecord(o, s) \/ CreateChild(o, s) \/ RecordStep(o, s) \/ ChildConflicts(o, s)
       \/ \E status \in Terminal \cup Active : ChildEnds(o, s, status)
       \/ RelayFails(o, s) \/ ReportFailure(o, s) \/ CompleteStep(o, s)
  \/ JoinAgent(o) \/ JoinParallel(o) \/ Wait(o) \/ Finish(o)
  \/ CancelChildren(o) \/ CommitCancelled(o) \/ GiveUp(o) \/ AwaitQueue(o)
  \/ Compensate(o) \/ RunHandler(o) \/ RecordHandler(o) \/ CommitFailed(o)

Next ==
  \/ \E o \in Owners : Attempt(o) \/ Abort(o) \/ CancelStuck(o) \/ NoticeAbort(o) \/ LoseLease(o) \/ Crash(o)
  \/ Expire
  \/ \E c \in Children : ExpireChild(c)

Spec == Init /\ [][Next]_vars

(* Store calls settle, children end, leases nobody renews run out.  No     *)
(* attempt is assumed to begin: that is up to the deployment.              *)
Proceed(o) == exec[o].phase # "idle" /\ Attempt(o)
FairSpec ==
  /\ Spec /\ WF_vars(Expire)
  /\ \A o \in Owners : WF_vars(Proceed(o))
  /\ \A c \in Children : WF_vars(ExpireChild(c))

-----------------------------------------------------------------------------
(* Properties.                                                             *)

Phases == Advancing \cup {"idle", "read", "cancelRead", "leased", "cancelLeased", "child", "answered", "expired",
                           "cancelling", "stuck", "over", "dead"}
TaskStates == {"new", "created", "running", "recovered", "settled", "reporting", "paused", "failed", "conflict", "done"}
Records == [status : {"none", "running", "completed"}, child : Children \cup {NoChild},
            comp : {"none", "pending", "completed", "failed"}]
Checkpoints == [steps : [StepIds -> Records], order : Seq(StepIds), budget : Nat]
Checkpoint(cp) ==
  /\ cp \in Checkpoints
  /\ IsInjective(cp.order) /\ ToSet(cp.order) = {id \in StepIds : cp.steps[id].status # "none"}
Statuses == Terminal \cup Active \cup {"none"}
Attempts ==
  [phase : Phases, status : Statuses, cp : Checkpoints, pause : SUBSET (StepIds \X (0 .. MaxChildren)),
   fresh : BOOLEAN, lost : BOOLEAN, aborted : BOOLEAN, poisoned : BOOLEAN, recovering : BOOLEAN,
   pc : 1 .. Len(Program) + 1, open : BOOLEAN, cursor : Children \cup {NoChild},
   error : {"none", "error", "conflict"},
   tasks : [Agents -> [st : TaskStates, child : Children \cup {NoChild}]],
   handlers : SUBSET StepIds, undoing : StepIds \cup {"none"}]

(* Types, and that the keys of a checkpoint are the steps it has records of. *)
TypeOK ==
  /\ stored \in [status : Statuses, cp : Checkpoints, pause : SUBSET (StepIds \X (0 .. MaxChildren)),
                 holder : Owners \cup {NoOwner}]
  /\ child \in [Children -> [status : Statuses, worker : Owners \cup {NoOwner}, able : BOOLEAN]]
  /\ exec \in [Owners -> Attempts]
  /\ Checkpoint(stored.cp) /\ \A o \in Owners : Checkpoint(exec[o].cp)
  /\ {failures, crashes} \subseteq Nat

(* "recovers a running workflow child without replacing or repeating its   *)
(* step" (workflows.test.ts:784): a step's work is done by one child only, *)
(* whatever crashes between the creation of a child, its record and its    *)
(* result.                                                                 *)
WorkIsDoneOnce ==
  \A s \in Agents : Cardinality({n \in 1 .. MaxChildren : child[<<s, n>>].status = "completed"}) <= 1

(* A completed workflow has the result of every step, and leaves none of   *)
(* the children it recorded at work.                                       *)
CompletionIsWhole ==
  stored.status = "completed" =>
    \A s \in Agents : /\ stored.cp.steps[s].status = "completed"
                     /\ child[stored.cp.steps[s].child].status = "completed"

(* "Cancelling a workflow first cancels its running or paused children"    *)
(* (README.md:181), as far as the checkpoint knows of them.                *)
CancellationReachesRecordedChildren ==
  stored.status = "cancelled" =>
    \A c \in RunningChildren(stored.cp) : child[c].status \notin Active

(* The same of every child, recorded or not. *)
CancellationReachesChildren ==
  stored.status = "cancelled" => \A c \in Children : child[c].status \notin Active

(* A failed workflow has undone every completed step that has a handler,   *)
(* or a handler or commit of the compensation failed.                      *)
FailureIsCompensated ==
  (stored.status = "failed" /\ failures = 0) =>
    \/ Pending(stored.cp) = {}
    \/ \E id \in StepIds : stored.cp.steps[id].comp = "failed"

(* A replay registers the handlers again before they are needed. *)
HandlersAreBack ==
  \A o \in Owners : exec[o].phase = "compensating" => Pending(exec[o].cp) \subseteq exec[o].handlers

IndexIn(seq, x) == CHOOSE i \in 1 .. Len(seq) : seq[i] = x
(* "Compensation runs in reverse completed-step order" (README.md:182). *)
CompensationReversesCompletion ==
  \A i, j \in 1 .. Len(undone) :
    (i < j /\ undone[i] # undone[j] /\ {undone[i], undone[j]} \subseteq ToSet(finished)) =>
      IndexIn(finished, undone[j]) < IndexIn(finished, undone[i])

(* Compensation never undoes a step before one that was recorded later, if *)
(* nothing interrupts it.                                                  *)
CompensationReversesTheRecord ==
  \A i, j \in 1 .. Len(undone) :
    (i < j /\ undone[i] # undone[j]) =>
      Position(stored.cp, undone[j]) < Position(stored.cp, undone[i])

(* "Effective workflow limits ... are checkpointed so recovery cannot      *)
(* silently widen a budget" (README.md:162-164).                           *)
BudgetIsKept == stored.status = "completed" => stored.cp.budget <= StepLimit

(* "An external worker may recover an orphaned running run after its lease *)
(* expires" (README.md:187): an attempt that stopped without a result does *)
(* not go on renewing the lease.                                           *)
StoppedAttemptsFreeTheRun ==
  \A o \in Owners : (exec[o].phase = "stuck" /\ Renewed(o)) => stored.holder # o

(* "Paused runs use resumeRun" (README.md:194): one of the children a      *)
(* paused workflow waits for takes a resolution, works on one, or was      *)
(* cancelled (a cancellation can be repeated).                             *)
PausedRunsCanBeResumed ==
  (stored.status = "paused" /\ stored.holder = NoOwner) =>
    \/ stored.pause \cap Children = {}
    \/ \E c \in stored.pause \cap Children : child[c].status \in Active \cup {"cancelled"}

(* "compensates completed workflow steps ... when a workflow fails"        *)
(* (workflows.test.ts:366): a workflow that completes has undone nothing.  *)
SuccessIsNotUndone ==
  stored.status = "completed" => \A id \in StepIds : stored.cp.steps[id].comp # "completed"

(* A step that the store has as completed stays so, with the same child,   *)
(* whoever commits next: no stale attempt brings an old checkpoint back.   *)
ResultsArePermanent ==
  [][\A id \in StepIds : stored.cp.steps[id].status = "completed" =>
       /\ stored'.cp.steps[id].status = "completed"
       /\ stored'.cp.steps[id].child = stored.cp.steps[id].child]_vars

(* An ended run stays as it ended: a stale attempt, a late answer of a     *)
(* child or a second cancellation does not change it.                      *)
TerminalStays == [][stored.status \in Terminal => stored'.status = stored.status]_vars

(* Nobody works on a workflow for ever: every lease is handed back or runs *)
(* out, so that the next recovery or resolution can have it.               *)
LeasesEnd == \A o \in Owners : (stored.holder = o) ~> (stored.holder # o)

(* The abstract workflow: what the store knows of steps and compensation. *)
Earlier(id) ==
  LET i == CHOOSE j \in Items : id \in StepsOf(j) IN
  (UNION {StepsOf(j) : j \in 1 .. i - 1})
    \cup (IF id = Program[i].id /\ id \notin Tasks(i) THEN Tasks(i) ELSE {})
Ledger == INSTANCE StepLedger WITH
  Steps <- StepIds,
  Before <- [id \in StepIds |-> Earlier(id)],
  status <- stored.status,
  done <- {id \in StepIds : stored.cp.steps[id].status = "completed"},
  undone <- {id \in StepIds : stored.cp.steps[id].comp = "completed"}
KeepsTheLedger == Ledger!Spec
=============================================================================
