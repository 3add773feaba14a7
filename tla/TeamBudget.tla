----------------------------- MODULE TeamBudget -----------------------------
(***************************************************************************)
(* The limits of a team or workflow run (packages/fevex/src/teams/team.ts, *)
(* internal/workflow-budget.ts): which delegations may begin, with how     *)
(* many steps each, and what the shared budget holds when they come back.  *)
(*                                                                         *)
(* The program of a team is a sequence of groups of delegations; the       *)
(* delegations of a group run in parallel.  The counter of delegations is  *)
(* in the memory of an attempt and is counted again by every replay; the   *)
(* limits, the budget and the records are in the checkpoint.  One limit,   *)
(* maxSteps, stands for the four that are shared.                          *)
(***************************************************************************)
EXTENDS Integers, Sequences, FiniteSets, FiniteSetsExt

CONSTANTS Members,         \* the supervisor and the members of the team
          Programs,        \* sequences of groups of [id, agent]
          Unset, Off,      \* a limit left out, and one switched off
          TeamLimits,      \* values of team.limits.maxSteps
          RequestLimits,   \* values of request.limits.maxSteps
          MaxDelegations, MaxParallel,
          MaxStepsOfChild, \* bound on the steps of a child without a limit
          MaxCrashes

Limits == Nat \cup {Unset, Off}

TeamBudgetAssumption ==
  /\ Unset # Off /\ {Unset, Off} \cap Nat = {}
  /\ TeamLimits \cup RequestLimits \subseteq Limits
  /\ {MaxDelegations, MaxParallel, MaxStepsOfChild, MaxCrashes} \subseteq Nat

VARIABLES limits,      \* of the team, of the request, and the effective one
          budget,      \* checkpoint.budget.steps
          record,      \* checkpoint.steps
          status,
          program,
          pc,          \* the group the attempt is at
          task,        \* the delegations of that group in this attempt
          delegations, \* counted by this attempt
          crashes

vars == <<limits, budget, record, status, program, pc, task, delegations, crashes>>
durable == <<limits, budget, record>>

(* Mutant: the limit of the request replaces the one of the team. *)
MinLimitOfRequest(a, b) == IF b = Unset THEN a ELSE b

(* minLimit: the smaller one; a missing or switched-off limit yields. *)
MinLimit(a, b) ==
  CASE a = Unset -> b
    [] b = Unset -> a
    [] a = Off   -> b
    [] b = Off   -> a
    [] OTHER     -> IF a < b THEN a ELSE b

(* Mutant: what is left may be negative. *)
RemainingRaw(limit, used) == IF limit \in {Unset, Off} THEN limit ELSE limit - used

(* Mutant: a child gets the whole limit. *)
RemainingAll(limit, used) == limit

(* remainingWorkflowLimits: what a child may still use. *)
Remaining(limit, used) ==
  IF limit \in {Unset, Off} THEN limit ELSE IF used < limit THEN limit - used ELSE 0

Within(n, limit) == limit \in {Unset, Off} \/ n <= limit

NoRecord == [status |-> "none", granted |-> Unset, steps |-> 0]
Ids == UNION {{g[i].id : i \in DOMAIN g} : g \in UNION {{p[i] : i \in DOMAIN p} : p \in Programs}}

Group == program[pc]
Opened == DOMAIN task
NoTasks == [i \in {} |-> "new"]

Init ==
  /\ \E t \in TeamLimits, r \in RequestLimits :
       limits = [team |-> t, request |-> r, both |-> MinLimit(t, r)]
  /\ program \in Programs
  /\ budget = 0 /\ record = [d \in Ids |-> NoRecord]
  /\ status = "running" /\ pc = 1 /\ task = NoTasks
  /\ delegations = 0 /\ crashes = 0

Working == status = "running" /\ pc <= Len(program)

(* team.parallel: the width is looked at before any task starts. *)
OpenGroup ==
  /\ Working /\ Opened = {}
  /\ IF Len(Group) > 1 /\ Len(Group) > MaxParallel
     THEN status' = "failed" /\ UNCHANGED task
     ELSE task' = [i \in DOMAIN Group |-> "new"] /\ UNCHANGED status
  /\ UNCHANGED <<durable, program, pc, delegations, crashes>>

(* Mutant: a delegation that was refused a child is not counted. *)
DelegateUncounted(i) ==
  LET d == Group[i] IN
  /\ Working /\ i \in Opened /\ task[i] = "new" /\ d.agent \in Members
  /\ IF record[d.id].status = "none"
     THEN record' = [record EXCEPT ![d.id] =
            [status |-> "running", granted |-> Remaining(limits.both, budget), steps |-> 0]]
     ELSE UNCHANGED record
  /\ task' = [task EXCEPT ![i] = IF record[d.id].status = "completed" THEN "done" ELSE "running"]
  /\ UNCHANGED <<limits, budget, status, program, pc, delegations, crashes>>

(* runAgent up to step.agent: membership, then the count, then the record  *)
(* of the delegation or a new child with what is left.                     *)
Delegate(i) ==
  LET d == Group[i]
      Becomes(st) == task' = [task EXCEPT ![i] = st] IN
  /\ Working /\ i \in Opened /\ task[i] = "new"
  /\ IF d.agent \notin Members
     THEN Becomes("failed") /\ UNCHANGED <<record, delegations>>
     ELSE /\ delegations' = delegations + 1
          /\ IF delegations + 1 > MaxDelegations
             THEN Becomes("failed") /\ UNCHANGED record
             ELSE CASE record[d.id].status = "completed" ->
                         Becomes("done") /\ UNCHANGED record
                    [] record[d.id].status = "running" ->
                         Becomes("running") /\ UNCHANGED record
                    [] OTHER ->
                         /\ record' = [record EXCEPT ![d.id] =
                              [status |-> "running", granted |-> Remaining(limits.both, budget), steps |-> 0]]
                         /\ Becomes("running")
  /\ UNCHANGED <<limits, budget, status, program, pc, crashes>>

Running(i) == status = "running" /\ i \in Opened /\ task[i] = "running"

(* The child takes a step, or fails at the limit it was given. *)
ChildSteps(i) ==
  LET d == Group[i]
      r == record[d.id] IN
  /\ Running(i)
  /\ IF Within(r.steps + 1, r.granted)
     THEN /\ r.steps < MaxStepsOfChild
          /\ record' = [record EXCEPT ![d.id].steps = @ + 1]
          /\ UNCHANGED task
     ELSE /\ task' = [task EXCEPT ![i] = "failed"]
          /\ UNCHANGED record
  /\ UNCHANGED <<limits, budget, status, program, pc, delegations, crashes>>

(* Mutant: the budget is not checked when a child comes back. *)
ChildCompletesUnchecked(i) ==
  LET d == Group[i] IN
  /\ Running(i) /\ record[d.id].steps > 0
  /\ budget' = budget + record[d.id].steps
  /\ record' = [record EXCEPT ![d.id].status = "completed"]
  /\ task' = [task EXCEPT ![i] = "done"]
  /\ UNCHANGED <<limits, status, program, pc, delegations, crashes>>

(* addChildBudget with the completed record, then assertWorkflowBudget. *)
ChildCompletes(i) ==
  LET d == Group[i]
      r == record[d.id] IN
  /\ Running(i) /\ r.steps > 0
  /\ budget' = budget + r.steps
  /\ record' = [record EXCEPT ![d.id].status = "completed"]
  /\ task' = [task EXCEPT ![i] = IF Within(budget', limits.both) THEN "done" ELSE "failed"]
  /\ UNCHANGED <<limits, status, program, pc, delegations, crashes>>

JoinGroup ==
  /\ Working /\ Opened # {} /\ \A i \in Opened : task[i] \in {"done", "failed"}
  /\ IF \E i \in Opened : task[i] = "failed"
     THEN status' = "failed" /\ UNCHANGED <<pc, task>>
     ELSE pc' = pc + 1 /\ task' = NoTasks /\ UNCHANGED status
  /\ UNCHANGED <<durable, program, delegations, crashes>>

Finish ==
  /\ status = "running" /\ pc > Len(program)
  /\ status' = "completed"
  /\ UNCHANGED <<durable, program, pc, task, delegations, crashes>>

(* A crash and the recovery that replays the program from its start. *)
CrashAndRecover ==
  /\ status = "running" /\ crashes < MaxCrashes
  /\ crashes' = crashes + 1
  /\ pc' = 1 /\ task' = NoTasks /\ delegations' = 0
  /\ UNCHANGED <<durable, status, program>>

Next ==
  \/ OpenGroup \/ JoinGroup \/ Finish \/ CrashAndRecover
  \/ \E i \in Opened : Delegate(i) \/ ChildSteps(i) \/ ChildCompletes(i)

Spec == Init /\ [][Next]_vars

-----------------------------------------------------------------------------
Begun == {d \in Ids : record[d].status # "none"}

TypeOK ==
  /\ limits.both \in Limits /\ budget \in Nat
  /\ \A d \in Ids : record[d].status \in {"none", "running", "completed"} /\ record[d].granted \in Limits
  /\ status \in {"running", "completed", "failed"}
  /\ \A i \in Opened : task[i] \in {"new", "running", "done", "failed"}

(* maxDelegations bounds the delegations a team ever begins, although each *)
(* attempt counts from zero: a replay counts the recorded ones again.      *)
DelegationsAreBounded == Cardinality(Begun) <= MaxDelegations

(* "Effective workflow limits combine definition and request limits"       *)
(* (README.md:162): a child never takes more steps than either allows, nor *)
(* more than was left when it began.                                       *)
ChildrenKeepBothLimits ==
  \A d \in Begun : Within(record[d].steps, limits.team) /\ Within(record[d].steps, limits.request)

(* Children that run in parallel each get all that is left, so the budget  *)
(* may be exceeded, but only by them: nothing begins after it ran out, and *)
(* the total stays under the limit times the width of the team.            *)
OverspendIsBounded ==
  limits.both \in Nat => budget <= limits.both * Max({1, MaxParallel})

(* Without a crash a team that completes has kept its budget. *)
CompletedInBudget ==
  (status = "completed" /\ crashes = 0) => Within(budget, limits.both)
=============================================================================
