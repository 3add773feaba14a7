------------------------------ MODULE ToolCalls ------------------------------
(***************************************************************************)
(* The tool calls of one model answer, executed by whichever worker holds  *)
(* the lease of the run: approvals, execution records written around the   *)
(* effect, retries of keyed tools, and the resolutions a human gives when  *)
(* nobody can know whether a non-keyed tool ran.                           *)
(*                                                                         *)
(* The lease is seen through what it decides: holder is the worker whose   *)
(* commits the store accepts.  A worker that crashed, or that the lease    *)
(* left behind, keeps nothing but the effects it started.  Module          *)
(* DurableRuns has the lease itself and the stale reads around it.         *)
(***************************************************************************)
EXTENDS Integers, Sequences, FiniteSets

CONSTANTS
  Workers,         \* runtimes that share the store
  Nobody,          \* the holder of a lease that expired or was released
  Batch,           \* the calls of the model's answer, in order
  Keyed,           \* calls of tools with idempotency 'keyed'
  Gated,           \* calls of tools with approval 'required'
  Policed,         \* calls a policy answers 'require_approval' for
  MaxAttempts,     \* call -> retry.maxAttempts of its tool, 1 by default
  MaxDisruptions   \* bound on crashes, lost leases and failing store calls

Calls == {Batch[i] : i \in DOMAIN Batch}

ASSUME ToolAssumption ==
  /\ Batch \in Seq(Calls) /\ Batch # <<>>
  /\ \A i, j \in DOMAIN Batch : Batch[i] = Batch[j] => i = j
  /\ Keyed \subseteq Calls /\ Gated \subseteq Calls /\ Policed \subseteq Calls
  /\ MaxAttempts \in [Calls -> Nat \ {0}]
  /\ MaxDisruptions \in Nat /\ Nobody \notin Workers

VARIABLES
  stored,       \* the run, its checkpoint and its tool records
  holder,       \* the worker whose token the store accepts
  worker,       \* what each worker holds in memory
  begun,        \* calls whose effect began at least once
  approved,     \* calls a human approved
  licences,     \* how often a non-keyed call may still begin: once, and once more
                \* for each decision of a human to retry it
  retried,      \* calls a human decided to retry
  disruptions   \* crashes, lost leases and failing store calls so far

outside == <<begun, approved, licences, retried>>
vars == <<stored, holder, worker, outside, disruptions>>

Terminal == {"completed", "failed", "cancelled"}

ToolRecord == [status : {"none", "started", "completed", "failed"}, attempt : Nat]

StoredRun == [status : {"running", "paused"} \cup Terminal,
              pause : {"none", "approval", "unknown"},
              position : 1 .. Len(Batch),
              record : [Calls -> ToolRecord]]

Phases == {"idle", "reading", "gate", "checked", "attempting", "invoking",
           "executing", "effectFailed", "failing", "supplied"}

\* cleared: approvedToolCallId is the pending call; forced: so is
\* forcedRetryToolCallId; behind: a commit was applied without an answer.
Worker == [phase : Phases, index : 1 .. Len(Batch) + 1, cleared : BOOLEAN,
           forced : BOOLEAN, record : ToolRecord, attempt : Nat, limit : Nat,
           behind : BOOLEAN]

NoRecord == [status |-> "none", attempt |-> 0]

Idle == [phase |-> "idle", index |-> 1, cleared |-> FALSE, forced |-> FALSE,
         record |-> NoRecord, attempt |-> 0, limit |-> 0, behind |-> FALSE]

\* The worker that created the run has just committed the model's answer.
Init ==
  /\ stored = [status |-> "running", pause |-> "none", position |-> 1,
               record |-> [c \in Calls |-> NoRecord]]
  /\ \E w \in Workers :
       /\ holder = w
       /\ worker = [v \in Workers |->
                      IF v = w THEN [Idle EXCEPT !.phase = "reading"] ELSE Idle]
  /\ begun = {} /\ approved = {} /\ licences = [c \in Calls \ Keyed |-> 1] /\ retried = {}
  /\ disruptions = 0

In(w, phase) == worker[w].phase = phase
Become(w, e) == worker' = [worker EXCEPT ![w] = e]
Pending(w)   == Batch[worker[w].index]
Working(w)   == worker[w].phase \notin {"idle", "supplied"}

Disrupted == disruptions < MaxDisruptions /\ disruptions' = disruptions + 1

-----------------------------------------------------------------------------
(* Commits: the store answers true, answers false because the lease or the *)
(* revision moved on, or the call throws, applied or not.                  *)

\* Mutant: the store does not compare the revision.
AcceptedUnversioned(w) == holder = w

Accepted(w) == holder = w /\ ~ worker[w].behind

Unanswered(e) == IF e.phase = "idle" THEN e ELSE [e EXCEPT !.behind = TRUE]

Commit(w, s, answered, thrown) ==
  /\ \/ /\ Accepted(w)
        /\ stored' = s
        /\ \/ Become(w, answered) /\ UNCHANGED disruptions
           \/ Become(w, Unanswered(thrown)) /\ Disrupted
     \/ /\ ~ Accepted(w)
        /\ Become(w, Idle)
        /\ UNCHANGED <<stored, disruptions>>
     \/ /\ Become(w, thrown) /\ Disrupted
        /\ UNCHANGED stored
  /\ UNCHANGED holder

Recorded(w, status, attempt) ==
  [stored EXCEPT !.record[Pending(w)] = [status |-> status, attempt |-> attempt]]

Paused(w, reason) ==
  [stored EXCEPT !.status = "paused", !.pause = reason,
                 !.position = worker[w].index]

Failing(w) == [worker[w] EXCEPT !.phase = "failing"]

NextCall(w) == [Idle EXCEPT !.phase = "reading", !.index = worker[w].index + 1,
                            !.behind = worker[w].behind]

-----------------------------------------------------------------------------
(* One iteration of the batch loop, up to the effect.                      *)

ReadRecord(w) ==
  /\ In(w, "reading") /\ worker[w].index <= Len(Batch)
  /\ Become(w, [worker[w] EXCEPT !.phase = "gate",
                                 !.record = stored.record[Pending(w)]])
  /\ UNCHANGED <<stored, holder, outside, disruptions>>

\* Mutant: the tool's own approval setting is forgotten.
NeedsApprovalOfPolicy(w) ==
  /\ Pending(w) \in Policed
  /\ ~ worker[w].cleared
  /\ worker[w].record.status \notin {"started", "completed"}

NeedsApproval(w) ==
  /\ Pending(w) \in Gated \cup Policed
  /\ ~ worker[w].cleared
  /\ worker[w].record.status \notin {"started", "completed"}

AskApproval(w) ==
  /\ In(w, "gate") /\ NeedsApproval(w)
  /\ Commit(w, Paused(w, "approval"), Idle, Idle)
  /\ UNCHANGED outside

SavePosition(w) ==
  /\ In(w, "gate") /\ ~ NeedsApproval(w)
  /\ Commit(w, [stored EXCEPT !.position = worker[w].index],
            [worker[w] EXCEPT !.phase = "checked", !.cleared = FALSE], Failing(w))
  /\ UNCHANGED outside

\* Mutant: any record stands for a result.
ReuseAny(w) ==
  /\ In(w, "checked") /\ worker[w].record.status \in {"completed", "failed"}
  /\ Become(w, NextCall(w))
  /\ UNCHANGED <<stored, holder, outside, disruptions>>

Reuse(w) ==
  /\ In(w, "checked") /\ worker[w].record.status = "completed"
  /\ Become(w, NextCall(w))
  /\ UNCHANGED <<stored, holder, outside, disruptions>>

\* Mutant: a call nobody started is doubted.
UnknownUnstarted(w) ==
  worker[w].record.status # "completed" /\ Pending(w) \notin Keyed /\ ~ worker[w].forced

Unknown(w) ==
  worker[w].record.status = "started" /\ Pending(w) \notin Keyed /\ ~ worker[w].forced

AskResolution(w) ==
  /\ In(w, "checked") /\ Unknown(w)
  /\ Commit(w, Paused(w, "unknown"), Idle, Idle)
  /\ UNCHANGED outside

Highest(a, b) == IF a > b THEN a ELSE b

\* Mutants: every keyed attempt is made again under its number; each execution
\* of the loop has all the attempts of the tool.
PrepareAttemptsBehind(w) ==
  LET e == worker[w]
      c == Pending(w)
      last == e.record.attempt
  IN
  /\ In(w, "checked") /\ e.record.status # "completed" /\ ~ Unknown(w)
  /\ Become(w, [e EXCEPT !.phase = "attempting", !.forced = FALSE,
       !.limit = IF e.forced THEN Highest(MaxAttempts[c], last + 1) ELSE MaxAttempts[c],
       !.attempt = IF c \in Keyed THEN last - 1 ELSE last])
  /\ UNCHANGED <<stored, holder, outside, disruptions>>

PrepareAttemptsAnew(w) ==
  LET e == worker[w]
      last == e.record.attempt
  IN
  /\ In(w, "checked") /\ e.record.status # "completed" /\ ~ Unknown(w)
  /\ Become(w, [e EXCEPT !.phase = "attempting", !.forced = FALSE,
       !.limit = last + MaxAttempts[Pending(w)], !.attempt = last])
  /\ UNCHANGED <<stored, holder, outside, disruptions>>

\* A keyed attempt that was interrupted is made again under its number.
PrepareAttempts(w) ==
  LET e == worker[w]
      c == Pending(w)
      last == e.record.attempt
  IN
  /\ In(w, "checked") /\ e.record.status # "completed" /\ ~ Unknown(w)
  /\ Become(w, [e EXCEPT !.phase = "attempting", !.forced = FALSE,
       !.limit = IF e.forced THEN Highest(MaxAttempts[c], last + 1) ELSE MaxAttempts[c],
       !.attempt = IF e.record.status = "started" /\ c \in Keyed
                   THEN Highest(last, 1) - 1 ELSE last])
  /\ UNCHANGED <<stored, holder, outside, disruptions>>

Exhausted(w) ==
  /\ In(w, "attempting") /\ worker[w].attempt >= worker[w].limit
  /\ Become(w, Failing(w))
  /\ UNCHANGED <<stored, holder, outside, disruptions>>

RetryNeedsApproval(w) == worker[w].attempt > 0 /\ Pending(w) \in Policed

AskApprovalToRetry(w) ==
  /\ In(w, "attempting") /\ worker[w].attempt < worker[w].limit
  /\ RetryNeedsApproval(w)
  /\ Commit(w, Paused(w, "approval"), Idle, Idle)
  /\ UNCHANGED outside

\* Mutants: the effect begins before its record is written; the attempts are
\* not counted.
StartAttemptUnrecorded(w) ==
  LET e == worker[w] IN
  /\ In(w, "attempting") /\ e.attempt < e.limit
  /\ ~ RetryNeedsApproval(w)
  /\ Become(w, [e EXCEPT !.phase = "invoking", !.attempt = @ + 1])
  /\ UNCHANGED <<stored, holder, outside, disruptions>>

StartAttemptUncounted(w) ==
  LET e == worker[w] IN
  /\ In(w, "attempting") /\ e.attempt < e.limit
  /\ ~ RetryNeedsApproval(w)
  /\ Commit(w, Recorded(w, "started", e.attempt + 1),
            [e EXCEPT !.phase = "invoking"], Failing(w))
  /\ UNCHANGED outside

StartAttempt(w) ==
  LET e == worker[w] IN
  /\ In(w, "attempting") /\ e.attempt < e.limit
  /\ ~ RetryNeedsApproval(w)
  /\ Commit(w, Recorded(w, "started", e.attempt + 1),
            [e EXCEPT !.phase = "invoking", !.attempt = @ + 1], Failing(w))
  /\ UNCHANGED outside

-----------------------------------------------------------------------------
(* The effect, and what is written after it.                               *)

Invoke(w) ==
  /\ In(w, "invoking")
  /\ Become(w, [worker[w] EXCEPT !.phase = "executing"])
  /\ begun' = begun \cup {Pending(w)}
  /\ licences' = [c \in Calls \ Keyed |->
                    IF c = Pending(w) THEN licences[c] - 1 ELSE licences[c]]
  /\ UNCHANGED <<stored, holder, approved, retried, disruptions>>

EffectFailed(w) == [worker[w] EXCEPT !.phase = "effectFailed"]

\* The completed record is committed inside the try: if that throws, a failed
\* record is attempted next.
Succeed(w) ==
  /\ In(w, "executing")
  /\ Commit(w, Recorded(w, "completed", worker[w].attempt), NextCall(w), EffectFailed(w))
  /\ UNCHANGED outside

ToolThrows(w) ==
  /\ In(w, "executing")
  /\ Become(w, EffectFailed(w))
  /\ UNCHANGED <<stored, holder, outside, disruptions>>

\* A result that is too large is not worth another attempt.
RecordFailure(w) ==
  LET e == worker[w]
      again == e.attempt < e.limit /\ Pending(w) \in Keyed
  IN
  /\ In(w, "effectFailed")
  /\ \E next \in {Failing(w)} \cup (IF again THEN {[e EXCEPT !.phase = "attempting"]} ELSE {}) :
       Commit(w, Recorded(w, "failed", e.attempt), next, Failing(w))
  /\ UNCHANGED outside

\* The run fails when a store call, a policy, a credential or the attempts give
\* out; an abort or the deadline cancels it at any await.  An effect that is
\* under way goes on unobserved.
EndRun(w, status) ==
  /\ Working(w)
  /\ status = "failed" => worker[w].phase \in {"reading", "gate", "attempting", "failing"}
  /\ Commit(w, [stored EXCEPT !.status = status, !.pause = "none"], Idle, Idle)
  /\ UNCHANGED outside

\* The batch is done; what the model makes of the results ends the run.
Finish(w) ==
  /\ In(w, "reading") /\ worker[w].index > Len(Batch)
  /\ Commit(w, [stored EXCEPT !.status = "completed"], Idle, Idle)
  /\ UNCHANGED outside

-----------------------------------------------------------------------------
(* The lease moves, and somebody takes the run over.                       *)

Crash(w) ==
  /\ ~ In(w, "idle")
  /\ Disrupted
  /\ Become(w, Idle)
  /\ UNCHANGED <<stored, holder, outside>>

\* Released by a worker that is done, or run out under one that is not.
FreeLease(w) ==
  /\ holder = w
  /\ holder' = Nobody
  /\ IF In(w, "idle") THEN UNCHANGED disruptions ELSE Disrupted
  /\ UNCHANGED <<stored, worker, outside>>

Acquire(w) ==
  /\ In(w, "idle") /\ holder = Nobody
  /\ holder' = w

\* A takeover commits the run as running; the answer may be lost, and with it
\* the decision that only the worker's memory holds.
TakeOver(w, e) ==
  /\ Acquire(w)
  /\ stored' = [stored EXCEPT !.status = "running", !.pause = "none"]
  /\ \/ Become(w, [e EXCEPT !.phase = "reading", !.index = stored.position])
        /\ UNCHANGED disruptions
     \/ UNCHANGED worker /\ Disrupted

Recover(w) ==
  /\ stored.status = "running"
  /\ TakeOver(w, Idle)
  /\ UNCHANGED outside

Doubtful == Batch[stored.position]

Approve(w) ==
  /\ stored.status = "paused" /\ stored.pause = "approval"
  /\ TakeOver(w, [Idle EXCEPT !.cleared = TRUE])
  /\ approved' = approved \cup {Doubtful}
  /\ UNCHANGED <<begun, licences, retried>>

\* A human rejects the approval, or cancels the stored run.
CancelStored(w) ==
  /\ stored.status \in {"running", "paused"}
  /\ Acquire(w)
  /\ stored' = [stored EXCEPT !.status = "cancelled", !.pause = "none"]
  /\ UNCHANGED <<worker, outside, disruptions>>

\* The resolution names the attempt the run paused for, or one that was
\* interrupted while the run was running.
Resolvable ==
  \/ stored.status = "paused" /\ stored.pause = "unknown"
  \/ stored.status = "running" /\ stored.record[Doubtful].status \in {"started", "completed"}

Retry(w) ==
  /\ Resolvable
  /\ TakeOver(w, [Idle EXCEPT !.cleared = TRUE, !.forced = TRUE])
  /\ licences' = [c \in Calls \ Keyed |->
                    IF c = Doubtful THEN licences[c] + 1 ELSE licences[c]]
  /\ retried' = retried \cup {Doubtful}
  /\ UNCHANGED <<begun, approved>>

\* use_output commits the record first and resumes the run in a second commit.
SupplyOutput(w) ==
  /\ Resolvable
  /\ Acquire(w)
  /\ stored' = [stored EXCEPT !.record[Doubtful] =
                  [status |-> "completed", attempt |-> Highest(@.attempt, 1)]]
  /\ Become(w, [Idle EXCEPT !.phase = "supplied", !.index = stored.position])
  /\ UNCHANGED <<outside, disruptions>>

ResumeSupplied(w) ==
  /\ In(w, "supplied")
  /\ Commit(w, [stored EXCEPT !.status = "running", !.pause = "none"],
            [worker[w] EXCEPT !.phase = "reading", !.cleared = TRUE], Idle)
  /\ UNCHANGED outside

-----------------------------------------------------------------------------
Step(w) ==
  \/ ReadRecord(w) \/ AskApproval(w) \/ SavePosition(w) \/ Reuse(w)
  \/ AskResolution(w) \/ PrepareAttempts(w) \/ Exhausted(w)
  \/ AskApprovalToRetry(w) \/ StartAttempt(w) \/ Invoke(w) \/ Succeed(w)
  \/ ToolThrows(w) \/ RecordFailure(w) \/ Finish(w) \/ ResumeSupplied(w)
  \/ \E status \in {"failed", "cancelled"} : EndRun(w, status)

Resolve(w) == Approve(w) \/ Retry(w) \/ SupplyOutput(w)

Next ==
  \E w \in Workers :
    Step(w) \/ Crash(w) \/ FreeLease(w) \/ Recover(w) \/ Resolve(w) \/ CancelStored(w)

Spec == Init /\ [][Next]_vars

\* A worker goes on, a lease nobody renews runs out, and the deployment recovers
\* orphans and answers every pause; it may well never cancel.
FairSpec ==
  /\ Spec
  /\ \A w \in Workers : WF_vars(Step(w))
  /\ WF_vars(\E w \in Workers : In(w, "idle") /\ FreeLease(w))
  /\ WF_vars(\E w \in Workers : Recover(w))
  /\ WF_vars(\E w \in Workers : Resolve(w))
-----------------------------------------------------------------------------
(* Properties.                                                             *)

TypeOK ==
  /\ stored \in StoredRun
  /\ holder \in Workers \cup {Nobody}
  /\ worker \in [Workers -> Worker]
  /\ begun \subseteq Calls /\ approved \subseteq Calls
  /\ licences \in [Calls \ Keyed -> Int] /\ retried \subseteq Calls
  /\ disruptions \in 0 .. MaxDisruptions

\* A tool without an idempotency key begins at most once, and once more for
\* each time a human decided to retry it: recoveries, lost answers, supplied
\* outputs and workers left behind never repeat it.
UnkeyedToolsAskFirst == \A c \in Calls \ Keyed : licences[c] >= 0

\* Recoveries do not stretch the attempts of a tool; only a human retry does.
AttemptsAreBounded ==
  \A c \in Calls : c \notin retried => stored.record[c].attempt <= MaxAttempts[c]

\* Nobody but a human repeats an effect: a call without a key begins once for
\* each decision, and no call is attempted more often than its tool declares.
OneBeginningPerDecision == UnkeyedToolsAskFirst /\ AttemptsAreBounded

\* A gated call has no effect before a human approved it (executeAgent), for
\* tools that require approval and for policies that do, whatever crashed, was
\* retried or taken over in between.
NoEffectBeforeApproval == begun \cap (Gated \cup Policed) \subseteq approved

\* The checkpoint never moves past a call without a recorded result, and a run
\* only completes with all of them.
ProgressIsRecorded ==
  \A i \in DOMAIN Batch :
    i < stored.position \/ stored.status = "completed" =>
      stored.record[Batch[i]].status = "completed"

\* A run that waits for a resolution has an attempt to resolve.
UnknownIsOnRecord ==
  stored.status = "paused" /\ stored.pause = "unknown" =>
    stored.record[Doubtful].status \in {"started", "completed"}

\* Whatever began is known to the store, so that a recovery can find out; the
\* checkpoint passes no call without its result; and what a run asks a human to
\* resolve has begun.
EffectsAreOnRecord ==
  /\ TypeOK
  /\ \A c \in begun : stored.record[c].status # "none"
  /\ ProgressIsRecorded
  /\ UnknownIsOnRecord

\* A recorded result is never taken back, not even when the commit that wrote it
\* threw and its author goes on to record a failure.
ResultsAreFinal ==
  [][\A c \in Calls : stored.record[c].status = "completed"
       => stored'.record[c].status = "completed"]_stored

\* With recoveries and answers, a run that is disrupted finitely often ends.
RunEnds == <>(stored.status \in Terminal)

\* An approval continues the run: the approved call gets its result, or the run
\* ends, instead of asking for the same approval for ever.
ApprovalsAreHeeded ==
  \A c \in Calls : c \in approved ~>
    stored.record[c].status = "completed" \/ stored.status \in Terminal

-----------------------------------------------------------------------------
(* The inductive invariant.                                                *)

InEffect == {"invoking", "executing", "effectFailed"}
PastGate == {"checked", "attempting", "supplied"} \cup InEffect
Call(e)  == Batch[e.index]

\* Only between two calls is there no pending one.
HasCall(e) == e.phase # "reading" \/ e.cleared \/ e.forced => e.index <= Len(Batch)

\* The worker whose commits are accepted works on a running run, with results
\* for all the calls before the pending one, and has read the record it decides
\* on.
IsCurrent(e, s) ==
  /\ e.phase # "supplied" => s.status = "running" /\ s.pause = "none"
  /\ \A i \in DOMAIN Batch : i < e.index => s.record[Batch[i]].status = "completed"
  /\ e.phase \in {"gate", "checked"} => e.record = s.record[Call(e)]
  /\ e.phase = "attempting" => s.record[Call(e)].status # "completed"
  /\ e.phase \in InEffect => s.record[Call(e)].status = "started"

HolderIsCurrent ==
  \A w \in Workers : Accepted(w) /\ ~ In(w, "idle") => IsCurrent(worker[w], stored)

\* Whoever is past the gate of a call has its approval, and so has every call
\* that is on record; an effect begins after its record.
Ungated(c, granted) == c \in Gated \cup Policed => c \in granted

IsApproved(e, s, granted) ==
  /\ \/ e.cleared
     \/ e.phase \in PastGate
     \/ e.phase = "gate" /\ e.record.status # "none"
     => Ungated(Call(e), granted)
  /\ e.phase \in InEffect => s.record[Call(e)].status # "none"

RecordsAreApproved ==
  \A c \in Calls : stored.record[c].status # "none" => Ungated(c, approved)

\* Attempts are numbered from 1 up to the limit, which only a retry stretches.
IsCounted(e, again) ==
  /\ e.forced => e.phase # "idle" /\ Call(e) \in again
  /\ e.phase \in {"attempting"} \cup InEffect /\ Call(e) \notin again =>
       e.limit <= MaxAttempts[Call(e)]
  /\ e.phase \in {"attempting"} \cup InEffect => ~ e.forced
  /\ e.phase \in InEffect => e.attempt > 0 /\ e.attempt <= e.limit

FailuresAreCounted ==
  \A c \in Calls : stored.record[c].status = "failed" => stored.record[c].attempt > 0

WorkersAreSound ==
  \A w \in Workers : /\ HasCall(worker[w])
                     /\ IsApproved(worker[w], stored, approved)
                     /\ IsCounted(worker[w], retried)

\* The workers about to begin the effect of a call, and whether one more may
\* yet join them: where a call has no key, and one attempt, each has a licence
\* of its own.
Once == {c \in Calls \ Keyed : MaxAttempts[c] = 1}

Claimants(c) == {w \in Workers : In(w, "invoking") /\ Pending(w) = c}

MayStart(e) == e.forced \/ (e.phase = "attempting" /\ e.attempt < e.limit)

Startable(c) ==
  \/ stored.record[c].status = "none"
  \/ \E w \in Workers : Accepted(w) /\ MayStart(worker[w]) /\ Pending(w) = c

EffectsAreLicensed ==
  \A c \in Once :
    /\ IsFiniteSet(Claimants(c))
    /\ licences[c] >= Cardinality(Claimants(c)) + (IF Startable(c) THEN 1 ELSE 0)

ToolInv ==
  /\ HolderIsCurrent
  /\ WorkersAreSound
  /\ RecordsAreApproved /\ FailuresAreCounted
  /\ EffectsAreLicensed
  /\ NoEffectBeforeApproval /\ EffectsAreOnRecord /\ AttemptsAreBounded

=============================================================================
