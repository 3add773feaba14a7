----------------------------- MODULE RunTrace ------------------------------
(***************************************************************************)
(* The trace of a run is built from its events when it has ended.  The     *)
(* first part writes the events of an agent's run, with crashes and        *)
(* pauses, or those of a workflow's or a team's; the second builds the     *)
(* spans from them.  An event's position is its sequence and its time.     *)
(***************************************************************************)
EXTENDS Naturals, Sequences, SequencesExt, FiniteSetsExt

CONSTANTS Kind,       \* "agent" or "coordinator"
          MaxEvents, MaxSteps, MaxTools, MaxAttempts

TraceAssumption == Kind \in {"agent", "coordinator"}

VARIABLES log,       \* the events stored
          at,        \* what the run is at: "model", "calling", "tools", "tool", "paused", "ended", ...
          step,
          pending,   \* the next call or the one at work, and the calls left of its step
          usage,     \* tokens used so far, as the run counts them
          consumed,  \* those its models did use, the calls a crash undid included
          saved,     \* the checkpoint: step, call, calls left, usage
          status,    \* how the run ended
          opened,    \* steps of a coordinator that are open
          keyed      \* the idempotency of the agent's tools
vars == <<log, at, step, pending, usage, consumed, saved, status, opened, keyed>>
tallies == <<usage, consumed>>
fixed == <<status, opened, keyed>>

Event(type, key, n, tokens) == [type |-> type, step |-> step, key |-> key, attempt |-> n, usage |-> tokens]
NoUsage == 99   \* a provider that reports none

(* A call has the attempts made, what its record says of the last one, and *)
(* the attempts that somebody allowed it by asking for a retry.            *)
Call(c, n) == [call |-> c, left |-> n, attempt |-> 0, record |-> "none", limit |-> 0]
Position(st, c, n, u) == [step |-> st, call |-> c, left |-> n, usage |-> u]

Init ==
  /\ log = <<>> /\ step = 1 /\ pending = Call(1, 0) /\ usage = 0 /\ consumed = 0
  /\ saved = Position(1, 1, 0, 0)
  /\ at = IF Kind = "agent" THEN "model" ELSE "steps"
  /\ status = "none" /\ opened = {} /\ keyed \in BOOLEAN

Write(type, key, n, tokens) == Len(log) < MaxEvents /\ log' = Append(log, Event(type, key, n, tokens))
Tell(type) == Write(type, pending.call, pending.attempt, NoUsage)

Here == Position(step, pending.call, pending.left, usage)

\* A compaction stores a checkpoint before the model is called.
Compact ==
  /\ at = "model" /\ saved # Here /\ saved' = Here
  /\ UNCHANGED <<log, at, step, pending, tallies, fixed>>

ModelStarts ==
  /\ at = "model" /\ Write("model.started", 0, 0, NoUsage)
  /\ at' = "calling"
  /\ UNCHANGED <<step, pending, tallies, saved, fixed>>

\* A step that is repeated may ask for calls of the same ids or of new ones.
NewCalls == {pending.call, 1 + Max({pending.call - 1} \cup {log[i].key : i \in 1 .. Len(log)})}

\* A call uses a token or its provider reports none; the usage of the event is
\* that of the run so far.  The model answers, asks for tools, or for a tool of
\* the engine's own or the user alone.
ModelCompletes ==
  /\ at = "calling"
  /\ \E used \in {1, NoUsage} :
       LET more == IF used = NoUsage THEN 0 ELSE used IN
       /\ usage' = usage + more /\ consumed' = consumed + more
       /\ Write("model.completed", 0, 0, IF usage' > 0 THEN usage' ELSE NoUsage)
  /\ \/ at' = "answered" /\ UNCHANGED pending
     \/ /\ step < MaxSteps
        /\ \E c \in NewCalls :
             \/ at' = "tools" /\ \E tools \in 1 .. MaxTools : pending' = Call(c, tools)
             \/ at' \in {"internal", "eliciting"} /\ pending' = Call(c, 0)
  /\ UNCHANGED <<step, saved, fixed>>

\* A tool of the engine's own has events and no record nor checkpoint.
InternalStarts ==
  /\ at = "internal" /\ Write("tool.started", pending.call, 1, NoUsage)
  /\ at' = "searching"
  /\ UNCHANGED <<step, pending, tallies, saved, fixed>>

InternalEnds ==
  /\ at = "searching"
  /\ \/ /\ Tell("tool.completed")
        /\ at' = "model" /\ step' = step + 1 /\ pending' = Call(pending.call + 1, 0)
     \/ Tell("tool.failed") /\ at' = "failing" /\ UNCHANGED <<step, pending>>
  /\ UNCHANGED <<tallies, saved, fixed>>

\* The run pauses for an answer, which is stored with the next step.
Elicit ==
  /\ at = "eliciting"
  /\ step' = step + 1 /\ pending' = Call(pending.call + 1, 0) /\ at' = "model"
  /\ saved' = Position(step + 1, pending.call + 1, 0, usage)
  /\ UNCHANGED <<log, tallies, fixed>>

\* An input that its schema refuses: the call never starts.
InputRefused ==
  /\ at = "tools" /\ saved # Here /\ Tell("tool.failed")
  /\ at' = "failing"
  /\ UNCHANGED <<step, pending, tallies, saved, fixed>>

\* The checkpoint before each tool; a pause for an approval stores the same.
Save ==
  /\ at = "tools" /\ saved' = Here
  /\ at' = "ready"
  /\ UNCHANGED <<log, step, pending, tallies, fixed>>

\* The next call of the step, or the next step.
NextCall ==
  /\ pending' = Call(pending.call + 1, pending.left - 1)
  /\ IF pending.left = 1 THEN at' = "model" /\ step' = step + 1 ELSE at' = "tools" /\ UNCHANGED step

\* A call whose record is complete is not made again.
ToolSkipped ==
  /\ at = "ready" /\ pending.record = "completed" /\ NextCall
  /\ UNCHANGED <<log, tallies, saved, fixed>>

\* The attempts that count: one that was interrupted is made again if keyed.
Interrupted == pending.record = "started"
Made == IF Interrupted /\ keyed THEN pending.attempt - 1 ELSE pending.attempt
Allowed == Max({MaxAttempts, pending.limit})

ToolStarts ==
  /\ at = "ready" /\ pending.record # "completed" /\ (Interrupted => keyed \/ pending.limit > 0)
  /\ IF Made < Allowed
     THEN /\ Write("tool.started", pending.call, Made + 1, NoUsage)
          /\ pending' = [pending EXCEPT !.attempt = Made + 1, !.record = "started"]
          /\ at' = "tool"
     ELSE at' = "failing" /\ UNCHANGED <<log, pending>>
  /\ UNCHANGED <<step, tallies, saved, fixed>>

\* Another tool may have taken effect: the run pauses, and someone decides.
ToolUnknown ==
  /\ at = "ready" /\ Interrupted /\ ~keyed /\ pending.limit = 0
  /\ Tell("tool.execution_unknown")
  /\ at' = "paused"
  /\ UNCHANGED <<step, pending, tallies, saved, fixed>>

ToolCompletes ==
  /\ at = "tool" /\ Tell("tool.completed")
  /\ NextCall
  /\ UNCHANGED <<tallies, saved, fixed>>

\* The failure is recorded first and told afterwards.
ToolFails ==
  /\ at = "tool" /\ at' = "failed" /\ pending' = [pending EXCEPT !.record = "failed"]
  /\ UNCHANGED <<log, step, tallies, saved, fixed>>

\* A keyed tool is tried again; the last attempt, a result too large and a
\* tool without a key fail the run.
FailureTold ==
  /\ at = "failed"
  /\ \/ Tell("tool.failed") /\ at' = "failing"
     \/ /\ keyed /\ pending.attempt < Allowed
        /\ Write("tool.retrying", pending.call, pending.attempt + 1, NoUsage) /\ at' = "ready"
  /\ UNCHANGED <<step, pending, tallies, saved, fixed>>

\* Somebody decides on an interrupted call, of a run that paused or of one that
\* nobody took up since.  A retry is a further attempt; an output that is given
\* is no event.
Resolve ==
  /\ at = "paused" \/ (at = "tools" /\ pending.record \in {"started", "completed"})
  /\ at' = "tools"
  /\ \/ /\ pending.attempt <= MaxAttempts
        /\ pending' = [pending EXCEPT !.limit = pending.attempt + 1]
     \/ pending' = [pending EXCEPT !.record = "completed", !.limit = 0]
  /\ UNCHANGED <<log, step, tallies, saved, fixed>>

\* A crash at any point: a recovery goes on from the checkpoint, with its usage
\* and with the record of the call it stopped before; one that was completed
\* has been passed.
Crash ==
  /\ at \notin {"paused", "ended", "steps"}
  /\ step' = saved.step /\ usage' = saved.usage
  /\ pending' =
       CASE saved.left = 0              -> Call(saved.call, 0)
         [] pending.call = saved.call   -> [pending EXCEPT !.limit = 0]
         [] OTHER                       -> [Call(saved.call, saved.left) EXCEPT !.record = "completed"]
  /\ at' = IF saved.left > 0 THEN "tools" ELSE "model"
  /\ UNCHANGED <<log, consumed, saved, fixed>>

----------------------------------------------------------------------------
(* A coordinator's steps open and close in any order; ids are its own. *)

StepOpens ==
  /\ at = "steps"
  /\ \E id \in 1 .. MaxSteps :
       /\ id \notin opened /\ \A i \in 1 .. Len(log) : log[i].key # id
       /\ Write("opens", id, 0, NoUsage)
       /\ opened' = opened \cup {id}
  /\ UNCHANGED <<at, step, pending, tallies, saved, status, keyed>>

StepCloses ==
  /\ at = "steps"
  /\ \E id \in opened, how \in {"completes", "fails"} :
       /\ Write(how, id, 0, NoUsage)
       /\ opened' = opened \ {id}
  /\ UNCHANGED <<at, step, pending, tallies, saved, status, keyed>>

\* The run ends: an answer, or a failure or cancellation at any point.
RunEnds ==
  /\ at # "ended" /\ at' = "ended"
  /\ \E how \in {"completed", "failed"} :
       /\ how = "completed" => at \in {"answered", "steps"}
       /\ Write("ended", 0, 0, NoUsage) /\ status' = how
  /\ UNCHANGED <<step, pending, tallies, saved, opened, keyed>>

Next ==
  \/ Compact \/ ModelStarts \/ ModelCompletes \/ InternalStarts \/ InternalEnds \/ Elicit
  \/ InputRefused \/ Save \/ ToolSkipped \/ ToolStarts \/ ToolUnknown \/ ToolCompletes
  \/ ToolFails \/ FailureTold \/ Resolve \/ Crash
  \/ StepOpens \/ StepCloses
  \/ RunEnds

Spec == Init /\ [][Next]_vars

----------------------------------------------------------------------------
(* Building the trace: open spans are kept until an event closes them. *)

Span(kind, open, end, how, parent, tokens) ==
  [kind |-> kind, step |-> open.step, key |-> open.key, attempt |-> open.attempt,
   begin |-> open.begin, end |-> end, status |-> how, parent |-> parent, usage |-> tokens]
KindOfCall == IF Kind = "agent" THEN "tool" ELSE "step"
Opening(i) == [step |-> log[i].step, key |-> log[i].key, attempt |-> log[i].attempt, begin |-> i]
Without(opens, open) == SelectSeq(opens, LAMBDA o : o # open)

\* Map.set: an entry of the same key is replaced where it is.
Same(a, b) == a.key = b.key /\ a.attempt = b.attempt /\ (a.key = 0 => a.step = b.step)
Set(opens, open) ==
  IF \E i \in 1 .. Len(opens) : Same(opens[i], open)
  THEN [i \in 1 .. Len(opens) |-> IF Same(opens[i], open) THEN open ELSE opens[i]]
  ELSE Append(opens, open)

Empty == [models |-> <<>>, tools |-> <<>>, spans |-> <<>>, parents |-> [s \in 1 .. MaxSteps |-> 0], previous |-> 0]

\* Mutant of SpanUsage: the span has the usage of the run so far.
Cumulative(acc, tokens) == tokens

\* subtractUsage: what this call added, if the provider reports it.
SpanUsage(acc, tokens) == IF tokens = NoUsage THEN NoUsage
                          ELSE IF tokens > acc.previous THEN tokens - acc.previous ELSE 0

\* The first completion of the step at or after the span's beginning.
Completion(open) ==
  LET found == {i \in open.begin .. Len(log) : log[i].type = "model.completed" /\ log[i].step = open.step}
  IN IF found = {} THEN NoUsage ELSE log[CHOOSE i \in found : \A j \in found : i <= j].usage

\* Mutant of Adopt: modelSpanByStep is not filled.
AdoptNone(acc, s, begin) == acc

\* modelSpanByStep: the calls a step asks for lie under its model's span.
Adopt(acc, s, begin) == [acc EXCEPT !.parents[s] = begin]

CloseModel(acc, s, end, how) ==
  LET its == SelectSeq(acc.models, LAMBDA o : o.step = s) IN
  IF its = <<>> THEN acc
  ELSE LET open == its[1]
           tokens == Completion(open)
       IN [Adopt(acc, s, open.begin) EXCEPT
             !.models = Without(@, open),
             !.spans = Append(@, Span("model", open, end, how, 0, SpanUsage(acc, tokens))),
             !.previous = IF tokens = NoUsage THEN @ ELSE tokens]

\* Mutant of FindOpenTool: the oldest open attempt of the call.
FindOldest(acc, key) == SelectSeq(acc.tools, LAMBDA o : o.key = key)

\* findOpenTool: the attempts of the call that are open, the latest first.
FindOpenTool(acc, key) == Reverse(SelectSeq(acc.tools, LAMBDA o : o.key = key))

\* Mutant of CloseTool: whatever closes the span, it has completed.
CloseAsCompleted(acc, key, end, how) ==
  LET its == FindOpenTool(acc, key) IN
  IF its = <<>> THEN acc
  ELSE [acc EXCEPT !.tools = Without(@, its[1]),
                   !.spans = Append(@, Span(KindOfCall, its[1], end, "completed", acc.parents[its[1].step], NoUsage))]

CloseTool(acc, key, end, how) ==
  LET its == FindOpenTool(acc, key) IN
  IF its = <<>> THEN acc
  ELSE [acc EXCEPT !.tools = Without(@, its[1]),
                   !.spans = Append(@, Span(KindOfCall, its[1], end, how, acc.parents[its[1].step], NoUsage))]

\* Mutant of OpenTool: a tool's span is kept by its call, attempts apart or not.
OpenByCall(acc, i) ==
  [acc EXCEPT !.tools = Append(SelectSeq(@, LAMBDA o : o.key # log[i].key), Opening(i))]

OpenTool(acc, i) == [acc EXCEPT !.tools = Set(@, Opening(i))]

\* An event of an agent's run.
ReadAgent(acc, i) ==
  LET e == log[i] IN
  CASE e.type = "model.started" -> [acc EXCEPT !.models = Set(@, Opening(i))]
    [] e.type = "model.completed" -> CloseModel(acc, e.step, i, "completed")
    [] e.type = "tool.started" -> OpenTool(acc, i)
    [] e.type = "tool.completed" -> CloseTool(acc, e.key, i, "completed")
    [] e.type \in {"tool.failed", "tool.retrying", "tool.execution_unknown"} -> CloseTool(acc, e.key, i, "failed")
    [] OTHER -> acc

\* An event of a coordinator's: steps, waits, delegations and merges alike.
ReadCoordinator(acc, i) ==
  LET e == log[i] IN
  CASE e.type = "opens" -> [acc EXCEPT !.tools = Set(@, Opening(i))]
    [] e.type = "completes" -> CloseTool(acc, e.key, i, "completed")
    [] e.type = "fails" -> CloseTool(acc, e.key, i, "failed")
    [] OTHER -> acc

Read(acc, i) == IF Kind = "agent" THEN ReadAgent(acc, i) ELSE ReadCoordinator(acc, i)

\* Mutant of CloseAll: spans that are open at the end are left out.
CloseNone(acc) == acc

\* What is open when the run ends ends with it.
CloseAll(acc) ==
  LET models == FoldLeft(LAMBDA a, o : CloseModel(a, o.step, Len(log), status), acc, acc.models)
  IN FoldLeft(LAMBDA a, o : CloseTool(a, o.key, Len(log), status), models, acc.tools)

Spans == CloseAll(FoldLeft(Read, Empty, [i \in 1 .. Len(log) |-> i])).spans

----------------------------------------------------------------------------

Indices(types) == {i \in 1 .. Len(log) : log[i].type \in types}
Begun == Indices({"model.started", "tool.started", "opens"})

\* A beginning that nothing closed before the same attempt began again.
Closers == Indices({"model.completed", "tool.completed", "tool.failed", "tool.retrying",
                    "tool.execution_unknown", "completes", "fails"})
About(i, j) == log[i].key = log[j].key /\ (log[i].key = 0 => log[i].step = log[j].step)
Superseded(i) ==
  \E j \in i + 1 .. Len(log) :
    /\ log[j].type = log[i].type /\ Same(Opening(i), Opening(j))
    /\ ~\E k \in Closers : i < k /\ k < j /\ About(k, i)

\* Every beginning has one span, of its own, whatever crashed: only one that a
\* crash cut off and a recovery made again has none.
OneSpanPerAttempt ==
  at = "ended" =>
    LET spans == Spans IN
    \A i \in Begun :
      Cardinality({n \in 1 .. Len(spans) : spans[n].begin = i}) = IF Superseded(i) THEN 0 ELSE 1

\* A span that ends before the run has the outcome its own attempt had: the
\* next word about the call after it began, or, where a crash lost that word and
\* the call went on, the failure it would have told.
SpansTellTheOutcome ==
  at = "ended" =>
    \A s \in Range(Spans) :
      s.end < Len(log) /\ s.kind # "model" =>
        /\ log[s.end].key = s.key
        /\ s.status = "completed" <=> log[s.end].type \in {"tool.completed", "completes"}
        /\ (\E i \in s.begin + 1 .. s.end - 1 : log[i].key = s.key) => s.status = "failed"

TokensOfSpans == FoldLeft(LAMBDA sum, s : sum + (IF s.usage = NoUsage THEN 0 ELSE s.usage), 0, Spans)

\* What the spans of the model's calls used is no less than the run says it
\* used, and no more than its models did use: the two are one unless a crash
\* made the run repeat a call that was complete.
UsageIsBounded == at = "ended" => TokensOfSpans \in usage .. consumed

\* The usage of a span is what its call added to that of the run, so that the
\* spans add up to it (observability.ts:318), crashes notwithstanding.
UsageAddsUp == at = "ended" => TokensOfSpans = usage

\* A tool's span lies under the span of the model call that asked for it, and
\* begins after that has ended; of a tool of the engine's own that a crash cut
\* off, perhaps under the same step made again.
Repeated(s) == \E i \in s.begin + 1 .. s.end : log[i].type = "model.started" /\ log[i].step = s.step
UnderItsModel(spans, s, before) ==
  \E m \in spans : /\ m.kind = "model" /\ m.step = s.step
                   /\ m.begin = s.parent /\ (before => m.end < s.begin)
ToolsFollowTheirModel ==
  at = "ended" =>
    LET spans == Range(Spans) IN
    \A s \in spans : s.kind = "tool" => UnderItsModel(spans, s, ~Repeated(s))

\* "tool spans are nested under the model call that requested them"
\* (packages/fevex/README.md:801), whatever was repeated.
ToolsLieUnderTheirCall ==
  at = "ended" =>
    LET spans == Range(Spans) IN \A s \in spans : s.kind = "tool" => UnderItsModel(spans, s, TRUE)
=============================================================================
