----------------------------- MODULE SpanExport ----------------------------
(***************************************************************************)
(* The exporter of packages/opentelemetry/src/index.ts, given the traces   *)
(* that RunTrace builds: one walk over the list of spans starts a span of  *)
(* OpenTelemetry for each, under the context of its parent if that one     *)
(* came earlier and under the run's otherwise, and counts.  A context is   *)
(* named by the beginning of its span; the run's is 0.                     *)
(***************************************************************************)
EXTENDS RunTrace, FiniteSets

NothingYet == [contexts |-> {0}, spans |-> <<>>, tokens |-> 0, models |-> 0, tools |-> 0]

\* MUTANT of ParentOf: every span lies under the run.
RootOf(acc, span) == 0

\* contexts.get(item.parentId) ?? rootContext.
ParentOf(acc, span) == IF span.parent \in acc.contexts THEN span.parent ELSE 0

\* MUTANT of Measure: tools are measured once for each call.
MeasureCalls(acc, span) ==
  IF span.kind = "model"
  THEN [acc EXCEPT !.models = @ + 1, !.tokens = @ + (IF span.usage = NoUsage THEN 0 ELSE span.usage)]
  ELSE IF span.kind = "tool" /\ span.attempt = 1 THEN [acc EXCEPT !.tools = @ + 1] ELSE acc

\* The histograms and the counter of tokens.
Measure(acc, span) ==
  IF span.kind = "model"
  THEN [acc EXCEPT !.models = @ + 1, !.tokens = @ + (IF span.usage = NoUsage THEN 0 ELSE span.usage)]
  ELSE IF span.kind = "tool" THEN [acc EXCEPT !.tools = @ + 1] ELSE acc

\* tracer.startSpan, with the end and the status of the trace's span.
StartSpan(acc, span) ==
  [acc EXCEPT !.contexts = @ \cup {span.begin},
              !.spans = Append(@, [begin |-> span.begin, end |-> span.end, parent |-> ParentOf(acc, span),
                                   ok |-> span.status = "completed"])]

ExportSpan(acc, span) == Measure(StartSpan(acc, span), span)

\* The run's own span is started first and ended last.
Export(spans) ==
  LET done == FoldLeft(ExportSpan, NothingYet, spans)
  IN [done EXCEPT !.spans = Append(@, [begin |-> 0, end |-> Len(log), parent |-> 0, ok |-> status = "completed"])]

Exported == Export(Spans)
----------------------------------------------------------------------------
(* Properties.                                                             *)

\* A tool's span lies under the model call that asked for it in the exported
\* tree too: that span always comes earlier in the list, also when a run ends
\* with spans open, and the contexts of two attempts are never confused.
TreeIsKept ==
  at = "ended" /\ Kind = "agent" =>
    LET spans == Spans
        exported == Export(spans).spans IN
    \A i \in 1..Len(spans) :
      spans[i].kind = "tool" =>
        \E j \in 1..i - 1 : /\ spans[j].kind = "model" /\ spans[j].step = spans[i].step
                            /\ exported[i].parent = exported[j].begin

\* The counter of tokens is between what the run says it used and what its
\* models did use, and every attempt of a tool is measured once, whatever was
\* retried, interrupted or left open.
MetricsAgree ==
  at = "ended" =>
    LET exported == Exported IN
    /\ exported.tokens \in usage .. consumed
    /\ exported.tools = Cardinality({i \in Indices({"tool.started"}) : ~Superseded(i)})
============================================================================
