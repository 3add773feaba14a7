----------------------------- MODULE Evaluation ----------------------------
(***************************************************************************)
(* runEvaluation, parseEvalReport and compareEvaluationReports of          *)
(* packages/fevex/src/evals/evaluation.ts: a dataset is run case by case   *)
(* against an agent whose runs complete, fail, pause or break off, scorers *)
(* that may throw judge every run, and each report is compared with the    *)
(* one before it.  The host compares and keeps the reports, one after the  *)
(* other, as a build server does.                                          *)
(***************************************************************************)
EXTENDS Integers, Sequences, FiniteSets, SequencesExt, FiniteSetsExt

CONSTANTS Datasets,     \* sequences of case ids; one may have an id twice
          Scorers,      \* a sequence of scorer ids
          Verdicts,     \* what a scorer may answer
          Costs,        \* what the CostCalculator may answer, noCost included
          noCost,
          MaxReports, MaxEvents,
          MaxScoreDrop

EvaluationAssumption ==
  /\ MaxReports \in Nat /\ MaxEvents \in Nat /\ MaxScoreDrop \in Nat
  /\ noCost \in Costs

VARIABLES reports,  \* the reports made so far
          dataset,  \* the cases that this evaluation has still to run
          cases,    \* the cases of this evaluation that are done
          run,      \* the current run: its events and what the stream threw
          scores,   \* its scores so far
          phase

vars == <<reports, dataset, cases, run, scores, phase>>

NoRun == [events |-> <<>>, threw |-> FALSE]
noScore == -1
SumOf(seq) == FoldLeft(LAMBDA sum, x : sum + x, 0, seq)

----------------------------------------------------------------------------
(* evaluateCase.                                                           *)

Event(type, call) == [type |-> type, call |-> call]
Has(type) == \E i \in 1..Len(run.events) : run.events[i].type = type

\* MUTANT of SelectedTools: every attempt of a call counts.
StartedTools ==
  LET starts == SelectSeq(run.events, LAMBDA e : e.type = "tool.started")
  IN [i \in 1..Len(starts) |-> starts[i].call]

\* A call is selected once, however often it is attempted.
SelectedTools ==
  LET Started(i) == run.events[i].type = "tool.started"
      First(i) == \A j \in 1..i - 1 : ~(Started(j) /\ run.events[j] = run.events[i])
      firsts == {i \in 1..Len(run.events) : Started(i) /\ First(i)}
  IN [i \in 1..Cardinality(firsts) |-> run.events[SetToSortSeq(firsts, LAMBDA a, b : a < b)[i]].call]

RunError == run.threw \/ Has("run.failed") \/ Has("run.cancelled") \/ ~Has("run.completed")

CaseReport(id, cost) ==
  [caseId |-> id, status |-> IF Has("run.completed") THEN "completed" ELSE "failed",
   tools |-> SelectedTools, cost |-> cost, error |-> RunError, scores |-> scores]

----------------------------------------------------------------------------
(* summarize, parseEvalReport.                                             *)

\* MUTANT of FailedCases: a run with an error has failed.
CasesWithError(cs) == Len(SelectSeq(cs, LAMBDA c : c.error))

FailedCases(cs) == Len(SelectSeq(cs, LAMBDA c : c.status = "failed"))

AllScores(cs) == FlattenSeq([i \in 1..Len(cs) |-> cs[i].scores])
PaidCosts(cs) == SelectSeq([i \in 1..Len(cs) |-> cs[i].cost], LAMBDA c : c # noCost)

Summary(cs) ==
  LET Of(status) == Len(SelectSeq(AllScores(cs), LAMBDA s : s.status = status))
      costs == PaidCosts(cs)
      currencies == {costs[i].currency : i \in 1..Len(costs)}
  IN [caseCount |-> Len(cs), completedCount |-> Len(SelectSeq(cs, LAMBDA c : c.status = "completed")),
      failedCount |-> FailedCases(cs),
      scoreCounts |-> [status \in {"passed", "failed", "skipped", "error"} |-> Of(status)],
      cost |-> IF Cardinality(currencies) = 1
               THEN [amount |-> SumOf([i \in 1..Len(costs) |-> costs[i].amount]), currency |-> costs[1].currency]
               ELSE noCost]

Report(cs) == [scorerIds |-> Scorers, cases |-> cs, summary |-> Summary(cs)]

Parses(report) ==
  /\ \A i, j \in 1..Len(report.cases) : i # j => report.cases[i].caseId # report.cases[j].caseId
  /\ \A i \in 1..Len(report.cases) :
       /\ report.cases[i].status \in {"completed", "failed"}
       /\ \A k \in 1..Len(report.cases[i].scores) :
            LET s == report.cases[i].scores[k]
            IN /\ s.scorerId \in {report.scorerIds[n] : n \in 1..Len(report.scorerIds)}
               /\ s.status \in {"passed", "failed", "skipped", "error"}
               /\ s.score \in {noScore, 0, 1, 2}

----------------------------------------------------------------------------
(* compareEvaluationReports.                                               *)

CaseOf(report, id) == {i \in 1..Len(report.cases) : report.cases[i].caseId = id}
Regression(kind, id, scorer) == [kind |-> kind, caseId |-> id, scorerId |-> scorer]

\* MUTANT of ScoreFailed: only a judgement is a regression.
ScoreJudged(old, new) == old.status = "passed" /\ new.status = "failed"

ScoreFailed(old, new) == old.status = "passed" /\ new.status # "passed"

ScoreDropped(old, new) ==
  old.score # noScore /\ new.score # noScore /\ old.score - new.score > MaxScoreDrop

ScoreRegressions(old, new) ==
  LET Changed(k) == {s \in {new.scores[n] : n \in 1..Len(new.scores)} : s.scorerId = old.scores[k].scorerId}
  IN UNION {IF Changed(k) = {} THEN {Regression("scorer_removed", old.caseId, old.scores[k].scorerId)}
            ELSE LET s == CHOOSE s \in Changed(k) : TRUE
                 IN IF ScoreFailed(old.scores[k], s) THEN {Regression("score_failed", old.caseId, s.scorerId)}
                    ELSE IF ScoreDropped(old.scores[k], s) THEN {Regression("score_dropped", old.caseId, s.scorerId)}
                    ELSE {} : k \in 1..Len(old.scores)}

\* A cost is compared when both reports have one, with no increase allowed.
CostIncreased(old, new) ==
  /\ old.cost # noCost /\ new.cost # noCost
  /\ \/ old.cost.currency # new.cost.currency
     \/ old.cost.amount > 0 /\ new.cost.amount > old.cost.amount

CaseRegressions(old, current) ==
  IF CaseOf(current, old.caseId) = {} THEN {Regression("case_removed", old.caseId, "none")}
  ELSE LET new == current.cases[Max(CaseOf(current, old.caseId))]
       IN (IF old.status = "completed" /\ new.status = "failed" THEN {Regression("case_failed", old.caseId, "none")} ELSE {})
          \cup ScoreRegressions(old, new)
          \cup (IF CostIncreased(old, new) THEN {Regression("cost_increased", old.caseId, "none")} ELSE {})

Regressions(baseline, current) ==
  UNION {CaseRegressions(baseline.cases[i], current) : i \in 1..Len(baseline.cases)}

Passes(baseline, current) == Regressions(baseline, current) = {}

----------------------------------------------------------------------------
Init ==
  /\ reports = <<>> /\ dataset = <<>> /\ cases = <<>> /\ run = NoRun /\ scores = <<>> /\ phase = "idle"

\* MUTANT of ValidDataset: ids are not compared.
AnyDataset(ds) == Len(ds) > 0

ValidDataset(ds) == Len(ds) > 0 /\ IsInjective(ds)

StartEvaluation ==
  /\ phase = "idle" /\ Len(reports) < MaxReports
  /\ \E ds \in Datasets : ValidDataset(ds) /\ dataset' = ds
  /\ cases' = <<>> /\ run' = NoRun /\ scores' = <<>> /\ phase' = "running"
  /\ UNCHANGED reports

\* An event of the run; a terminal one is the last.
ReceiveEvent ==
  /\ phase = "running" /\ Len(run.events) < MaxEvents
  /\ ~Has("run.completed") /\ ~Has("run.failed") /\ ~Has("run.cancelled")
  /\ \E e \in {Event("tool.started", c) : c \in {1, 2}} \cup {Event(t, 0) : t \in {"run.completed", "run.failed", "run.cancelled"}} :
       run' = [run EXCEPT !.events = Append(@, e)]
  /\ UNCHANGED <<reports, dataset, cases, scores, phase>>

\* The stream ends, after its last event or at a pause, or throws.
StreamEnds ==
  /\ phase = "running"
  /\ \E threw \in BOOLEAN : run' = [run EXCEPT !.threw = threw]
  /\ phase' = "scoring"
  /\ UNCHANGED <<reports, dataset, cases, scores>>

\* The run is aborted, or the calculator fails: there is no report.
EvaluationThrows ==
  /\ phase \in {"running", "scoring"}
  /\ phase' = "idle"
  /\ UNCHANGED <<reports, dataset, cases, run, scores>>

\* One scorer judges the run, skips it, or throws.
Score ==
  /\ phase = "scoring" /\ Len(scores) < Len(Scorers)
  /\ \E verdict \in Verdicts :
       scores' = Append(scores, [scorerId |-> Scorers[Len(scores) + 1], status |-> verdict.status, score |-> verdict.score])
  /\ UNCHANGED <<reports, dataset, cases, run, phase>>

CaseEnds ==
  /\ phase = "scoring" /\ Len(scores) = Len(Scorers)
  /\ \E cost \in IF Has("run.completed") THEN Costs ELSE {noCost} :
       cases' = Append(cases, CaseReport(Head(dataset), cost))
  /\ dataset' = Tail(dataset) /\ run' = NoRun /\ scores' = <<>>
  /\ phase' = IF Len(dataset) = 1 THEN "reporting" ELSE "running"
  /\ UNCHANGED reports

MakeReport ==
  /\ phase = "reporting"
  /\ reports' = Append(reports, Report(cases)) /\ cases' = <<>> /\ phase' = "idle"
  /\ UNCHANGED <<dataset, run, scores>>

Next == StartEvaluation \/ ReceiveEvent \/ StreamEnds \/ EvaluationThrows \/ Score \/ CaseEnds \/ MakeReport
Spec == Init /\ [][Next]_vars
----------------------------------------------------------------------------
(* Properties.                                                             *)

\* The variables have their types.
TypeOK ==
  /\ phase \in {"idle", "running", "scoring", "reporting"}
  /\ Len(scores) <= Len(Scorers) /\ Len(reports) <= MaxReports
  /\ \A i \in 1..Len(cases) : Len(cases[i].tools) <= 2

\* A report is read back by parseEvalReport, whatever the runs and scorers did.
ReportsParse == \A i \in 1..Len(reports) : Parses(reports[i])

\* The numbers of a summary account for every case and every score once, and its
\* cost is that of the cases, also when a run broke off after it had completed.
SummariesAddUp ==
  \A i \in 1..Len(reports) :
    LET s == reports[i].summary
    IN /\ s.completedCount + s.failedCount = s.caseCount
       /\ s.scoreCounts["passed"] + s.scoreCounts["failed"] + s.scoreCounts["skipped"] + s.scoreCounts["error"]
          = s.caseCount * Len(Scorers)

\* What passed in one report passes in a later one, when every comparison from
\* the one to the other passed, and no case of it is gone: a build server that
\* takes each report as its next baseline loses nothing (README.md:859).
Chained(i, j) == \A k \in i..j - 1 : Passes(reports[k], reports[k + 1])
PassesAreKept ==
  \A i, j \in 1..Len(reports) : i < j /\ Chained(i, j) =>
    \A a \in 1..Len(reports[i].cases) :
      \E b \in 1..Len(reports[j].cases) :
        /\ reports[i].cases[a].caseId = reports[j].cases[b].caseId
        /\ reports[i].cases[a].status = "completed" => reports[j].cases[b].status = "completed"
        /\ \A k \in 1..Len(Scorers) :
             reports[i].cases[a].scores[k].status = "passed" => reports[j].cases[b].scores[k].status = "passed"

\* With no tolerance, no score is lower than it was in an earlier report when
\* every comparison in between passed ("scores drop beyond the configured
\* tolerance", README.md:860).
ScoresAreKept ==
  \A i, j \in 1..Len(reports) : i < j /\ Chained(i, j) =>
    \A r \in Regressions(reports[i], reports[j]) : r.kind # "score_dropped"
============================================================================
