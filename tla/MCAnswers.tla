------------------------------ MODULE MCAnswers ------------------------------
(* What a model answers and what becomes of it, in instances small enough   *)
(* for TLC: event streams, the gateways, the stream of a run, its context   *)
(* and the compaction of it, traces, their export (TraceExport) and         *)
(* evaluations. A behaviour belongs to one of them.                         *)
EXTENDS TraceExport, Integers, TLC

CONSTANTS
  Parts,   \* who may take the steps of a behaviour
  t1, t2,  \* tools of an agent
  noCost

VARIABLES
  part,  \* who takes them: chosen once
  x1, x2, x3, x4, x5, x6, x7, x8, x9, x10, x11  \* its variables

allVars == <<part, vars, x1, x2, x3, x4, x5, x6, x7, x8, x9, x10, x11>>

\* Prompts of up to three older messages of several lengths, with budgets that
\* leave much, little and no room for their digest.
Message(role, content, calls) == [role |-> role, content |-> content, calls |-> calls]
SomeMessages ==
  {Message("user", 2, <<>>), Message("user", 130, <<>>), Message("user", 500, <<>>),
   Message("assistant", 0, <<20, 300>>), Message("tool", 0, <<>>), Message("tool", 350, <<>>)}
OlderMessages == UNION {[1 .. n -> SomeMessages] : n \in 0 .. 3}

Budget(window, reserve, compactAt, target, safety) ==
  [contextWindow |-> window, reserve |-> reserve, compactAt |-> compactAt,
   targetTokens |-> target, safetyFactor |-> safety]
SomeBudgets ==
  {Budget(100, 20, 80, 0, 110), Budget(160, 0, 50, 70, 100), Budget(300, 50, 90, 200, 150),
   Budget(1, 0, 80, 0, 110), Budget(100, 0, 50, 60, 110), Budget(100, 0, 80, 0, 110)}

\* Transcripts of up to nine characters for calls of four: with line breaks
\* early, late and at the limit, and with none.  Every letter is a fact.
Text(length, breaks) ==
  [i \in 1 .. length |->
     IF i \in breaks THEN [kind |-> "newline", facts |-> {}]
     ELSE [kind |-> "letter", facts |-> {i}]]
SomeTranscripts == {Text(length, breaks) : length \in {3, 5, 9}, breaks \in SUBSET {1, 2, 4, 5, 6}}

\* What a scorer may answer; -1 is no score.
Verdict(status, score) == [status |-> status, score |-> score]
FewVerdicts == {Verdict("passed", 1), Verdict("failed", 0), Verdict("error", -1)}

Sse == INSTANCE SseFraming WITH
  Readers <- {"gateway", "mcp", "client"}, MaxLength <- 5, reader <- x1, wire <- x2,
  pos <- x3, buffer <- x4, out <- x5, at <- x6
DeepSeek == INSTANCE GatewayStream WITH
  Gateways <- {"deepseek"}, MaxText <- 2, MaxCalls <- 2, MaxArguments <- 1, gateway <- x1,
  structured <- x2, message <- x3, sent <- x4, calls <- x5, content <- x6,
  hasContent <- x7, finish <- x8, shown <- x9, result <- x10, at <- x11
OpenAI == INSTANCE GatewayStream WITH
  Gateways <- {"openai"}, MaxText <- 2, MaxCalls <- 2, MaxArguments <- 1, gateway <- x1,
  structured <- x2, message <- x3, sent <- x4, calls <- x5, content <- x6,
  hasContent <- x7, finish <- x8, shown <- x9, result <- x10, at <- x11
Deltas == INSTANCE ModelStream WITH
  MaxDeltaChars <- 2, MaxDeltaDelay <- 2, MaxText <- 5, pc <- x1, pending <- x2,
  completed <- x3, outputText <- x4, buffer <- x5, firstDelta <- x6, age <- x7,
  chunk <- x8, after <- x9, chunks <- x10, waiting <- x11
Loop == INSTANCE AgentLoop WITH
  Stateful <- FALSE, HasBudget <- TRUE, HostCompacts <- FALSE, Tools <- {t1, t2},
  Pinned <- {t1}, Usable <- 8, Threshold <- 5, MaxSteps <- 4, MaxToolCalls <- 3,
  MaxRuns <- 2, MaxCrashes <- 1, session <- x1, run <- x2, checkpoint <- x3, outcome <- x4,
  crashes <- x5
Continued == INSTANCE AgentLoop WITH
  Stateful <- TRUE, HasBudget <- FALSE, HostCompacts <- TRUE, Tools <- {t1, t2},
  Pinned <- {t1}, Usable <- 8, Threshold <- 5, MaxSteps <- 4, MaxToolCalls <- 3,
  MaxRuns <- 2, MaxCrashes <- 1, session <- x1, run <- x2, checkpoint <- x3, outcome <- x4,
  crashes <- x5
Digested == INSTANCE ContextDigest WITH
  Budgets <- SomeBudgets, Olds <- OlderMessages, Preserveds <- {30, 200, 334},
  MaxChars <- 150, prompt <- x1, phase <- x2, keep <- x3, lines <- x4, digest <- x5
Compactor == INSTANCE ModelCompactor WITH
  Transcripts <- SomeTranscripts, MaxChars <- 4, MaxRounds <- 3, Answers <- {1, 4},
  transcript <- x1, rest <- x2, summaries <- x3, round <- x4, phase <- x5, sent <- x6,
  wasCut <- x7
Spans == INSTANCE SpanExport WITH
  Kind <- "agent", MaxEvents <- 8, MaxSteps <- 3, MaxTools <- 2, MaxAttempts <- 2,
  log <- x1, at <- x2, step <- x3, pending <- x4, usage <- x5, consumed <- x6, saved <- x7,
  status <- x8, opened <- x9, keyed <- x10
Team == INSTANCE SpanExport WITH
  Kind <- "coordinator", MaxEvents <- 7, MaxSteps <- 3, MaxTools <- 0, MaxAttempts <- 0,
  log <- x1, at <- x2, step <- x3, pending <- x4, usage <- x5, consumed <- x6, saved <- x7,
  status <- x8, opened <- x9, keyed <- x10
Judged == INSTANCE Evaluation WITH
  Datasets <- {<<"a", "b">>, <<"a", "a">>, <<>>}, Scorers <- <<"s", "t">>,
  Verdicts <- FewVerdicts,
  Costs <- {noCost, [amount |-> 1, currency |-> "usd"], [amount |-> 1, currency |-> "eur"]},
  MaxReports <- 1, MaxEvents <- 2, MaxScoreDrop <- 0, reports <- x1, dataset <- x2,
  cases <- x3, run <- x4, scores <- x5, phase <- x6
Chained == INSTANCE Evaluation WITH
  Datasets <- {<<"a">>, <<"b">>}, Scorers <- <<"s">>,
  Verdicts <- {Verdict("passed", 1), Verdict("error", -1)}, Costs <- {noCost},
  MaxReports <- 3, MaxEvents <- 1, MaxScoreDrop <- 0, reports <- x1, dataset <- x2,
  cases <- x3, run <- x4, scores <- x5, phase <- x6

ASSUME InstancesAreSound ==
  /\ Sse!SseAssumption /\ DeepSeek!GatewayAssumption /\ OpenAI!GatewayAssumption
  /\ Deltas!ModelStreamAssumption /\ Loop!AgentLoopAssumption
  /\ Continued!AgentLoopAssumption /\ Digested!DigestAssumption
  /\ Compactor!CompactorAssumption /\ Spans!TraceAssumption
  /\ Judged!EvaluationAssumption /\ Chained!EvaluationAssumption

------------------------------------------------------------------------------
\* A part has the first variables for itself, as many as it has; it leaves the others.
Rest == "rest"
Rest11 == TRUE
Rest10 == x11 = Rest
Rest9 == x10 = Rest /\ Rest10
Rest8 == x9 = Rest /\ Rest9
Rest7 == x8 = Rest /\ Rest8
Rest6 == x7 = Rest /\ Rest7
Rest5 == x6 = Rest /\ Rest6
Rest4 == x5 = Rest /\ Rest5
Rest3 == x4 = Rest /\ Rest4
Rest2 == x3 = Rest /\ Rest3
Rest1 == x2 = Rest /\ Rest2
Rest0 == x1 = Rest /\ Rest1

Else11 == UNCHANGED <<part, vars>>
Else10 == UNCHANGED x11 /\ Else11
Else9 == UNCHANGED x10 /\ Else10
Else8 == UNCHANGED x9 /\ Else9
Else7 == UNCHANGED x8 /\ Else8
Else6 == UNCHANGED x7 /\ Else7
Else5 == UNCHANGED x6 /\ Else6
Else4 == UNCHANGED x5 /\ Else5
Else3 == UNCHANGED x4 /\ Else4
Else2 == UNCHANGED x3 /\ Else3
Else1 == UNCHANGED x2 /\ Else2
Else0 == UNCHANGED <<part, x1, x2, x3, x4, x5, x6, x7, x8, x9, x10, x11>>

AllInit ==
  /\ part \in Parts
  /\ Init
  /\ \/ part = "export" /\ Rest0
     \/ part = "framing" /\ Sse!Init /\ Rest6
     \/ part = "deepseek" /\ DeepSeek!Init /\ Rest11
     \/ part = "openai" /\ OpenAI!Init /\ Rest11
     \/ part = "stream" /\ Deltas!Init /\ Rest11
     \/ part = "context" /\ Loop!Init /\ Rest5
     \/ part = "continuation" /\ Continued!Init /\ Rest5
     \/ part = "digest" /\ Digested!Init /\ Rest5
     \/ part = "compactor" /\ Compactor!Init /\ Rest7
     \/ part = "spans" /\ Spans!Init /\ Rest10
     \/ part = "coordinator" /\ Team!Init /\ Rest10
     \/ part = "evaluation" /\ Judged!Init /\ Rest6
     \/ part = "chain" /\ Chained!Init /\ Rest6

AllNext ==
  \/ part = "export" /\ Next /\ Else0
  \/ part = "framing" /\ Sse!Next /\ Else6
  \/ part = "deepseek" /\ DeepSeek!Next /\ Else11
  \/ part = "openai" /\ OpenAI!Next /\ Else11
  \/ part = "stream" /\ Deltas!Next /\ Else11
  \/ part = "context" /\ Loop!Next /\ Else5
  \/ part = "continuation" /\ Continued!Next /\ Else5
  \/ part = "digest" /\ Digested!Next /\ Else5
  \/ part = "compactor" /\ Compactor!Next /\ Else7
  \/ part = "spans" /\ Spans!Next /\ Else10
  \/ part = "coordinator" /\ Team!Next /\ Else10
  \/ part = "evaluation" /\ Judged!Next /\ Else6
  \/ part = "chain" /\ Chained!Next /\ Else6

AllSpec == AllInit /\ [][AllNext]_allVars

\* Runs are interchangeable, and flushes too.
ExportSymmetry == Permutations(Runs) \cup Permutations(Flushers)
------------------------------------------------------------------------------
(* Properties.                                                                *)

\* What is read off a wire is what was written, however it was cut, and a wire
\* that ends early is told; the result of a model is the message of its provider,
\* an answer that is whole is never refused, one that is not is never taken; the
\* events of a run hold every character of the answer, in bounded pieces and in
\* bounded time, also when the model fails.
AnswersAreWhole ==
  /\ part = "framing" => Sse!TypeOK /\ Sse!EventsAreTheLines /\ Sse!EndsAreTold
  /\ part = "deepseek" =>
       /\ DeepSeek!TypeOK /\ DeepSeek!ResultIsTheMessage /\ DeepSeek!ShownIsTheText
       /\ DeepSeek!WholeAnswersAreResults
  /\ part = "openai" => OpenAI!TypeOK /\ OpenAI!ResultIsTheMessage /\ OpenAI!WholeAnswersAreResults
  /\ part = "stream" =>
       /\ Deltas!TypeOK /\ Deltas!NothingIsLost /\ Deltas!ChunksAreBounded /\ Deltas!DelayIsBounded
       /\ Deltas!SuccessIsTheEvents

\* Every request of a run is one a provider takes, with each tool result behind
\* its call, whatever was compacted, searched or resumed before; the turn of the
\* user survives, the session remembers each turn once, and tools that were found
\* stay loaded.  A digest keeps the newest, a compaction makes another one
\* needless, and what is given to the compacting model fits and leaves nothing
\* out but what was cut at its last round.
ContextsAreWhole ==
  /\ part = "context" =>
       /\ Loop!TypeOK /\ Loop!RequestsAreWellFormed /\ Loop!TheTurnSurvives
       /\ Loop!AnnouncedToolsAreLoaded /\ Loop!CallsAreBounded /\ Loop!SessionIsRemembered
  /\ part = "continuation" => Continued!TypeOK /\ Continued!ContinuationFits
  /\ part = "digest" => Digested!TypeOK /\ Digested!NewestAreKept /\ Digested!CompactionSettles
  /\ part = "compactor" => Compactor!TypeOK /\ Compactor!CallsFit /\ Compactor!NothingIsLost

\* The trace of a run has a span for every beginning, with the outcome that the
\* events tell, below the model call that asked for it; its spans used no less than
\* the run says and no more than its models did; and the exported tree and its
\* metrics are those of the trace.  Each run is exported
\* once, by the slots there are, and a flush waits for all that were before it.
TracesTellTheRun ==
  /\ part = "spans" =>
       /\ Spans!OneSpanPerAttempt /\ Spans!SpansTellTheOutcome /\ Spans!UsageIsBounded
       /\ Spans!ToolsFollowTheirModel /\ Spans!TreeIsKept /\ Spans!MetricsAgree
  /\ part = "coordinator" => Team!OneSpanPerAttempt /\ Team!SpansTellTheOutcome
  /\ TypeOK /\ SlotsAreUsed /\ EachRunOnce /\ FlushWaits

\* A report can be read back, its numbers account for every case and score once,
\* and a case that passed is not lost over a chain of comparisons that pass.
EvaluationsAgree ==
  /\ part = "evaluation" => Judged!TypeOK /\ Judged!ReportsParse /\ Judged!SummariesAddUp
  /\ part = "chain" => Chained!PassesAreKept
==============================================================================
