----------------------------- MODULE AgentLoop ------------------------------
(***************************************************************************)
(* What an agent run shows its model: the loop of executeAgent in          *)
(* packages/fevex/src/internal/agent-engine.ts, compactContext of          *)
(* internal/context-compaction.ts, the tools an agent finds while it runs  *)
(* (internal/agent-internal-tools.ts) and what the DeepSeek and OpenAI     *)
(* gateways demand of a conversation.                                      *)
(*                                                                         *)
(* The runs of one session follow each other.  A run keeps its             *)
(* conversation, the gateway's opaque state (the ids of each tool turn),   *)
(* its budgets and the tools loaded so far; it saves all of it in a        *)
(* checkpoint before a tool and when it pauses, and goes on from there     *)
(* after a pause or a crash.  When the conversation outgrows its budget    *)
(* the middle of it becomes one summary, which the session keeps.          *)
(*                                                                         *)
(* A message has a role and, of its content, what the properties tell      *)
(* apart: the runs it speaks of, the calls it makes, the call it answers   *)
(* and the tools it announces.  A message is one token.                    *)
(***************************************************************************)
EXTENDS Naturals, Sequences, FiniteSets, SequencesExt

CONSTANTS Tools, Pinned,        \* the agent's tools, those loaded from the start
          Stateful,             \* the gateway keeps provider state
          HasBudget, Usable, Threshold, \* contextBudget, in messages
          MaxSteps, MaxToolCalls,
          HostCompacts,         \* the host may call compactSession
          MaxRuns, MaxCrashes   \* bounds on the instance

AgentLoopAssumption ==
  /\ Pinned \subseteq Tools /\ {Stateful, HasBudget, HostCompacts} \subseteq BOOLEAN
  /\ Threshold \in Nat /\ Usable \in Nat /\ Threshold <= Usable
  /\ MaxSteps \in Nat \ {0} /\ MaxToolCalls \in Nat /\ MaxRuns \in Nat /\ MaxCrashes \in Nat

VARIABLES session,    \* history, and the summary of its first covered messages
          run,        \* the last run: its status, where its loop is, its work
          checkpoint, \* the work last saved, or none
          outcome,    \* how each run ended
          crashes

vars == <<session, run, checkpoint, outcome, crashes>>

Ordinals == 1 .. MaxRuns
Calls == 1 .. MaxToolCalls + MaxSteps

Message(role, speaksOf, calls, answers, found) ==
  [role |-> role, runs |-> speaksOf, calls |-> calls, answers |-> answers, found |-> found]
Text(role, speaksOf) == Message(role, speaksOf, <<>>, 0, {})
Instructions == Text("system", {})
Request(n) == Text("user", {n})
CallMessage(n, calls) == Message("assistant", {n}, calls, 0, {})
Result(n, call, found) == Message("tool", {n}, <<>>, call, found)

SpokenOf(messages) == UNION {messages[i].runs : i \in DOMAIN messages}
OfRole(messages, role) == SelectSeq(messages, LAMBDA m : m.role = role)
NotSystem(messages) == SelectSeq(messages, LAMBDA m : m.role # "system")

NoWork == [messages |-> <<>>, turns |-> <<>>, step |-> 0, toolCalls |-> 0, seen |-> {}, pending |-> <<>>,
           loaded |-> {}, asked |-> 0, elicited |-> 0] \* elicited: a ghost

Init ==
  /\ session = [history |-> <<>>, summary |-> {}, covered |-> 0]
  /\ run = [n |-> 0, status |-> "none", at |-> "idle", compacted |-> FALSE, approved |-> 0, work |-> NoWork]
  /\ checkpoint = NoWork
  /\ outcome = [n \in Ordinals |-> "none"]
  /\ crashes = 0

-----------------------------------------------------------------------------
(* sessionHistoryMessages: what the session contributes to a prompt. *)
SessionMessages ==
  IF session.covered = 0 \/ session.covered > Len(session.history) THEN session.history
  ELSE <<Text("system", session.summary)>>
         \o SubSeq(session.history, session.covered + 1, Len(session.history))

StartRun ==
  /\ run.status \notin {"running", "paused", "crashed"} /\ run.n < MaxRuns
  /\ LET work == [NoWork EXCEPT !.messages = <<Instructions>> \o SessionMessages \o <<Request(run.n + 1)>>,
                                !.step = 1, !.loaded = Pinned]
     IN /\ run' = [n |-> run.n + 1, status |-> "running", at |-> "top", compacted |-> FALSE, approved |-> 0, work |-> work]
        /\ checkpoint' = work
  /\ UNCHANGED <<session, outcome, crashes>>

(* compactSession of the host, refused while a run of the session is active. *)
CompactSession ==
  /\ HostCompacts /\ run.status \notin {"running", "paused", "crashed"}
  /\ session.history # <<>>
  /\ session' = [history |-> <<Text("system", SpokenOf(SessionMessages))>>, summary |-> {}, covered |-> 0]
  /\ session' # session
  /\ UNCHANGED <<run, checkpoint, outcome, crashes>>

(* Mutant: the checkpoint outlives the run. *)
EndsOnly(status) ==
  /\ run' = [run EXCEPT !.status = status, !.at = "idle"]
  /\ outcome' = [outcome EXCEPT ![run.n] = status]
  /\ UNCHANGED checkpoint

Ends(status) ==
  /\ run' = [run EXCEPT !.status = status, !.at = "idle"]
  /\ checkpoint' = NoWork
  /\ outcome' = [outcome EXCEPT ![run.n] = status]

At(place) == run.status = "running" /\ run.at = place
Work == run.work
GoTo(place, work) == run' = [run EXCEPT !.at = place, !.work = work]

FailRun == Ends("failed") /\ UNCHANGED <<session, crashes>>

-----------------------------------------------------------------------------
(* compactContext. *)
LastUser(messages) == SelectLastInSeq(messages, LAMBDA m : m.role = "user")
LastBatch(messages) == SelectLastInSeq(messages, LAMBDA m : m.calls # <<>>)

(* Mutants: the turn is its last two messages; the request and the results. *)
LastTwo(messages) == NotSystem(SubSeq(messages, Len(messages) - 1, Len(messages)))
RequestAndResults(messages) == <<messages[LastUser(messages)]>> \o OfRole(messages, "tool")

Prefix(messages) == OfRole(messages, "system")
CurrentTurn(messages) ==
  LET user == LastUser(messages)
      batch == LastBatch(messages)
  IN NotSystem(IF batch <= user THEN SubSeq(messages, user, Len(messages))
               ELSE <<messages[user]>> \o SubSeq(messages, batch, Len(messages)))
(* What is left between them. *)
Compactable(messages) ==
  LET user == LastUser(messages)
      batch == LastBatch(messages)
      before == SubSeq(messages, 1, user - 1)
  IN NotSystem(IF batch <= user THEN before ELSE before \o SubSeq(messages, user + 1, batch - 1))

Compacted(messages) ==
  Prefix(messages) \o <<Text("system", SpokenOf(Compactable(messages)))>> \o CurrentTurn(messages)

TooLong == HasBudget /\ Len(Work.messages) > Usable
Compacts ==
  /\ HasBudget /\ ~run.compacted
  /\ Len(Work.messages) > Threshold /\ Compactable(Work.messages) # <<>>

Proceed ==
  /\ At("top") /\ Work.step <= MaxSteps /\ ~Compacts /\ ~TooLong
  /\ GoTo("call", Work)
  /\ UNCHANGED <<session, checkpoint, outcome, crashes>>

(* Mutant: the summary replaces the one the session had. *)
LatestSummary(messages) == [session EXCEPT !.summary = SpokenOf(Compactable(messages)), !.covered = Len(session.history)]

(* The session's summary grows; all of its history counts as covered. *)
SessionAfter(messages) ==
  [session EXCEPT !.summary = (IF session.covered = 0 THEN {} ELSE @) \cup SpokenOf(Compactable(messages)),
                  !.covered = Len(session.history)]

(* The conversation, the checkpoint and the session change in one commit. *)
CompactContext ==
  /\ At("top") /\ Work.step <= MaxSteps /\ Compacts
  /\ Len(Compacted(Work.messages)) <= Usable
  /\ LET work == [Work EXCEPT !.messages = Compacted(Work.messages)] IN
     /\ run' = [run EXCEPT !.at = "call", !.compacted = TRUE, !.work = work]
     /\ checkpoint' = work
  /\ session' = SessionAfter(Work.messages)
  /\ UNCHANGED <<outcome, crashes>>

OutOfBudget ==
  /\ At("top")
  /\ \/ Work.step > MaxSteps
     \/ ~Compacts /\ TooLong
     \/ Compacts /\ Len(Compacted(Work.messages)) > Usable
  /\ FailRun

-----------------------------------------------------------------------------
(* The gateway. *)
Batches(messages) == SelectSeq(messages, LAMBDA m : m.calls # <<>>)

(* toDeepSeekMessages, toOpenAIInput: one turn of provider state for each  *)
(* assistant message with calls, in order and no more.                     *)
StateMatches == Stateful => Work.turns = [i \in DOMAIN Batches(Work.messages) |-> Batches(Work.messages)[i].calls]

(* assertCompatibleInput: a call id is made once, and answered once later. *)
CallsMade(messages) == FlattenSeq([i \in DOMAIN messages |-> messages[i].calls])
AnswersGiven(messages) == [i \in DOMAIN OfRole(messages, "tool") |-> OfRole(messages, "tool")[i].answers]
WellFormed(messages) ==
  /\ IsInjective(CallsMade(messages)) /\ IsInjective(AnswersGiven(messages))
  /\ ToSet(CallsMade(messages)) = ToSet(AnswersGiven(messages))
  /\ \A i \in DOMAIN messages :
       messages[i].role = "tool" =>
         \E j \in 1 .. i - 1 : messages[i].answers \in ToSet(messages[j].calls)

Refused == At("call") /\ ~(StateMatches /\ WellFormed(Work.messages)) /\ FailRun

Accepted == At("call") /\ StateMatches /\ WellFormed(Work.messages)
HasToolBudget == Work.step < MaxSteps /\ Work.toolCalls < MaxToolCalls

(* The gateway fails, or answers what the run does not take: nothing, a    *)
(* call without budget, of a tool that is not loaded, with an id seen      *)
(* before, a batch that is too large, an internal call beside others.      *)
BadAnswer == Accepted /\ FailRun

CompleteRun ==
  /\ Accepted
  /\ session' = [session EXCEPT !.history = @ \o <<Request(run.n), Text("assistant", {run.n})>>]
  /\ Ends("completed")
  /\ UNCHANGED crashes

(* appendDeepSeekProviderState, appendOpenAIProviderState. *)
WithState(turns, calls) == IF Stateful THEN Append(turns, calls) ELSE turns

WithTurn(calls, step, more) ==
  [Work EXCEPT !.messages = @ \o <<CallMessage(run.n, calls)>> \o more,
               !.turns = WithState(@, calls),
               !.seen = @ \cup ToSet(calls), !.step = step]

NewCalls(n) == {calls \in [1 .. n -> Calls \ Work.seen] : \A i \in 2 .. n : calls[i - 1] < calls[i]}
Fresh(n) == CHOOSE calls \in NewCalls(n) : \A other \in NewCalls(n) : calls[1] <= other[1] /\ calls[n] <= other[n]

(* A batch of ordinary calls within what is left of the budget.            *)
CallTools ==
  /\ Accepted /\ HasToolBudget
  /\ \E n \in 1 .. 2 :
       /\ n <= MaxToolCalls - Work.toolCalls /\ Work.loaded # {}
       /\ GoTo("tools", [WithTurn(Fresh(n), Work.step, <<>>) EXCEPT !.pending = Fresh(n)])
  /\ UNCHANGED <<session, checkpoint, outcome, crashes>>

(* search_tools: the tools it finds are offered from the next turn on.     *)
SearchTools ==
  /\ Accepted /\ HasToolBudget
  /\ \E found \in SUBSET Tools :
       GoTo("top", [WithTurn(Fresh(1), Work.step + 1, <<Result(run.n, Fresh(1)[1], found)>>) EXCEPT
                      !.loaded = @ \cup found, !.toolCalls = @ + 1])
  /\ UNCHANGED <<session, checkpoint, outcome, crashes>>

(* Elicitation: the run pauses behind a call that only a person answers.   *)
Elicit ==
  /\ Accepted /\ HasToolBudget
  /\ LET work == [WithTurn(Fresh(1), Work.step + 1, <<>>) EXCEPT !.asked = Fresh(1)[1], !.elicited = @ + 1] IN
     /\ run' = [run EXCEPT !.status = "paused", !.at = "idle", !.work = work]
     /\ checkpoint' = work
  /\ UNCHANGED <<session, outcome, crashes>>

-----------------------------------------------------------------------------
(* The pending calls, one by one. *)
SaveBeforeTool ==
  /\ At("tools") /\ Work.pending # <<>>
  /\ checkpoint' = Work
  /\ run' = [run EXCEPT !.at = "tool", !.approved = 0]
  /\ UNCHANGED <<session, outcome, crashes>>

(* Mutant: an approval is forgotten at once. *)
PauseAgain ==
  /\ At("tools") /\ Work.pending # <<>>
  /\ checkpoint' = Work
  /\ run' = [run EXCEPT !.status = "paused", !.at = "idle"]
  /\ UNCHANGED <<session, outcome, crashes>>

PauseForApproval ==
  /\ At("tools") /\ Work.pending # <<>> /\ Head(Work.pending) # run.approved
  /\ checkpoint' = Work
  /\ run' = [run EXCEPT !.status = "paused", !.at = "idle"]
  /\ UNCHANGED <<session, outcome, crashes>>

(* Mutant: only the last call of a batch is counted. *)
RunToolOfBatch ==
  /\ At("tool")
  /\ GoTo("tools", [Work EXCEPT !.messages = Append(@, Result(run.n, Head(Work.pending), {})),
                                !.pending = Tail(@),
                                !.toolCalls = @ + IF Len(Work.pending) = 1 THEN 1 ELSE 0])
  /\ UNCHANGED <<session, checkpoint, outcome, crashes>>

RunTool ==
  /\ At("tool")
  /\ GoTo("tools", [Work EXCEPT !.messages = Append(@, Result(run.n, Head(Work.pending), {})),
                                !.pending = Tail(@), !.toolCalls = @ + 1])
  /\ UNCHANGED <<session, checkpoint, outcome, crashes>>

ToolFails == At("tool") /\ FailRun

BatchDone ==
  /\ At("tools") /\ Work.pending = <<>>
  /\ GoTo("top", [Work EXCEPT !.step = @ + 1])
  /\ UNCHANGED <<session, checkpoint, outcome, crashes>>

-----------------------------------------------------------------------------
(* Pauses, crashes, cancellation. *)
(* Mutants: neither the tools found so far nor the provider state are saved. *)
RestoredTools(work) == [work EXCEPT !.loaded = Pinned]
RestoredTurns(work) == [work EXCEPT !.turns = <<>>]
Restored(work) == work

Restart(work, approved) ==
  run' = [run EXCEPT !.status = "running", !.compacted = FALSE, !.approved = approved, !.work = Restored(work),
                     !.at = IF work.pending = <<>> THEN "top" ELSE "tools"]

(* An approval lets the call it names run; an answer to an elicitation     *)
(* joins the checkpoint's conversation.                                    *)
Approve ==
  /\ run.status = "paused" /\ checkpoint.asked = 0
  /\ Restart(checkpoint, Head(checkpoint.pending))
  /\ UNCHANGED <<session, checkpoint, outcome, crashes>>

Answer ==
  /\ run.status = "paused" /\ checkpoint.asked # 0
  /\ LET work == [checkpoint EXCEPT !.messages = Append(@, Result(run.n, checkpoint.asked, {})), !.asked = 0]
     IN Restart(work, 0) /\ checkpoint' = work
  /\ UNCHANGED <<session, outcome, crashes>>

Crash ==
  /\ run.status = "running" /\ crashes < MaxCrashes
  /\ run' = [run EXCEPT !.status = "crashed", !.at = "idle", !.work = NoWork]
  /\ crashes' = crashes + 1
  /\ UNCHANGED <<session, checkpoint, outcome>>

Recover ==
  /\ run.status = "crashed"
  /\ Restart(checkpoint, 0)
  /\ UNCHANGED <<session, checkpoint, outcome, crashes>>

Cancel ==
  /\ run.status \in {"running", "paused", "crashed"}
  /\ Ends("cancelled") /\ UNCHANGED <<session, crashes>>

Loop ==
  \/ Proceed \/ CompactContext \/ OutOfBudget \/ Refused \/ BadAnswer \/ CompleteRun \/ CallTools \/ SearchTools
  \/ Elicit \/ SaveBeforeTool \/ PauseForApproval \/ RunTool \/ ToolFails \/ BatchDone
Next == StartRun \/ CompactSession \/ Loop \/ Approve \/ Answer \/ Crash \/ Recover \/ Cancel

Spec == Init /\ [][Next]_vars
(* The loop of a live process goes on; pauses are answered, crashed runs recovered. *)
FairSpec == Spec /\ WF_vars(Loop) /\ WF_vars(Approve \/ Answer) /\ WF_vars(Recover)

-----------------------------------------------------------------------------
(* What is kept, and that a run has a checkpoint while it has not ended.   *)
TypeOK ==
  /\ run.n \in 0 .. MaxRuns /\ run.status \in {"none", "running", "paused", "crashed", "completed", "failed", "cancelled"}
  /\ run.at \in {"idle", "top", "call", "tools", "tool"}
  /\ session.covered <= Len(session.history) /\ session.summary \subseteq Ordinals
  /\ (checkpoint # NoWork) = (run.status \in {"running", "paused", "crashed"})

(* Whatever was paused, crashed, searched, summarised or answered before,  *)
(* a request holds every call with exactly one answer, after it.           *)
RequestsAreWellFormed == At("call") => WellFormed(Work.messages)

(* The provider state a run carries belongs to the conversation it sends.  *)
ContinuationFits == At("call") => StateMatches

(* Instructions, request and latest batch stand in every request.          *)
TheTurnSurvives ==
  At("call") =>
    /\ Work.messages[1] = Instructions
    /\ Len(SelectSeq(Work.messages, LAMBDA m : m = Request(run.n))) = 1
    /\ Work.seen # {} =>
         \E i \in DOMAIN Work.messages :
           /\ Work.messages[i].calls # <<>>
           /\ \A call \in Work.seen : \A j \in DOMAIN Work.messages[i].calls : call <= Work.messages[i].calls[j] \/ call \in ToSet(Work.messages[i].calls)

(* A tool the conversation announces is among those the model is offered.  *)
AnnouncedToolsAreLoaded ==
  At("call") => \A i \in DOMAIN Work.messages : Work.messages[i].found \subseteq Work.loaded

(* The budget of calls binds a run across its pauses and recoveries:       *)
(* elicitations apart, it took up no more calls than maxToolCalls.         *)
CallsAreBounded == Cardinality(Work.seen) <= MaxToolCalls + Work.elicited

(* Every completed run of the session is in what the next prompt starts    *)
(* from, in full or in the summary.                                        *)
SessionIsRemembered == \A n \in Ordinals : outcome[n] = "completed" => n \in SpokenOf(SessionMessages)

(* README: failed and cancelled runs do not affect the next prompt.        *)
FailedRunsLeaveNoTrace == \A n \in Ordinals : outcome[n] \in {"failed", "cancelled"} => n \notin SpokenOf(SessionMessages)

(* A run ends, whatever the model answers.                                 *)
RunsEnd == \A n \in Ordinals : (run.n = n) ~> (outcome[n] # "none")
=============================================================================
