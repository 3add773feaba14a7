----------------------------- MODULE ToolSearch -----------------------------
(***************************************************************************)
(* Tool search in the loop of an agent (agent-engine.ts,                   *)
(* agent-internal-tools.ts, tool-search.ts): the model is shown the tools  *)
(* that are loaded, a search loads the tools it finds, and a call of a     *)
(* tool that is not loaded fails the run.  A search ranks the tools by the *)
(* words of the query, and, with embeddings, fuses that list with a list   *)
(* by meaning and lets a reranker order the first candidates.              *)
(*                                                                         *)
(* A tool is the number its name has in the order of names.  What a tool   *)
(* has in common with the term of a query is a Hit; the list by meaning    *)
(* and the answer of the reranker are any lists.  A checkpoint is written  *)
(* at a tool call, never at a search, and a crash goes back to it.         *)
(***************************************************************************)
EXTENDS Integers, Sequences, FiniteSets, SequencesExt

CONSTANTS Tools,        \* the tools of the agent, numbers
          Pinned,       \* toolSearch.pinned
          Limit,        \* toolSearch.limit
          TopK,         \* semantic.topK
          RankConstant,
          Reranks,      \* whether there is a reranker
          Hits,         \* [name, description, schema] of a tool for a term
          Lists,        \* the lists by meaning
          Rerankings,   \* what a reranker returns, right or wrong
          MaxTurns, MaxCrashes

SearchAssumption ==
  /\ Tools \subseteq Nat \ {0} /\ Pinned \subseteq Tools
  /\ Limit \in Nat \ {0} /\ TopK \in Nat \ {0} /\ RankConstant \in Nat \ {0}

VARIABLES phase,       \* "turn", "answer", "index", "query", "rerank", "found", "failed"
          loaded,      \* loadedTools
          told,        \* the tools that the conversation names as found
          version,     \* loadedToolsVersion
          sent,        \* [version, tools]: the cached list of the model's tools
          semantic,    \* "none", "failed" or "index": the state of the index
          search,      \* the search under way
          result,      \* what the last search selected
          checkpoint,  \* [loaded, told] as it is stored
          turns, crashes

counters == <<turns, crashes>>
vars == <<phase, loaded, told, version, sent, semantic, search, result, checkpoint, counters>>

NoSearch == [lexical |-> <<>>, meaning |-> <<>>, fused |-> <<>>, limit |-> 0]

----------------------------------------------------------------------------
(* Ranking.                                                                *)

\* MUTANT of First: one more than the limit.
FirstMore(list, n) == SubSeq(list, 1, IF Len(list) < n + 1 THEN Len(list) ELSE n + 1)

First(list, n) == SubSeq(list, 1, IF Len(list) < n THEN Len(list) ELSE n)

\* MUTANT of NameScore: the whole name counts as one of its terms.
NameScoreByTerm == [exact |-> 40, term |-> 40, prefix |-> 30, part |-> 20, none |-> 0]

NameScore == [exact |-> 100, term |-> 40, prefix |-> 30, part |-> 20, none |-> 0]
DescriptionScore == [term |-> 8, part |-> 5, none |-> 0]

HitScore(hit) == NameScore[hit.name] + DescriptionScore[hit.description] + (IF hit.schema THEN 1 ELSE 0)

\* The tools with a score, best first and then by name, for the hits of the
\* terms of a query: hits[i][t] is what tool t has of the i-th term.
TermScore(hits, t) == FoldSeq(LAMBDA hit, n : HitScore(hit[t]) + n, 0, hits)

SearchToolSpecs(hits, limit) ==
  LET Before(t, u) ==
        \/ TermScore(hits, t) > TermScore(hits, u)
        \/ TermScore(hits, t) = TermScore(hits, u) /\ t < u
  IN First(SetToSortSeq({t \in Tools : TermScore(hits, t) > 0}, Before), limit)

\* 1 / (RankConstant + i), in units that make every rank a whole number.
Unit == FoldSet(LAMBDA i, n : n * (RankConstant + i), 1, 1..Cardinality(Tools))
\* MUTANT of Share: the ranks are counted from the end.
ShareFromEnd(list, t) == FoldSet(LAMBDA i, n : n + Unit \div (RankConstant + Len(list) + 1 - i), 0, {i \in 1..Len(list) : list[i] = t})

Share(list, t) == FoldSet(LAMBDA i, n : n + Unit \div (RankConstant + i), 0, {i \in 1..Len(list) : list[i] = t})

ReciprocalRankFusion(lexical, meaning, limit) ==
  LET Score(t) == Share(lexical, t) + Share(meaning, t)
      Before(t, u) == Score(t) > Score(u) \/ (Score(t) = Score(u) /\ t < u)
  IN First(SetToSortSeq(Range(lexical) \cup Range(meaning), Before), limit)

\* A reranker's answer counts when it names each candidate at most once and
\* nothing else; the candidates stand otherwise.
Reranked(fused, answer, limit) ==
  IF Range(answer) \subseteq Range(fused) /\ Cardinality(Range(answer)) = Len(answer)
  THEN First(answer, limit)
  ELSE fused

----------------------------------------------------------------------------
Init ==
  /\ phase = "turn"
  /\ loaded = Pinned /\ told = {}
  /\ version = 0 /\ sent = [version |-> -1, tools |-> {}]
  /\ semantic = "none" /\ search = NoSearch /\ result = <<>>
  /\ checkpoint = [loaded |-> Pinned, told |-> {}]
  /\ turns = 0 /\ crashes = 0

\* modelTools(): the list is made anew when the version has changed.
SendTools ==
  /\ phase = "turn" /\ turns < MaxTurns
  /\ phase' = "answer" /\ turns' = turns + 1
  /\ sent' = IF sent.version = version THEN sent ELSE [version |-> version, tools |-> loaded]
  /\ UNCHANGED <<loaded, told, version, semantic, search, result, checkpoint, crashes>>

\* MUTANT of CallTool: the checkpoint keeps the conversation alone.
CallToolUnsaved(t) ==
  /\ phase = "answer"
  /\ IF t \in loaded
     THEN phase' = "turn" /\ checkpoint' = [checkpoint EXCEPT !.told = told]
     ELSE phase' = "failed" /\ UNCHANGED checkpoint
  /\ UNCHANGED <<loaded, told, version, sent, semantic, search, result, counters>>

\* The model calls tools of its own choice.
CallTool(t) ==
  /\ phase = "answer"
  /\ IF t \in loaded
     THEN phase' = "turn" /\ checkpoint' = [loaded |-> loaded, told |-> told]
     ELSE phase' = "failed" /\ UNCHANGED checkpoint
  /\ UNCHANGED <<loaded, told, version, sent, semantic, search, result, counters>>

\* The model calls the search tool; with embeddings the index comes first.
CallSearch(hits, limit) ==
  LET wanted == IF limit < Limit THEN limit ELSE Limit
      candidates == IF TopK > wanted THEN TopK ELSE wanted
  IN /\ phase = "answer"
     /\ search' = [NoSearch EXCEPT !.lexical = SearchToolSpecs(hits, candidates), !.limit = wanted]
     /\ phase' = CASE semantic = "none" -> "index" [] semantic = "index" -> "query" [] OTHER -> "found"
     /\ result' = IF semantic = "failed" THEN First(search'.lexical, wanted) ELSE <<>>
     /\ UNCHANGED <<loaded, told, version, sent, semantic, checkpoint, counters>>

Select(matches) == result' = First(matches, search.limit) /\ phase' = "found"

\* The index is built once for each execution of the run.
IndexBuilt ==
  /\ phase = "index" /\ phase' = "query" /\ semantic' = "index"
  /\ UNCHANGED <<loaded, told, version, sent, search, result, checkpoint, counters>>

IndexFails ==
  /\ phase = "index" /\ semantic' = "failed"
  /\ Select(search.lexical)
  /\ UNCHANGED <<loaded, told, version, sent, search, checkpoint, counters>>

\* The query is embedded and the list by meaning fused with the other.
Fuse(list) ==
  LET width == IF Reranks /\ TopK > search.limit THEN TopK ELSE search.limit
      fused == ReciprocalRankFusion(search.lexical, list, width)
  IN /\ phase = "query"
     /\ search' = [search EXCEPT !.meaning = list, !.fused = IF list = <<>> THEN <<>> ELSE fused]
     /\ IF list = <<>> THEN Select(search.lexical)
        ELSE IF Reranks /\ Len(fused) > 1 THEN phase' = "rerank" /\ UNCHANGED result
        ELSE Select(fused)
     /\ UNCHANGED <<loaded, told, version, sent, semantic, checkpoint, counters>>

\* MUTANT of QueryFails: a failed embedding finds nothing.
QueryFindsNone ==
  /\ phase = "query"
  /\ Select(<<>>)
  /\ UNCHANGED <<loaded, told, version, sent, semantic, search, checkpoint, counters>>

QueryFails ==
  /\ phase = "query"
  /\ Select(search.lexical)
  /\ UNCHANGED <<loaded, told, version, sent, semantic, search, checkpoint, counters>>

Rerank(answer) ==
  /\ phase = "rerank"
  /\ Select(Reranked(search.fused, answer, search.limit))
  /\ UNCHANGED <<loaded, told, version, sent, semantic, search, checkpoint, counters>>

RerankFails ==
  /\ phase = "rerank"
  /\ Select(search.fused)
  /\ UNCHANGED <<loaded, told, version, sent, semantic, search, checkpoint, counters>>

\* The signal fires in an await of the search: the run fails.
SearchAborted ==
  /\ phase \in {"index", "query", "rerank"} /\ phase' = "failed"
  /\ UNCHANGED <<loaded, told, version, sent, semantic, search, result, checkpoint, counters>>

\* MUTANT of AnswerSearch: the cached list of tools stays.
AnswerUnseen ==
  /\ phase = "found" /\ phase' = "turn"
  /\ loaded' = loaded \cup Range(result)
  /\ told' = told \cup Range(result)
  /\ search' = NoSearch
  /\ UNCHANGED <<version, sent, semantic, result, checkpoint, counters>>

\* The tools that were found are loaded and told to the model.
AnswerSearch ==
  /\ phase = "found" /\ phase' = "turn"
  /\ loaded' = loaded \cup Range(result)
  /\ told' = told \cup Range(result)
  /\ version' = IF loaded' # loaded THEN version + 1 ELSE version
  /\ search' = NoSearch
  /\ UNCHANGED <<sent, semantic, result, checkpoint, counters>>

\* The worker ends and another resumes from the checkpoint.
Crash ==
  /\ phase # "failed" /\ crashes < MaxCrashes
  /\ crashes' = crashes + 1 /\ phase' = "turn"
  /\ loaded' = checkpoint.loaded \cup Pinned /\ told' = checkpoint.told
  /\ version' = 0 /\ sent' = [version |-> -1, tools |-> {}]
  /\ semantic' = "none" /\ search' = NoSearch /\ result' = <<>>
  /\ UNCHANGED <<checkpoint, turns>>

Next ==
  \/ SendTools \/ IndexBuilt \/ IndexFails \/ QueryFails \/ RerankFails \/ SearchAborted \/ AnswerSearch \/ Crash
  \/ \E t \in Tools : CallTool(t)
  \/ \E hits \in {<<h>> : h \in [Tools -> Hits]}, limit \in 1..(Limit + 1) : CallSearch(hits, limit)
  \/ \E list \in Lists : Fuse(list)
  \/ \E answer \in Rerankings : Rerank(answer)

Spec == Init /\ [][Next]_vars
----------------------------------------------------------------------------
(* Properties.                                                             *)

\* The variables have their types.
TypeOK ==
  /\ loaded \subseteq Tools /\ told \subseteq Tools /\ Pinned \subseteq loaded
  /\ version \in 0..MaxTurns /\ Len(result) <= Limit
  /\ semantic \in {"none", "failed", "index"}

\* A tool that the conversation says was found can be called, in the worker that
\* found it and in one that resumes the run.
FoundToolsAreLoaded == told \subseteq loaded /\ checkpoint.told \subseteq checkpoint.loaded

\* The tools the model was shown last are the tools its calls are checked with.
ModelSeesLoaded == phase = "answer" => sent.tools = loaded

\* Two lists that agree on two tools are not overruled by their fusion: a tool
\* that is ahead in both, or alone in one and ahead in the other, stays ahead.
Place(list, t) == IF t \in Range(list) THEN CHOOSE i \in 1..Len(list) : list[i] = t ELSE Len(list) + 1
FusionAgrees ==
  phase = "rerank" =>
    \A t, u \in Range(search.fused) :
      /\ Place(search.lexical, t) <= Place(search.lexical, u)
      /\ Place(search.meaning, t) <= Place(search.meaning, u)
      /\ Place(search.lexical, t) < Place(search.lexical, u) \/ Place(search.meaning, t) < Place(search.meaning, u)
      => Place(search.fused, t) < Place(search.fused, u)

\* A search finds each tool once, and something whenever a word of the query is
\* found, whatever fails: the failures fall back to the list by words.
FailuresFallBack ==
  phase = "found" =>
    /\ Cardinality(Range(result)) = Len(result)
    /\ search.fused = <<>> /\ search.lexical # <<>> => result = First(search.lexical, search.limit)

\* A tool whose name is the query comes before the tools that only have it
\* somewhere (one term).
ExactNameFirst ==
  \A h \in [Tools -> Hits] : phase = "turn" /\ turns = 0 =>
    LET ranked == SearchToolSpecs(<<h>>, Cardinality(Tools))
    IN \A i, j \in 1..Len(ranked) : h[ranked[i]].name = "exact" /\ h[ranked[j]].name # "exact" => i < j

\* A reranker reorders the candidates (README, "can reorder the fused top
\* candidates"): while they are not more than the limit, none is lost.
RerankingKeepsAll ==
  phase = "found" /\ search.fused # <<>> /\ Len(search.fused) <= search.limit =>
    Range(result) = Range(search.fused)
============================================================================
