--------------------------- MODULE ModelCompactor --------------------------
(***************************************************************************)
(* createModelContextCompactor (packages/fevex/src/runtime/compaction.ts): *)
(* a transcript that is too long for one call of the summarizing model is  *)
(* split, summarized part by part and joined, at most MaxRounds times; what *)
(* is then still too long is cut, and the rest is merged into one summary. *)
(*                                                                         *)
(* A text is a sequence of line breaks and letters; a letter stands for    *)
(* some of the facts of the transcript.  The model may answer              *)
(* with a text of any of the lengths in Answers, which may be longer than  *)
(* what it was given, with blanks, or fail.                                *)
(***************************************************************************)
EXTENDS Naturals, Sequences, FiniteSets, SequencesExt, FiniteSetsExt

CONSTANTS Transcripts, \* what formatTranscript makes of the older messages
          MaxChars,    \* maxInputChars
          MaxRounds,   \* 4 in the code
          Answers      \* lengths of the summaries a model may give

CompactorAssumption == MaxChars \in Nat /\ MaxChars >= 2 /\ MaxRounds \in Nat

VARIABLES transcript, \* the text to compact
          rest,       \* what is not split yet of the current text
          summaries,  \* the summaries of this round
          round, phase,
          sent,       \* the text of the last call of the model
          wasCut      \* whether the text was still too long after all rounds

vars == <<transcript, rest, summaries, round, phase, sent, wasCut>>

Facts(text) == UNION {text[i].facts : i \in 1..Len(text)}
Letter(facts) == [kind |-> "letter", facts |-> facts]
Newline == [kind |-> "newline", facts |-> {}]

\* The summary is trimmed: it neither begins nor ends with a blank.
Summary(text, length) == [i \in 1..length |-> Letter(Facts(text))]
Joined(parts) == FlattenSeq([i \in 1..Len(parts) |-> IF i = 1 THEN parts[i] ELSE <<Newline, Newline>> \o parts[i]])

----------------------------------------------------------------------------
(* splitText.                                                              *)

\* text.lastIndexOf('\n', MaxChars): characters before the cut.
LastBreak(text) ==
  LET breaks == {i \in 0..MaxChars : i < Len(text) /\ text[i + 1].kind = "newline"}
  IN IF breaks = {} THEN 0 ELSE Max(breaks)

CutAt(text) ==
  IF Len(text) <= MaxChars THEN Len(text)
  ELSE IF LastBreak(text) < MaxChars \div 2 THEN MaxChars ELSE LastBreak(text)

\* MUTANT of TrimStart: the character at the cut is taken for the break.
DropFirst(text) == IF text = <<>> THEN text ELSE Tail(text)

TrimStart(text) ==
  LET letters == {i \in 1..Len(text) : text[i].kind = "letter"}
  IN IF letters = {} THEN <<>> ELSE SubSeq(text, Min(letters), Len(text))

----------------------------------------------------------------------------
Init ==
  /\ transcript \in Transcripts /\ rest = transcript
  /\ summaries = <<>> /\ round = 0 /\ phase = "measure" /\ sent = <<>> /\ wasCut = FALSE

\* The text fits one call: it is merged.
Fits ==
  /\ phase = "measure" /\ Len(rest) <= MaxChars
  /\ phase' = "merge"
  /\ UNCHANGED <<transcript, rest, summaries, round, sent, wasCut>>

\* MUTANT of Split: one round too many.
SplitOnceMore ==
  /\ phase = "measure" /\ Len(rest) > MaxChars /\ round <= MaxRounds
  /\ phase' = "split" /\ summaries' = <<>> /\ round' = round + 1
  /\ UNCHANGED <<transcript, rest, sent, wasCut>>

\* MUTANT of Split: rounds are not counted.
SplitAgain ==
  /\ phase = "measure" /\ Len(rest) > MaxChars /\ round < MaxRounds
  /\ phase' = "split" /\ summaries' = <<>>
  /\ UNCHANGED <<transcript, rest, round, sent, wasCut>>

Split ==
  /\ phase = "measure" /\ Len(rest) > MaxChars /\ round < MaxRounds
  /\ phase' = "split" /\ summaries' = <<>> /\ round' = round + 1
  /\ UNCHANGED <<transcript, rest, sent, wasCut>>

\* MUTANT of CutOff: the text is merged as it is.
CutNothing ==
  /\ phase = "measure" /\ Len(rest) > MaxChars /\ round = MaxRounds
  /\ phase' = "merge" /\ wasCut' = TRUE
  /\ UNCHANGED <<transcript, rest, summaries, round, sent>>

\* An ellipsis takes the place of the last character.
CutOff ==
  /\ phase = "measure" /\ Len(rest) > MaxChars /\ round = MaxRounds
  /\ rest' = Append(SubSeq(rest, 1, MaxChars - 1), Letter({}))
  /\ phase' = "merge" /\ wasCut' = TRUE
  /\ UNCHANGED <<transcript, summaries, round, sent>>

\* One part is summarized; the others follow in order.
Summarize ==
  /\ phase = "split" /\ rest # <<>>
  /\ LET part == SubSeq(rest, 1, CutAt(rest))
     IN /\ sent' = part
        /\ rest' = TrimStart(SubSeq(rest, CutAt(rest) + 1, Len(rest)))
        /\ \E length \in Answers : summaries' = Append(summaries, Summary(part, length))
  /\ UNCHANGED <<transcript, round, phase, wasCut>>

Join ==
  /\ phase = "split" /\ rest = <<>>
  /\ rest' = Joined(summaries) /\ phase' = "measure"
  /\ UNCHANGED <<transcript, summaries, round, sent, wasCut>>

Merge ==
  /\ phase = "merge"
  /\ sent' = rest /\ phase' = "done"
  /\ UNCHANGED <<transcript, rest, summaries, round, wasCut>>

\* The model fails, answers with blanks, or the run is cancelled.
Fail ==
  /\ phase \in {"split", "merge"} /\ phase' = "failed"
  /\ UNCHANGED <<transcript, rest, summaries, round, sent, wasCut>>

Next == Fits \/ Split \/ CutOff \/ Summarize \/ Join \/ Merge \/ Fail
Spec == Init /\ [][Next]_vars

\* The model's stream ends, one way or the other.
FairSpec == Spec /\ WF_vars(Next)
----------------------------------------------------------------------------
(* Properties.                                                             *)

\* The variables have their types.
TypeOK ==
  /\ phase \in {"measure", "split", "merge", "done", "failed"} /\ round \in 0..MaxRounds
  /\ \A i \in 1..Len(rest) : rest[i].kind \in {"letter", "newline"}

\* No call of the model gets more than maxInputChars, the last one included,
\* however long its own summaries were (compaction.ts:132).
CallsFit == Len(sent) <= MaxChars

\* Nothing of the transcript is left out of the summary before the last cut:
\* not at a split, not at a join, and only blanks are trimmed.
NothingIsLost ==
  /\ phase = "split" => Facts(rest) \cup UNION {Facts(summaries[i]) : i \in 1..Len(summaries)} = Facts(transcript)
  /\ phase \in {"measure", "merge", "done"} /\ ~wasCut => Facts(rest) = Facts(transcript)

\* The compactor comes to its end although a model may answer at any length.
CompactorEnds == <>(phase \in {"done", "failed"})
============================================================================
