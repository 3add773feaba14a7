--------------------------- MODULE ContextDigest ---------------------------
(***************************************************************************)
(* A prompt that outgrows its budget, and the digest that replaces the     *)
(* older part of it: resolveContextBudget, estimateContextTokens and       *)
(* createDigestContextCompactor of packages/fevex/src/runtime/             *)
(* compaction.ts, and the accounts of compactContext around them           *)
(* (internal/context-compaction.ts).  A text is its length in characters,  *)
(* a fraction is in hundredths.  Which messages are older is AgentLoop's.  *)
(***************************************************************************)
EXTENDS Integers, Sequences, SequencesExt

CONSTANTS Budgets,      \* budgets of agents; targetTokens 0 stands for none
          Olds,         \* older parts of a prompt: sequences of messages
          Preserveds,   \* sizes of the rest of a prompt, its tools included
          MaxChars      \* characters kept of one message at first

DigestAssumption == MaxChars \in Nat /\ MaxChars >= 40

VARIABLES prompt,   \* the prompt: its older messages, the size of the rest, its budget
          phase,    \* how far compactContext is
          keep,     \* characters kept of a message
          lines,    \* the lines of the digest
          digest    \* the size of the digest that is returned

vars == <<prompt, phase, keep, lines, digest>>

Larger(a, b) == IF a < b THEN b ELSE a
Smaller(a, b) == IF a < b THEN a ELSE b
CeilDiv(a, b) == (a + b - 1) \div b
SumOf(Size(_), seq) == FoldLeft(LAMBDA sum, x : sum + Size(x), 0, seq)

----------------------------------------------------------------------------
(* Budgets and estimates.                                                  *)

Usable(b) == b.contextWindow - b.reserve

ResolveContextBudget(b) ==
  IF b.targetTokens # 0 THEN b
  ELSE [b EXCEPT !.targetTokens = Larger(1, (Usable(b) * Smaller(500, 9 * b.compactAt)) \div 1000)]

\* A budget that is not refused, its default target included.
Valid(b) ==
  /\ b.contextWindow > 0 /\ b.reserve \in 0..b.contextWindow - 1
  /\ b.compactAt \in 1..100 /\ b.safetyFactor \in 100..200
  /\ LET target == ResolveContextBudget(b).targetTokens
     IN target \in 1..Usable(b) - 1 /\ target <= (Usable(b) * b.compactAt) \div 100

RoleSize == [user |-> 4, assistant |-> 9, tool |-> 4]
CallSize(input) == input + 30
MessageSize(m) ==
  RoleSize[m.role] + m.content + 16 + (IF m.calls = <<>> THEN 0 ELSE 1 + SumOf(CallSize, m.calls))

EstimateContextTokens(chars) == Larger(1, CeilDiv(chars, 4))
Estimate(chars) == CeilDiv(EstimateContextTokens(chars) * prompt.budget.safetyFactor, 100)

Rest == prompt.preserved
Estimated == Estimate(Rest + SumOf(MessageSize, prompt.old))
Threshold == (Usable(prompt.budget) * prompt.budget.compactAt) \div 100

\* The tokens the digest may have.
Target == Larger(1, Smaller(prompt.budget.targetTokens, Usable(prompt.budget) - 1) - Estimate(Rest))

----------------------------------------------------------------------------
(* The lines of a digest.                                                  *)

LabelSize == [user |-> 6, assistant |-> 11, tool |-> 13]
Line(i, size) == [of |-> i, size |-> size]

DigestMessage(i, max) ==
  LET m == prompt.old[i]
      calls == [c \in 1..Len(m.calls) |-> Line(i, 13 + Smaller(m.calls[c], Smaller(max, 200)))]
  IN (IF m.content = 0 THEN <<>> ELSE <<Line(i, LabelSize[m.role] + Smaller(m.content, max))>>) \o calls

LinesAt(max) == FlattenSeq([i \in 1..Len(prompt.old) |-> DigestMessage(i, max)])

\* The heading tells how many messages have no line, counting a line for each.
DigestContent(ls) ==
  (IF Len(prompt.old) > Len(ls) THEN 55 ELSE 44) + SumOf(LAMBDA l : l.size + 1, ls)

SystemSize(content) == 6 + content + 16
DigestTokens(ls) == Estimate(SystemSize(DigestContent(ls)))

----------------------------------------------------------------------------
Init ==
  /\ \E b \in {b \in Budgets : Valid(b)}, old \in Olds, preserved \in Preserveds :
       prompt = [old |-> old, preserved |-> preserved, budget |-> ResolveContextBudget(b)]
  /\ phase = "begin" /\ keep = MaxChars /\ lines = <<>> /\ digest = 0

\* Nothing to do, or nothing that can be done.
LeaveAlone ==
  /\ phase = "begin"
  /\ Estimated <= Threshold \/ prompt.old = <<>>
  /\ phase' = IF Estimated > Usable(prompt.budget) THEN "exceeded" ELSE "sent"
  /\ UNCHANGED <<prompt, keep, lines, digest>>

Begin ==
  /\ phase = "begin" /\ Estimated > Threshold /\ prompt.old # <<>>
  /\ phase' = "shorten" /\ lines' = LinesAt(keep)
  /\ UNCHANGED <<prompt, keep, digest>>

\* MUTANT of Shorter: the smallest length of a message is never reached.
ShorterOnly == Larger(41, (keep * 7) \div 10)

Shorter == Larger(40, (keep * 7) \div 10)

\* All messages lose the end of their text first.
Shorten ==
  /\ phase = "shorten" /\ DigestTokens(lines) > Target /\ keep > 40
  /\ keep' = Shorter /\ lines' = LinesAt(Shorter)
  /\ UNCHANGED <<prompt, phase, digest>>

\* MUTANT of DropOldest: lines are dropped before they are as short as can be.
DropEarly ==
  /\ phase = "shorten" /\ DigestTokens(lines) > Target /\ keep <= 100 /\ Len(lines) > 1
  /\ lines' = Tail(lines)
  /\ UNCHANGED <<prompt, phase, keep, digest>>

\* Then the oldest lines go.
DropOldest ==
  /\ phase = "shorten" /\ DigestTokens(lines) > Target /\ keep <= 40 /\ Len(lines) > 1
  /\ lines' = Tail(lines)
  /\ UNCHANGED <<prompt, phase, keep, digest>>

\* MUTANT of Limit: tokens are taken for characters of four bytes, twice.
LimitOfBytes == Larger(80, Target * 16)

Limit == Larger(80, Target * 4)

Compacted(size) == Estimate(Rest + SystemSize(size))

\* MUTANT of Finish: a digest is done when its messages are short.
FinishEarly ==
  /\ phase = "shorten"
  /\ DigestTokens(lines) <= Target \/ keep <= 40
  /\ digest' = Smaller(DigestContent(lines), Limit)
  /\ phase' = IF Compacted(digest') > Usable(prompt.budget) THEN "exceeded" ELSE "compacted"
  /\ UNCHANGED <<prompt, keep, lines>>

\* What is left is cut, and the new prompt is measured.
Finish ==
  /\ phase = "shorten"
  /\ DigestTokens(lines) <= Target \/ (keep <= 40 /\ Len(lines) <= 1)
  /\ digest' = Smaller(DigestContent(lines), Limit)
  /\ phase' = IF Compacted(digest') > Usable(prompt.budget) THEN "exceeded" ELSE "compacted"
  /\ UNCHANGED <<prompt, keep, lines>>

Next == LeaveAlone \/ Begin \/ Shorten \/ DropOldest \/ Finish
Spec == Init /\ [][Next]_vars

\* The loop has no wait in it: it goes on until it ends.
FairSpec == Spec /\ WF_vars(Next)
----------------------------------------------------------------------------
(* Properties.                                                             *)

\* The variables have their types.
TypeOK ==
  /\ phase \in {"begin", "shorten", "sent", "compacted", "exceeded"}
  /\ keep \in 40..MaxChars
  /\ \A i \in 1..Len(lines) : lines[i].of \in 1..Len(prompt.old) /\ lines[i].size \in 1..MaxChars + 13
  /\ digest \in 0..Larger(80, 4 * Target)

\* What the digest leaves out is older than what it keeps, and it leaves lines
\* out only when all of them, at their shortest, were too many.
NewestAreKept ==
  phase \in {"shorten", "compacted"} =>
    /\ IsSuffix(lines, LinesAt(keep))
    /\ Len(lines) < Len(LinesAt(keep)) => DigestTokens(LinesAt(40)) > Target /\ lines # <<>>

\* After a compaction that keeps more than one line the prompt is below the
\* threshold, so that the next step of the run has no need of another: two estimates added
\* are never less than the estimate of the sum.
CompactionSettles ==
  phase = "compacted" /\ Len(lines) > 1 => Compacted(digest) <= Threshold

\* A prompt that fits the window is never refused: a run fails only when what is
\* preserved is too long (knowledge.md:138, "If the latest batch alone exceeds").
FittingPromptsAreSent == phase = "exceeded" => Estimated > Usable(prompt.budget)

\* A compaction comes to its end, whatever its messages and its target are.
CompactionEnds == <>(phase \in {"sent", "compacted", "exceeded"})
============================================================================
