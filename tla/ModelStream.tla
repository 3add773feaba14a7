---------------------------- MODULE ModelStream -----------------------------
(***************************************************************************)
(* readModelStream of packages/fevex/src/internal/model-stream.ts: the     *)
(* generator between a model gateway and a run.  The gateway answers one   *)
(* request of the reader at a time with some characters, with its result,  *)
(* with its end, an error or nonsense.  The reader hands the first         *)
(* characters on at once and the others in chunks: when MaxDeltaChars are  *)
(* there or when the buffer has aged MaxDeltaDelay, whichever is first, so *)
(* that a race between the gateway and a timer decides.  The run takes a   *)
(* chunk when it has written its event; it may drop the generator instead. *)
(*                                                                         *)
(* A character is its place in the output.                                 *)
(***************************************************************************)
EXTENDS Naturals, Sequences, SequencesExt

CONSTANTS MaxDeltaChars, MaxDeltaDelay,
          MaxText      \* bound on the characters of an output

ModelStreamAssumption ==
  MaxDeltaChars \in Nat \ {0} /\ MaxDeltaDelay \in Nat /\ MaxText \in Nat

VARIABLES pc,          \* where the generator is: loop, await, yield or ended
          pending,     \* the request of the gateway: none, asked or the answer
          completed,   \* the gateway's result, once it came
          outputText, buffer, firstDelta,
          age,         \* time since bufferedAt, at most MaxDeltaDelay; Unset for 0
          chunk, after, \* the chunk being yielded and where the generator goes on
          chunks,      \* the chunks the run has taken
          waiting      \* time the oldest buffered character has waited for the gateway

vars == <<pc, pending, completed, outputText, buffer, firstDelta, age, chunk, after, chunks, waiting>>

Unset == [set |-> FALSE, time |-> 0]
Since(t) == [set |-> TRUE, time |-> t]

NoResult == [output |-> "none", says |-> <<>>]
Item(type, text, result) == [type |-> type, text |-> text, result |-> result]
NoItem == Item("none", <<>>, NoResult)
Asked == Item("asked", <<>>, NoResult)

Taken == FlattenSeq(chunks)

(* takeCharacters. *)
Head1(text) == SubSeq(text, 1, IF Len(text) < MaxDeltaChars THEN Len(text) ELSE MaxDeltaChars)
Rest1(text) == SubSeq(text, Len(Head1(text)) + 1, Len(text))

Init ==
  /\ pc = "loop" /\ after = "loop" /\ pending = NoItem /\ completed = NoItem
  /\ outputText = <<>> /\ buffer = <<>> /\ firstDelta = TRUE /\ age = Unset
  /\ chunk = <<>> /\ chunks = <<>> /\ waiting = 0

-----------------------------------------------------------------------------
(* The gateway: asked for an item it gives one, at its own time or never.  *)
Next1(text, n) == [i \in 1 .. n |-> Len(text) + i]
Results == [output : {"text", "json"}, says : {outputText, Next1(<<>>, Len(outputText) + 1)}] \cup {NoResult}
Answers ==
  {Item("delta", Next1(outputText, n), NoResult) : n \in 0 .. MaxText - Len(outputText)}
  \cup {Item("completed", <<>>, r) : r \in Results}
  \cup {Item(t, <<>>, NoResult) : t \in {"done", "error", "malformed"}}

GatewayAnswers ==
  /\ pending = Asked
  /\ pending' \in Answers
  /\ UNCHANGED <<pc, completed, outputText, buffer, firstDelta, age, chunk, after, chunks, waiting>>

(* The caller's signal settles a request that the gateway has not answered. *)
Abort ==
  /\ pending = Asked
  /\ pending' = Item("error", <<>>, NoResult)
  /\ UNCHANGED <<pc, completed, outputText, buffer, firstDelta, age, chunk, after, chunks, waiting>>

-----------------------------------------------------------------------------
(* The generator. *)
YieldChunk(text, rest, then, newAge) ==
  /\ chunk' = text /\ buffer' = rest /\ after' = then /\ age' = newAge
  /\ pc' = "yield" /\ waiting' = 0

(* Mutant: an error drops the buffer. *)
FailAtOnce ==
  /\ pc' = "failed" /\ buffer' = <<>>
  /\ UNCHANGED <<completed, outputText, firstDelta, chunks, chunk, after, age, waiting>>

(* catch: what is buffered goes out before the error. *)
Fail ==
  /\ IF buffer = <<>>
     THEN pc' = "failed" /\ UNCHANGED <<chunk, buffer, after, age, waiting>>
     ELSE YieldChunk(buffer, <<>>, "failed", age)
  /\ UNCHANGED <<completed, outputText, firstDelta, chunks>>

FullChunk ==
  /\ pc = "loop" /\ Len(buffer) >= MaxDeltaChars
  /\ YieldChunk(Head1(buffer), Rest1(buffer), "loop", Since(0))
  /\ UNCHANGED <<pending, completed, outputText, firstDelta, chunks>>

(* pending ??= next(): a flush leaves the request that is out. *)
AskGateway ==
  /\ pc = "loop" /\ Len(buffer) < MaxDeltaChars
  /\ pc' = "await"
  /\ pending' = IF pending = NoItem THEN Asked ELSE pending
  /\ UNCHANGED <<completed, outputText, buffer, firstDelta, age, chunk, after, chunks, waiting>>

(* Mutant: only a full buffer is flushed. *)
FlushWhenFull == pc = "await" /\ Len(buffer) >= MaxDeltaChars

FlushDue == pc = "await" /\ buffer # <<>> /\ (age.set => age.time = MaxDeltaDelay)

Flush ==
  /\ FlushDue /\ pending = Asked
  /\ YieldChunk(buffer, <<>>, "loop", Unset)
  /\ UNCHANGED <<pending, completed, outputText, firstDelta, chunks>>

Answered(type) == pc = "await" /\ pending.type = type /\ pending' = NoItem

(* Mutant: JSON output is not compared. *)
ConsistentText(result) ==
  CASE result.output = "none" -> outputText = <<>>
    [] result.output = "text" -> result.says = outputText
    [] result.output = "json" -> outputText # <<>>

(* assertConsistentOutput. *)
Consistent(result) ==
  CASE result.output = "none" -> outputText = <<>>
    [] result.output = "text" -> result.says = outputText
    [] result.output = "json" -> outputText # <<>> /\ result.says = outputText

ReadDone ==
  /\ Answered("done")
  /\ IF completed # NoItem /\ Consistent(completed.result)
     THEN /\ pc' = "returned"
          /\ UNCHANGED <<completed, outputText, buffer, firstDelta, age, chunk, after, chunks, waiting>>
     ELSE Fail

ReadError == (Answered("error") \/ Answered("malformed")) /\ Fail

ReadAfterCompleted ==
  /\ completed # NoItem
  /\ Answered("delta") \/ Answered("completed")
  /\ Fail

(* Mutant: the result overtakes the buffer. *)
ReadCompletedOnly ==
  /\ completed = NoItem /\ Answered("completed")
  /\ completed' = [pending EXCEPT !.type = "wrong"] /\ pc' = "completed"
  /\ UNCHANGED <<outputText, firstDelta, chunks, chunk, buffer, after, age, waiting>>

ReadCompleted ==
  /\ completed = NoItem /\ Answered("completed")
  /\ completed' = pending
  /\ IF buffer = <<>>
     THEN pc' = "loop" /\ UNCHANGED <<chunk, buffer, after, age, waiting>>
     ELSE YieldChunk(buffer, <<>>, "loop", Unset)
  /\ UNCHANGED <<outputText, firstDelta, chunks>>

(* Mutants: the first characters go out whole; each arrival restarts the delay. *)
ReadDeltaWhole ==
  /\ completed = NoItem /\ Answered("delta")
  /\ LET text == buffer \o pending.text IN
     /\ outputText' = outputText \o pending.text
     /\ firstDelta' = (firstDelta /\ pending.text = <<>>)
     /\ IF pending.text # <<>> /\ firstDelta
        THEN YieldChunk(text, <<>>, "loop", Since(0))
        ELSE buffer' = text /\ pc' = "loop" /\ age' = Since(0) /\ UNCHANGED <<chunk, after, waiting>>
  /\ UNCHANGED <<completed, chunks>>

ReadDelta ==
  /\ completed = NoItem /\ Answered("delta")
  /\ LET text == buffer \o pending.text IN
     /\ outputText' = outputText \o pending.text
     /\ firstDelta' = (firstDelta /\ pending.text = <<>>)
     /\ IF pending.text # <<>> /\ firstDelta
        THEN YieldChunk(Head1(text), Rest1(text), "loop", Since(0))
        ELSE /\ buffer' = text /\ pc' = "loop"
             /\ age' = IF pending.text = <<>> \/ age.set THEN age ELSE Since(0)
             /\ UNCHANGED <<chunk, after, waiting>>
  /\ UNCHANGED <<completed, chunks>>

(* The run emits model.output.delta and asks for more, or it returns.      *)
TakeChunk ==
  /\ pc = "yield"
  /\ chunks' = Append(chunks, chunk) /\ chunk' = <<>> /\ pc' = after
  /\ UNCHANGED <<pending, completed, outputText, buffer, firstDelta, age, after, waiting>>

DropStream ==
  /\ pc = "yield" /\ pc' = "dropped"
  /\ UNCHANGED <<pending, completed, outputText, buffer, firstDelta, age, chunk, after, chunks, waiting>>

(* Time passes while the run writes an event and while the gateway is      *)
(* awaited, until a timer that is due fires.                               *)
Tick ==
  /\ pc = "yield" \/ (pc = "await" /\ pending = Asked /\ ~FlushDue)
  /\ waiting' = IF pc = "yield" \/ buffer = <<>> \/ waiting > MaxDeltaDelay THEN waiting ELSE waiting + 1
  /\ age' = IF age.set /\ age.time < MaxDeltaDelay THEN Since(age.time + 1) ELSE age
  /\ UNCHANGED <<pc, pending, completed, outputText, buffer, firstDelta, chunk, after, chunks>>

Generator ==
  \/ FullChunk \/ AskGateway \/ Flush \/ ReadDone \/ ReadError \/ ReadAfterCompleted
  \/ ReadCompleted \/ ReadDelta
Next == Generator \/ GatewayAnswers \/ Abort \/ TakeChunk \/ DropStream \/ Tick

Spec == Init /\ [][Next]_vars
(* The event loop runs the generator, its timer and the run; the gateway   *)
(* owes nothing, but it does not win against a due timer for ever (it could *)
(* with an endless train of empty deltas).                                 *)
FairSpec == Spec /\ WF_vars(Generator) /\ WF_vars(TakeChunk) /\ SF_vars(Tick) /\ SF_vars(Flush)

-----------------------------------------------------------------------------
(* Where the generator may be, and what it holds there.                    *)
TypeOK ==
  /\ pc \in {"loop", "await", "yield", "returned", "failed", "dropped"} /\ after \in {"loop", "failed"}
  /\ pending.type \in {"none", "asked", "delta", "completed", "done", "error", "malformed"}
  /\ Len(outputText) <= MaxText /\ firstDelta \in BOOLEAN
  /\ age \in [set : BOOLEAN, time : 0 .. MaxDeltaDelay]

(* Every character the gateway sent is taken, being handed on or buffered, *)
(* once and in order, whichever of timer, size, end or error sends it on;  *)
(* a stream that returned or failed holds nothing back.                    *)
NothingIsLost ==
  /\ pc # "dropped" => Taken \o chunk \o buffer = outputText
  /\ pc \in {"returned", "failed"} => Taken = outputText

(* No event carries more than MaxDeltaChars characters, or none.           *)
ChunksAreBounded == \A i \in DOMAIN chunks : Len(chunks[i]) \in 1 .. MaxDeltaChars

(* While the gateway thinks, no character waits longer than MaxDeltaDelay. *)
DelayIsBounded == waiting <= MaxDeltaDelay

(* A result is returned only for a stream whose events carry it: what the  *)
(* run stores as output is what its listeners were shown.                  *)
SuccessIsTheEvents ==
  pc = "returned" => \/ completed.result.says = Taken
                     \/ completed.result.output = "none" /\ Taken = <<>>

(* Text that arrived is shown though the gateway never answers again.      *)
TextIsShown ==
  \A n \in 1 .. MaxText : (Len(outputText) >= n) ~> (Len(Taken) >= n \/ pc = "dropped")
=============================================================================
