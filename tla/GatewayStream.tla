--------------------------- MODULE GatewayStream ---------------------------
(***************************************************************************)
(* How the DeepSeek and OpenAI gateways read a stream of a model's answer. *)
(* The provider has one message, of text and tool calls, and sends it in   *)
(* fragments; it may be cut short by a limit, by an error or by the        *)
(* network at any point, or be malformed.  A fragment is an index into the *)
(* message: what it says is what the message says there.                   *)
(***************************************************************************)
EXTENDS Integers, Sequences, FiniteSets

CONSTANTS Gateways,    \* "deepseek", "openai"
          MaxText,     \* pieces of the longest text
          MaxCalls,    \* tool calls of the longest message
          MaxArguments \* pieces of the arguments of a call

GatewayAssumption ==
  /\ Gateways \subseteq {"deepseek", "openai"}
  /\ MaxText \in Nat /\ MaxCalls \in Nat /\ MaxArguments \in Nat

VARIABLES
  gateway,      \* the gateway that reads
  structured,   \* TRUE: the request has an output schema
  message,      \* the provider's message
  sent,         \* provider: how much of the message it has sent
  calls,        \* DeepSeek: index -> the call put together so far
  content,      \* DeepSeek: the text so far; hasContent when there was any delta
  hasContent,
  finish,       \* DeepSeek: the finish reason, or "none"
  shown,        \* the output deltas given to the runtime
  result,       \* the result of the completed event, or NoResult
  at

wire == <<gateway, structured, message>>
gathered == <<calls, content, hasContent, finish>>
vars == <<wire, sent, gathered, shown, result, at>>

Ids == {"i1", "i2", ""}
NoText == <<0>>
NoResult == [text |-> NoText, calls |-> <<>>]
Pieces(n) == [i \in 1 .. n |-> i]

\* What the provider would say: json tells whether the text parses, shape
\* whether a call's arguments are an object and its name is well formed.
Messages ==
  [text : 0 .. MaxText, json : BOOLEAN, refusal : BOOLEAN,
   calls : UNION {[1 .. n -> [id : Ids, args : 1 .. MaxArguments, shape : BOOLEAN]] : n \in 0 .. MaxCalls}]

Init ==
  /\ gateway \in Gateways /\ structured \in BOOLEAN
  /\ message \in {m \in Messages : m.refusal => gateway = "openai" /\ m.calls = <<>>}
  /\ sent = [text |-> 0, calls |-> [i \in DOMAIN message.calls |-> -1], end |-> "open"]
  /\ calls = <<>> /\ content = <<>> /\ hasContent = FALSE /\ finish = "none"
  /\ shown = <<>> /\ result = NoResult /\ at = "requested"

Fail == at' = "failed" /\ UNCHANGED <<wire, sent, gathered, shown, result>>
Reading(g) == at = "reading" /\ gateway = g

\* The request is answered with an error, or not at all.
Respond ==
  /\ at = "requested"
  /\ at' \in {"reading", "failed"}
  /\ UNCHANGED <<wire, sent, gathered, shown, result>>

\* The network ends the body, the provider sends an error or what is not an
\* event, or the caller aborts.
Break == at = "reading" /\ Fail

----------------------------------------------------------------------------
(* DeepSeek: chunks of one choice                                          *)

\* Mutant of Content: what was gathered is shown again.
ContentSoFar(piece) ==
  /\ hasContent' = TRUE
  /\ content' = content \o piece
  /\ shown' = shown \o content \o piece

\* A content delta, empty ones too, shown at once.
Content(piece) ==
  /\ hasContent' = TRUE
  /\ content' = content \o piece
  /\ shown' = shown \o piece

DeepSeekText ==
  /\ Reading("deepseek") /\ sent.end = "open"
  /\ \/ /\ sent.text < message.text
        /\ Content(<<sent.text + 1>>)
        /\ sent' = [sent EXCEPT !.text = @ + 1]
     \/ /\ ~hasContent
        /\ Content(<<>>)
        /\ UNCHANGED sent
  /\ UNCHANGED <<wire, calls, finish, result, at>>

NewCall == [id |-> "", named |-> FALSE, args |-> <<>>]
CallAt(k) == IF k \in DOMAIN calls THEN calls[k] ELSE NewCall
With(f, k, v) == [x \in DOMAIN f \cup {k} |-> IF x = k THEN v ELSE f[x]]

\* Mutant of CallDelta: every delta is a call of its own.
CallDeltaAppends(k, id, arguments) ==
  /\ calls' = With(calls, Cardinality(DOMAIN calls) + 1,
                   [NewCall EXCEPT !.id = IF id = "absent" THEN "" ELSE id, !.named = TRUE, !.args = arguments])
  /\ UNCHANGED at

\* A delta of one call: the first has its id and name, the others a piece of
\* its arguments, and may repeat the id.  An id may not change.
CallDelta(k, id, arguments) ==
  LET c == CallAt(k) IN
  IF id # "absent" /\ c.id # "" /\ c.id # id
  THEN at' = "failed" /\ UNCHANGED calls
  ELSE /\ calls' = With(calls, k, [c EXCEPT !.id = IF id = "absent" THEN @ ELSE id,
                                           !.named = TRUE, !.args = @ \o arguments])
       /\ UNCHANGED at

DeepSeekCall ==
  /\ Reading("deepseek") /\ sent.end = "open"
  /\ \E k \in DOMAIN message.calls :
       LET told == sent.calls[k] IN
       \/ /\ told = -1
          /\ CallDelta(k, message.calls[k].id, <<>>)
          /\ sent' = [sent EXCEPT !.calls[k] = 0]
       \/ /\ told \in 0 .. message.calls[k].args - 1
          /\ \E id \in {"absent", message.calls[k].id, "other"} :
               /\ id = "other" => message.calls[k].id # ""
               /\ CallDelta(k, id, <<told + 1>>)
          /\ sent' = [sent EXCEPT !.calls[k] = told + 1]
  /\ UNCHANGED <<wire, content, hasContent, finish, shown, result>>

SaidAll == /\ sent.text = message.text
           /\ \A k \in DOMAIN message.calls : sent.calls[k] = message.calls[k].args

\* The finish reason: of a whole message, or "length" of one cut short.
DeepSeekFinish ==
  /\ Reading("deepseek") /\ sent.end \in {"open", "finished"}
  /\ \E reason \in {"stop", "tool_calls", "length"} :
       /\ reason # "length" => SaidAll
       /\ IF finish # "none" /\ finish # reason
          THEN at' = "failed" /\ UNCHANGED finish
          ELSE finish' = reason /\ UNCHANGED at
  /\ sent' = [sent EXCEPT !.end = "finished"]
  /\ UNCHANGED <<wire, calls, content, hasContent, shown, result>>

Indices(f) == DOMAIN f
\* Mutant of InOrder: in the order of arrival, the last first.
InReverse(f) == [i \in 1 .. Cardinality(Indices(f)) |->
                   f[CHOOSE k \in Indices(f) : Cardinality({j \in Indices(f) : j > k}) = i - 1]]

\* The calls in the order of their indices.
InOrder(f) == [i \in 1 .. Cardinality(Indices(f)) |->
                 f[CHOOSE k \in Indices(f) : Cardinality({j \in Indices(f) : j < k}) = i - 1]]

\* Arguments parse when they are all there and the model wrote an object.
Parses(i, args) == message.calls[i].shape /\ Len(args) = message.calls[i].args
GoodCalls(s) ==
  /\ \A i \in DOMAIN s : s[i].id # "" /\ s[i].named /\ Parses(i, s[i].args)
  /\ \A i, j \in DOMAIN s : i # j => s[i].id # s[j].id

TextIsJson(text) == message.json /\ Len(text) = message.text
Result(text, s) == [text |-> text, calls |-> [i \in DOMAIN s |-> [id |-> s[i].id, args |-> s[i].args]]]

\* parseDeepSeekResponse of what was gathered: the text of a turn of tools is
\* not parsed, an empty one is none; without calls a schema wants JSON.
DeepSeekOutput ==
  IF ~hasContent \/ (calls # <<>> /\ structured /\ content = <<>>) THEN NoText ELSE content
\* Mutant of DeepSeekAccepts: a schema wants JSON of every text.
DeepSeekAcceptsJson ==
  /\ finish \in {"stop", "tool_calls"}
  /\ GoodCalls(InOrder(calls))
  /\ (finish = "tool_calls") = (calls # <<>>)
  /\ (hasContent /\ structured) => TextIsJson(content)
  /\ DeepSeekOutput # NoText \/ calls # <<>>

DeepSeekAccepts ==
  /\ finish \in {"stop", "tool_calls"}
  /\ GoodCalls(InOrder(calls))
  /\ (finish = "tool_calls") = (calls # <<>>)
  /\ (hasContent /\ calls = <<>> /\ structured) => TextIsJson(content)
  /\ DeepSeekOutput # NoText \/ calls # <<>>

\* [DONE]: the provider may send it when it has finished; a cut stream
\* without it is Break.
DeepSeekDone ==
  /\ Reading("deepseek") /\ sent.end \in {"open", "finished"}
  /\ sent' = [sent EXCEPT !.end = "done"]
  /\ IF DeepSeekAccepts
     THEN /\ result' = Result(DeepSeekOutput, InOrder(calls))
          /\ at' = "completed"
     ELSE at' = "failed" /\ UNCHANGED result
  /\ UNCHANGED <<wire, gathered, shown>>

----------------------------------------------------------------------------
(* OpenAI: typed events; the last one holds the whole response             *)

OpenAIDelta ==
  /\ Reading("openai") /\ sent.end = "open" /\ sent.text < message.text
  /\ ~message.refusal
  /\ sent' = [sent EXCEPT !.text = @ + 1]
  /\ shown' = Append(shown, sent.text + 1)
  /\ UNCHANGED <<wire, gathered, result, at>>

\* Other events, the deltas of a call's arguments among them, are skipped.
OpenAISkip ==
  /\ Reading("openai") /\ sent.end = "open"
  /\ \E k \in DOMAIN message.calls :
       /\ sent.calls[k] < message.calls[k].args
       /\ sent' = [sent EXCEPT !.calls[k] = @ + 1]
  /\ UNCHANGED <<wire, gathered, shown, result, at>>

Whole == [k \in DOMAIN message.calls |->
            [id |-> message.calls[k].id, named |-> TRUE, args |-> Pieces(message.calls[k].args)]]
OpenAIOutput == IF message.text = 0 \/ message.refusal THEN NoText ELSE Pieces(message.text)

\* Mutant of OpenAIAccepts: a turn without text is no answer.
OpenAIAcceptsText ==
  /\ ~message.refusal
  /\ GoodCalls(Whole)
  /\ (OpenAIOutput # NoText /\ structured) => TextIsJson(OpenAIOutput)
  /\ OpenAIOutput # NoText

\* parseOpenAIResponse of a completed response: a schema wants JSON of every
\* text, the one that comes with calls too.
OpenAIAccepts ==
  /\ ~message.refusal
  /\ GoodCalls(Whole)
  /\ (OpenAIOutput # NoText /\ structured) => TextIsJson(OpenAIOutput)
  /\ OpenAIOutput # NoText \/ Whole # <<>>

OpenAICompleted ==
  /\ Reading("openai") /\ sent.end = "open" /\ SaidAll
  /\ sent' = [sent EXCEPT !.end = "done"]
  /\ IF OpenAIAccepts
     THEN result' = Result(OpenAIOutput, Whole) /\ UNCHANGED at
     ELSE at' = "failed" /\ UNCHANGED result
  /\ UNCHANGED <<wire, gathered, shown>>

\* Mutant of OpenAIIncomplete: what an incomplete response holds is taken.
OpenAITakesIncomplete ==
  /\ Reading("openai") /\ sent.end = "open"
  /\ result' = Result(Pieces(sent.text), <<>>)
  /\ at' = "completed"
  /\ UNCHANGED <<wire, sent, gathered, shown>>

\* response.incomplete or response.failed: never a result.
OpenAIIncomplete ==
  /\ Reading("openai") /\ sent.end = "open"
  /\ Fail

\* The body ends after the completion; a second completion is refused.
OpenAIEnd ==
  /\ Reading("openai") /\ sent.end = "done"
  /\ at' \in {"completed", "failed"}
  /\ UNCHANGED <<wire, sent, gathered, shown, result>>

Next ==
  \/ Respond \/ Break
  \/ DeepSeekText \/ DeepSeekCall \/ DeepSeekFinish \/ DeepSeekDone
  \/ OpenAIDelta \/ OpenAISkip \/ OpenAICompleted \/ OpenAIIncomplete \/ OpenAIEnd

Spec == Init /\ [][Next]_vars

----------------------------------------------------------------------------

TypeOK ==
  /\ sent.text \in 0 .. message.text
  /\ DOMAIN calls \subseteq DOMAIN message.calls
  /\ finish \in {"none", "stop", "tool_calls", "length"}
  /\ at \in {"requested", "reading", "completed", "failed"}
  /\ \A i \in DOMAIN shown : shown[i] \in 1 .. MaxText

\* A result is the whole message: the text and every call, in order, with all
\* of their arguments and ids of their own, however the fragments came.  A
\* stream that was cut, or a message that is malformed, has none.
ResultIsTheMessage ==
  result # NoResult =>
    /\ result.text \in {NoText, Pieces(message.text)}
    /\ result.text = NoText => message.text = 0
    /\ result.calls = [k \in DOMAIN message.calls |->
                         [id |-> message.calls[k].id, args |-> Pieces(message.calls[k].args)]]
    /\ \A i, j \in DOMAIN result.calls : i # j => result.calls[i].id # result.calls[j].id

\* The deltas are a beginning of the text, and all of it when there is a result.
ShownIsTheText ==
  /\ shown = Pieces(Len(shown)) /\ Len(shown) <= message.text
  /\ result # NoResult => Len(shown) = message.text

WellMade ==
  /\ \A k \in DOMAIN message.calls : message.calls[k].shape /\ message.calls[k].id # ""
  /\ \A i, j \in DOMAIN message.calls : i # j => message.calls[i].id # message.calls[j].id
  /\ ~message.refusal
  /\ message.text > 0 \/ message.calls # <<>>
  /\ structured => \/ message.json
                   \/ message.text = 0
                   \/ gateway = "deepseek" /\ message.calls # <<>>

\* A message that is well made and was sent in full, with the finish reason
\* that fits it, is a result.  With a schema the OpenAI gateway wants JSON of
\* the text beside tool calls too, the DeepSeek gateway of the final answer.
WholeAnswersAreResults ==
  LET fits == IF message.calls # <<>> THEN "tool_calls" ELSE "stop" IN
  sent.end = "done" /\ WellMade /\ SaidAll /\ (gateway = "deepseek" => finish = fits)
    => result # NoResult
=============================================================================
