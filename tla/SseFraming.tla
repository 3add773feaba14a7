----------------------------- MODULE SseFraming -----------------------------
(***************************************************************************)
(* The three readers of server-sent events: the one of the model gateways  *)
(* (readSSE), of the MCP adapter (readSse) and of the HTTP client          *)
(* (parseEventStream).  A wire is a sequence of pieces of text and line    *)
(* ends that the network cuts into chunks where it likes.  "d" and "e"     *)
(* stand for text that opens a data line, "c" for other text; the JSON     *)
(* that is sent has no bare carriage return.                               *)
(***************************************************************************)
EXTENDS Naturals, Sequences, SequencesExt

CONSTANTS Readers,    \* which readers read: "gateway", "mcp", "client"
          MaxLength   \* pieces of the longest wire

SseAssumption == Readers \subseteq {"gateway", "mcp", "client"} /\ MaxLength \in Nat

VARIABLES reader, wire, pos, buffer, out, at
vars == <<reader, wire, pos, buffer, out, at>>

CR == "r"
LF == "n"
Texts == {"d", "e", "c"}
Pieces == Texts \cup {CR, LF}
OpensData(line) == line # <<>> /\ line[1] \in {"d", "e"}

LineEnds(w) == \A i \in 1 .. Len(w) : w[i] = CR => i < Len(w) /\ w[i + 1] = LF
\* The server of the HTTP client ends lines with LF; a proxy may rewrite all.
OneLineEnd(w) == LET ends == {i \in 1 .. Len(w) : w[i] = LF} IN
  \/ \A i \in ends : i = 1 \/ w[i - 1] # CR
  \/ \A i \in ends : i > 1 /\ w[i - 1] = CR
Wires(r) == {w \in UNION {[1 .. n -> Pieces] : n \in 0 .. MaxLength} :
               LineEnds(w) /\ (r = "client" => OneLineEnd(w))}

Init ==
  /\ reader \in Readers
  /\ wire \in Wires(reader)
  /\ pos = 0 /\ buffer = <<>> /\ out = <<>> /\ at = "reading"

----------------------------------------------------------------------------

Drop(s, n) == SubSeq(s, n + 1, Len(s))
First(s, n) == SubSeq(s, 1, n)
StartsAt(s, i, t) == i + Len(t) - 1 <= Len(s) /\ SubSeq(s, i, i + Len(t) - 1) = t

\* Lines of a frame: split at LF, a CR before it goes with it.
SplitLines(s) ==
  LET step(acc, p) ==
        LET last == acc[Len(acc)] IN
        IF p = LF THEN Append(acc, <<>>)
        ELSE [acc EXCEPT ![Len(acc)] = Append(last, p)]
      bare(line) == IF line # <<>> /\ line[Len(line)] = CR THEN First(line, Len(line) - 1) ELSE line
      lines == FoldLeft(step, << <<>> >>, s)
  IN [i \in 1 .. Len(lines) |-> IF i < Len(lines) THEN bare(lines[i]) ELSE lines[i]]

\* The data of a frame: its data lines; every caller skips a frame without.
Data(frame) == SelectSeq(SplitLines(frame), OpensData)
\* Mutant of Yield: a frame without data is an event.
YieldAll(frame) == <<Data(frame)>>

Yield(frame) == IF Data(frame) = <<>> THEN <<>> ELSE <<Data(frame)>>

\* Where the first blank line is, and how long: [at, length], or none.
NoBoundary == [at |-> 0, length |-> 0]
BlankLines == {<<LF, LF>>, <<LF, CR, LF>>, <<CR, LF, LF>>, <<CR, LF, CR, LF>>}

Earliest(s, blanks) ==
  LET found == UNION {{[at |-> i, length |-> Len(b)] : b \in {x \in blanks : StartsAt(s, i, x)}}
                        : i \in 1 .. Len(s)}
  IN IF found = {} THEN NoBoundary
     ELSE CHOOSE f \in found : \A g \in found : f.at < g.at \/ (f.at = g.at /\ f.length >= g.length)

\* The regular expression of the gateways: \r?\n\r?\n.
TakeFrame(s) == Earliest(s, BlankLines)

\* The client looks for both line ends and takes the earlier.
FindBoundary(s) ==
  LET lf == Earliest(s, {<<LF, LF>>})
      crlf == Earliest(s, {<<CR, LF, CR, LF>>})
  IN IF crlf # NoBoundary /\ (lf = NoBoundary \/ crlf.at < lf.at) THEN crlf ELSE lf

\* The MCP adapter rewrites CRLF in what it has, then looks for two LF.
Rewritten(s) ==
  LET kept == {i \in 1 .. Len(s) : ~StartsAt(s, i, <<CR, LF>>)}
  IN FoldLeft(LAMBDA acc, i : IF i \in kept THEN Append(acc, s[i]) ELSE acc, <<>>, [i \in 1 .. Len(s) |-> i])

Boundary(s) ==
  CASE reader = "gateway" -> TakeFrame(s)
    [] reader = "client" -> FindBoundary(s)
    [] reader = "mcp" -> Earliest(s, {<<LF, LF>>})

\* The loop that takes every whole frame out of the buffer.
TakeAll(s) ==
  LET take[t \in Seq(Pieces)] ==
        LET b == Boundary(t) IN
        IF b = NoBoundary THEN [left |-> t, taken |-> <<>>]
        ELSE LET rest == take[Drop(t, b.at + b.length - 1)]
             IN [rest EXCEPT !.taken = Yield(First(t, b.at - 1)) \o @]
  IN take[s]

\* Mutant of Chunk: one frame of a chunk is taken, the others wait.
ChunkTakesOne ==
  /\ at = "reading" /\ pos < Len(wire)
  /\ \E n \in pos + 1 .. Len(wire) :
       LET more == buffer \o SubSeq(wire, pos + 1, n)
           all == IF reader = "mcp" THEN Rewritten(more) ELSE more
           b == Boundary(all)
       IN /\ pos' = n
          /\ buffer' = IF b = NoBoundary THEN all ELSE Drop(all, b.at + b.length - 1)
          /\ out' = IF b = NoBoundary THEN out ELSE out \o Yield(First(all, b.at - 1))
  /\ UNCHANGED <<reader, wire, at>>

\* A chunk of any length arrives.
Chunk ==
  /\ at = "reading" /\ pos < Len(wire)
  /\ \E n \in pos + 1 .. Len(wire) :
       LET all == buffer \o SubSeq(wire, pos + 1, n)
           got == TakeAll(IF reader = "mcp" THEN Rewritten(all) ELSE all)
       IN /\ pos' = n
          /\ buffer' = got.left
          /\ out' = out \o got.taken
  /\ UNCHANGED <<reader, wire, at>>

\* The body ends: a gateway reads what is left as a frame.
EndGateway ==
  /\ reader = "gateway"
  /\ out' = out \o Yield(buffer)
  /\ at' = "ended"

\* The MCP adapter drops it.
EndMcp ==
  /\ reader = "mcp"
  /\ at' = "ended"
  /\ UNCHANGED out

\* Mutant of EndClient: what is left is ignored.
EndClientQuietly ==
  /\ reader = "client"
  /\ at' = "ended"
  /\ UNCHANGED out

\* The client refuses it, unless it is white space.
EndClient ==
  /\ reader = "client"
  /\ at' = IF \E i \in 1 .. Len(buffer) : buffer[i] \in Texts THEN "failed" ELSE "ended"
  /\ UNCHANGED out

End ==
  /\ at = "reading" /\ pos = Len(wire)
  /\ EndGateway \/ EndMcp \/ EndClient
  /\ buffer' = <<>>
  /\ UNCHANGED <<reader, wire, pos>>

Next == Chunk \/ End
Spec == Init /\ [][Next]_vars

----------------------------------------------------------------------------
(* The reference: the wire is read line by line, a blank line ends an event. *)

Lines(s) == LET all == SplitLines(s) IN First(all, Len(all) - 1)
Unfinished(s) == LET all == SplitLines(s) IN all[Len(all)]

ReadLine(acc, line) ==
  IF line = <<>>
  THEN [events |-> IF acc.data = <<>> THEN acc.events ELSE Append(acc.events, acc.data), data |-> <<>>]
  ELSE [acc EXCEPT !.data = IF OpensData(line) THEN Append(@, line) ELSE @]
ByLines(s) == FoldLeft(ReadLine, [events |-> <<>>, data |-> <<>>], Lines(s))
LastData(s) == LET read == ReadLine(ByLines(s), Unfinished(s))
               IN IF Unfinished(s) = <<>> THEN ByLines(s).data ELSE read.data

TypeOK ==
  /\ pos \in 0 .. Len(wire) /\ buffer \in Seq(Pieces)
  /\ at \in {"reading", "ended", "failed"}
  /\ \A i \in 1 .. Len(out) : out[i] # <<>>

\* Whatever the chunks, what has been given is what a reader of lines finds
\* in what has arrived: no event is cut, joined with the next, or held back.
EventsAreTheLines == at = "reading" => out = ByLines(First(wire, pos)).events

\* At the end: the gateways read an unfinished event as well, the MCP
\* adapter drops it and the client fails, so that a cut stream is no success.
EndsAreTold ==
  at # "reading" =>
    LET whole == ByLines(wire).events IN
    IF reader = "gateway" /\ LastData(wire) # <<>> THEN out = Append(whole, LastData(wire))
    ELSE /\ out = whole
         /\ reader = "client" => (LastData(wire) # <<>> => at = "failed")
=============================================================================
