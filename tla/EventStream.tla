---------------------------- MODULE EventStream -----------------------------
(***************************************************************************)
(* Observation of a run over server-sent events: observeEvents and         *)
(* iteratorStream of packages/fevex/src/http/transport.ts, the copying     *)
(* loop of examples/nest-api/src/agents.controller.ts and a client that    *)
(* reconnects with Last-Event-ID.                                          *)
(*                                                                         *)
(* The store commits the status of the run together with the event that    *)
(* changes it.  A stream reads a page, sends its events one by one, reads  *)
(* the status, waits unless the page was full, and reads on from its       *)
(* cursor; it gives up after two empty pages of a run that is not running. *)
(* A slow reader holds back a stream; a stream holds one of the host's     *)
(* connections until it ends, fails or its client goes away.               *)
(***************************************************************************)
EXTENDS Naturals, Sequences, FiniteSets

CONSTANTS Clients, NoClient,
          Streams, NoStream, \* requests the host may be serving at a time
          MaxConnections,   \* the host's limit on open streams
          PageSize,         \* eventPageSize
          MaxEvents,        \* bound on the events of the run
          MaxDrops          \* bound on lost connections, for each client

EventStreamAssumption ==
  /\ MaxConnections \in Nat \ {0} /\ PageSize \in Nat \ {0}
  /\ MaxEvents \in Nat /\ MaxDrops \in Nat

VARIABLES log,          \* the kinds of the run's events; an event's id is its place
          server,       \* the handler and the generator of each stream
          wire,         \* what was sent on each stream and not yet received
          client,       \* what each client has received, and its open stream
          connections,  \* activeConnections
          drops

vars == <<log, server, wire, client, connections, drops>>

Kinds == {"event", "paused", "resumed", "ended"}
StatusAfter(kind) == CASE kind = "paused" -> "paused" [] kind = "ended" -> "ended" [] OTHER -> "running"
Status == IF log = <<>> THEN "running" ELSE StatusAfter(log[Len(log)])

(* listEvents(runId, { after, limit }): ids in order from the cursor. *)
Least(a, b) == IF a < b THEN a ELSE b
Page(after) == [i \in 1 .. Least(PageSize, Len(log) - after) |-> after + i]

Frame(id) == [kind |-> "event", id |-> id]
Word(word) == [kind |-> word, id |-> 0]

Gone == [at |-> "gone", client |-> NoClient, pending |-> <<>>, sent |-> 0, cursor |-> 0, empties |-> 0]
Idle == [state |-> "idle", stream |-> NoStream, received |-> <<>>]

Init ==
  /\ log = <<>>
  /\ server = [s \in Streams |-> Gone]
  /\ wire = [s \in Streams |-> <<>>]
  /\ client = [c \in Clients |-> Idle]
  /\ connections = 0
  /\ drops = [c \in Clients |-> 0]

-----------------------------------------------------------------------------
(* The run. *)
Append1(kind) == log' = Append(log, kind) /\ UNCHANGED <<server, wire, client, connections, drops>>
EmitEvent == Status = "running" /\ Len(log) < MaxEvents /\ Append1("event")
Pause     == Status = "running" /\ Len(log) < MaxEvents /\ Append1("paused")
Resume    == Status = "paused" /\ Len(log) < MaxEvents /\ Append1("resumed")
End       == Status # "ended" /\ Append1("ended")

-----------------------------------------------------------------------------
(* The client.  A reply or the end of a stream travels behind its events.  *)
LastReceived(c) ==
  IF client[c].received = <<>> THEN 0 ELSE client[c].received[Len(client[c].received)]
HeardTheEnd(c) == \E i \in DOMAIN client[c].received : log[client[c].received[i]] = "ended"

(* observeRun from the last event seen; nobody asks after the end. *)
Connect(c) ==
  /\ client[c].state = "idle" /\ ~HeardTheEnd(c)
  /\ \E s \in Streams :
       /\ server[s] = Gone /\ \A d \in Clients : client[d].stream # s
       /\ client' = [client EXCEPT ![c].state = "open", ![c].stream = s]
       /\ server' = [server EXCEPT ![s] =
            [Gone EXCEPT !.at = "reading", !.client = c, !.cursor = LastReceived(c)]]
       /\ wire' = [wire EXCEPT ![s] = <<>>]
  /\ UNCHANGED <<log, connections, drops>>

Leave(c, state) == client' = [client EXCEPT ![c].state = state, ![c].stream = NoStream]

Receive(c) ==
  LET s == client[c].stream IN
  /\ client[c].state = "open" /\ wire[s] # <<>>
  /\ wire' = [wire EXCEPT ![s] = Tail(@)]
  /\ CASE Head(wire[s]).kind = "end"                    -> Leave(c, "closed")
       [] Head(wire[s]).kind \in {"error", "refused"}   -> Leave(c, "idle")
       [] OTHER -> client' = [client EXCEPT ![c].received = Append(@, Head(wire[s]).id)]
  /\ UNCHANGED <<log, server, connections, drops>>

(* A client whose stream ended asks again when it expects more. *)
Reopen(c) ==
  /\ client[c].state = "closed" /\ ~HeardTheEnd(c)
  /\ client' = [client EXCEPT ![c].state = "idle"]
  /\ UNCHANGED <<log, server, wire, connections, drops>>

-----------------------------------------------------------------------------
(* The handler.  finish() gives the connection back, once. *)
Holding(s) == server[s].at \in {"sending", "status", "waiting", "listing"}
Released(s) == IF Holding(s) THEN connections - 1 ELSE connections
Close(s, word) ==
  /\ server' = [server EXCEPT ![s] = Gone]
  /\ wire' = [wire EXCEPT ![s] = Append(@, Word(word))]
  /\ connections' = Released(s)
Goto(s, where) ==
  /\ server' = [server EXCEPT ![s].at = where]
  /\ UNCHANGED <<wire, connections>>

(* The initial page is read before the limit is looked at. *)
ReadInitial(s) ==
  /\ server[s].at = "reading"
  /\ server' = [server EXCEPT ![s].at = "opening", ![s].pending = Page(server[s].cursor)]
  /\ UNCHANGED <<log, wire, client, connections, drops>>

(* Mutant: the limit is checked before the reads and counted after them. *)
OpenUnchecked(s) ==
  /\ server[s].at = "opening"
  /\ connections' = connections + 1
  /\ server' = [server EXCEPT ![s].at = "sending"]
  /\ UNCHANGED <<log, wire, client, drops>>

Open(s) ==
  /\ server[s].at = "opening"
  /\ IF connections >= MaxConnections
     THEN Close(s, "refused")
     ELSE /\ connections' = connections + 1
          /\ server' = [server EXCEPT ![s].at = "sending"]
          /\ UNCHANGED wire
  /\ UNCHANGED <<log, client, drops>>

(* One frame is queued at a time: the next is pulled when it was taken. *)
Demand(s) == wire[s] = <<>>

(* Mutant: the cursor stays where the page began. *)
SendKeepingCursor(s) ==
  LET sv == server[s] IN
  /\ sv.at = "sending" /\ Demand(s)
  /\ IF sv.sent < Len(sv.pending)
     THEN /\ wire' = [wire EXCEPT ![s] = Append(@, Frame(sv.pending[sv.sent + 1]))]
          /\ server' = [server EXCEPT ![s].sent = @ + 1]
          /\ UNCHANGED connections
     ELSE Goto(s, "status")
  /\ UNCHANGED <<log, client, drops>>

Send(s) ==
  LET sv == server[s] IN
  /\ sv.at = "sending" /\ Demand(s)
  /\ IF sv.sent < Len(sv.pending)
     THEN /\ wire' = [wire EXCEPT ![s] = Append(@, Frame(sv.pending[sv.sent + 1]))]
          /\ server' = [server EXCEPT ![s].sent = @ + 1, ![s].cursor = sv.pending[sv.sent + 1]]
          /\ UNCHANGED connections
     ELSE Goto(s, "status")
  /\ UNCHANGED <<log, client, drops>>

(* A full page is followed by the next one without a pause. *)
NextRead(s, empties) ==
  /\ server' = [server EXCEPT ![s].empties = empties,
       ![s].at = IF Len(server[s].pending) < PageSize THEN "waiting" ELSE "listing"]
  /\ UNCHANGED <<wire, connections>>

(* Mutant: one empty page is enough. *)
CloseAtFirstEmpty(s) ==
  /\ server[s].at = "status"
  /\ IF Status # "running" /\ server[s].pending = <<>> THEN Close(s, "end")
     ELSE NextRead(s, 0)
  /\ UNCHANGED <<log, client, drops>>

(* Mutant: empty pages are counted and nothing follows. *)
NeverClose(s) ==
  /\ server[s].at = "status"
  /\ NextRead(s, IF Status # "running" /\ server[s].pending = <<>> THEN server[s].empties + 1 ELSE 0)
  /\ UNCHANGED <<log, client, drops>>

(* getRun: an empty page counts only while the run is not running. *)
ReadStatus(s) ==
  /\ server[s].at = "status"
  /\ IF Status # "running" /\ server[s].pending = <<>>
     THEN IF server[s].empties + 1 >= 2 THEN Close(s, "end") ELSE NextRead(s, server[s].empties + 1)
     ELSE NextRead(s, 0)
  /\ UNCHANGED <<log, client, drops>>

Wait(s) == server[s].at = "waiting" /\ Goto(s, "listing") /\ UNCHANGED <<log, client, drops>>

List(s) ==
  /\ server[s].at = "listing"
  /\ server' = [server EXCEPT ![s].at = "sending", ![s].sent = 0, ![s].pending = Page(server[s].cursor)]
  /\ UNCHANGED <<log, wire, client, connections, drops>>

Failing(s) ==
  LET c == server[s].client IN
  /\ server[s].at \in {"reading", "status", "listing"} /\ drops[c] < MaxDrops
  /\ drops' = [drops EXCEPT ![c] = @ + 1]
  /\ UNCHANGED <<log, client>>

(* Mutant: a stream that fails keeps its connection. *)
FailHolding(s) ==
  /\ Failing(s)
  /\ server' = [server EXCEPT ![s] = Gone]
  /\ wire' = [wire EXCEPT ![s] = Append(@, Word("error"))]
  /\ UNCHANGED connections

(* A read of the store throws: the stream errors and is finished. *)
Fail(s) == Failing(s) /\ Close(s, "error")

(* The client goes away: what is on the wire is lost, and the request's    *)
(* signal and the cancelled body end the stream later.                     *)
Drop(c) ==
  /\ client[c].state = "open" /\ drops[c] < MaxDrops
  /\ drops' = [drops EXCEPT ![c] = @ + 1]
  /\ wire' = [wire EXCEPT ![client[c].stream] = <<>>]
  /\ Leave(c, "idle")
  /\ UNCHANGED <<log, server, connections>>

NoticeDrop(s) ==
  /\ server[s] # Gone /\ client[server[s].client].stream # s
  /\ server' = [server EXCEPT ![s] = Gone]
  /\ wire' = [wire EXCEPT ![s] = <<>>]
  /\ connections' = Released(s)
  /\ UNCHANGED <<log, client, drops>>

-----------------------------------------------------------------------------
Advance(s) == ReadInitial(s) \/ Open(s) \/ Send(s) \/ ReadStatus(s) \/ Wait(s) \/ List(s) \/ NoticeDrop(s)

Next ==
  \/ EmitEvent \/ Pause \/ Resume \/ End
  \/ \E c \in Clients : Connect(c) \/ Receive(c) \/ Reopen(c) \/ Drop(c)
  \/ \E s \in Streams : Advance(s) \/ Fail(s)

Spec == Init /\ [][Next]_vars

(* The run ends some day; handlers, clients and timers go on. *)
FairSpec ==
  /\ Spec
  /\ WF_vars(End)
  /\ \A c \in Clients : WF_vars(Connect(c)) /\ WF_vars(Receive(c)) /\ WF_vars(Reopen(c))
  /\ \A s \in Streams : WF_vars(Advance(s))

-----------------------------------------------------------------------------
TypeOK ==
  /\ \A i \in DOMAIN log : log[i] \in Kinds
  /\ \A s \in Streams :
       /\ server[s].at \in {"gone", "reading", "opening", "sending", "status", "waiting", "listing"}
       /\ server[s].empties \in 0 .. 1 /\ server[s].sent \in 0 .. Len(server[s].pending)
       /\ Len(server[s].pending) <= PageSize /\ Len(wire[s]) <= 2
  /\ \A c \in Clients : client[c].state = "open" <=> client[c].stream \in Streams

(* "maxConnections caps concurrent SSE streams" (README.md:655), although  *)
(* two awaits lie between a request and its connection; none leaks.        *)
ConnectionsAreCounted ==
  /\ connections <= MaxConnections
  /\ connections = Cardinality({s \in Streams : Holding(s)})

(* "Observation reconnects with Last-Event-ID" (README.md:613): across     *)
(* pages, pauses, failures and reconnections a client receives the events  *)
(* of the run in order, none missing and none twice.                       *)
DeliveryIsGapless ==
  \A c \in Clients : \A i \in DOMAIN client[c].received : client[c].received[i] = i

(* A stream that ends has delivered the event that paused or ended the     *)
(* run: its reader can tell why no more came.                              *)
EndIsExplained ==
  \A c \in Clients :
    client[c].state = "closed" =>
      client[c].received # <<>> /\ log[LastReceived(c)] \in {"paused", "ended"}

(* Every client hears how the run ended. *)
EveryoneHearsTheEnd == \A c \in Clients : <>HeardTheEnd(c)
=============================================================================
