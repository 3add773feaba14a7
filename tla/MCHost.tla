------------------------------- MODULE MCHost --------------------------------
(* A host and what it serves, in instances small enough for TLC: hosts that *)
(* are replaced under a run (Redeploy), the start of one, its HTTP handlers *)
(* and event streams, a channel, its shutdown, and the leases of a          *)
(* workflow. A behaviour belongs to one of them.                            *)
EXTENDS Redeploy

CONSTANTS
  Parts,       \* who may take the steps of a behaviour
  p1, p2,      \* attempts
  r1, r2,      \* runs
  s1, s2,      \* sessions
  q1, q2,      \* requests
  alice, bob,  \* who makes them
  c1, c2,      \* clients of event streams
  t1, t2,      \* the streams
  Nobody

VARIABLES
  part,  \* who takes them: chosen once
  x1, x2, x3, x4, x5, x6, x7, x8, x9, x10, x11, x12, x13, x14, x15  \* its variables

allVars == <<part, vars, x1, x2, x3, x4, x5, x6, x7, x8, x9, x10, x11, x12, x13, x14, x15>>

(* Hosts that are replaced: each differs from a first one in one thing, some   *)
(* in what a run depends on, some only in how it is written.                   *)
HostTool(name) ==
  [name |-> name, flaws |-> {}, risk |-> None, sandbox |-> FALSE, source |-> <<>>,
   surface |-> "s1"]
HostAgent(name) ==
  [name |-> name, flaws |-> {}, model |-> [kind |-> None, name |-> None],
   tools |-> <<<<"t">>, <<"u">>>>, context |-> <<>>, skills |-> <<>>, toolChoice |-> {},
   memory |-> {}, instructions |-> "i1", budget |-> None, search |-> "off"]
HostWorkflow(name) ==
  [name |-> name, flaws |-> {}, version |-> None, limits |-> {}, events |-> None, team |-> FALSE]
HostTeam(name, supervisor, members) ==
  [name |-> name, flaws |-> {}, version |-> None, supervisor |-> supervisor,
   members |-> members, limits |-> {}]
HostModel(name, gateway) == [name |-> name, flaws |-> {}, gateway |-> gateway]

FirstHost ==
  [flaws |-> {}, models |-> <<HostModel("default", "g1"), HostModel("fast", "g2")>>,
   providers |-> <<>>, tools |-> <<HostTool(<<"t">>), HostTool(<<"u">>)>>, connections |-> <<>>,
   agents |-> <<HostAgent("solo"), HostAgent("aide")>>, workflows |-> <<HostWorkflow("plan")>>,
   teams |-> <<HostTeam("crew", "solo", <<"aide">>)>>, sandbox |-> TRUE, budget |-> None,
   memoryStore |-> FALSE]

Solo(agent) == [FirstHost EXCEPT !.agents = <<agent, HostAgent("aide")>>]
FastModel == [kind |-> "name", name |-> "fast"]
Hosts ==
  {FirstHost,
   [FirstHost EXCEPT !.tools[1].risk = "read"],
   [FirstHost EXCEPT !.tools[1].risk = "write"],
   [FirstHost EXCEPT !.tools[2].surface = "s2"],
   [FirstHost EXCEPT !.tools[2].sandbox = TRUE],
   [FirstHost EXCEPT !.tools = <<HostTool(<<"u">>), HostTool(<<"t">>), HostTool(<<"v">>)>>],
   [FirstHost EXCEPT !.models = <<HostModel("fast", "g2")>>],
   [FirstHost EXCEPT !.models = <<HostModel("fast", "g2"), HostModel("default", "g1")>>],
   Solo([HostAgent("solo") EXCEPT !.instructions = "i2"]),
   Solo([HostAgent("solo") EXCEPT !.tools = <<<<"t">>>>]),
   Solo([HostAgent("solo") EXCEPT !.search = "lexical"]),
   Solo([HostAgent("solo") EXCEPT !.model = FastModel]),
   Solo([HostAgent("solo") EXCEPT !.flaws = {"inputSchema"}]),
   [Solo([HostAgent("solo") EXCEPT !.model = FastModel])
      EXCEPT !.models = <<HostModel("fast", "g2")>>],
   [FirstHost EXCEPT !.agents = <<HostAgent("aide")>>, !.teams = <<>>],
   [FirstHost EXCEPT !.workflows = <<[HostWorkflow("plan") EXCEPT !.version = "1"]>>],
   [FirstHost EXCEPT !.workflows = <<[HostWorkflow("plan") EXCEPT !.version = "2"]>>],
   [FirstHost EXCEPT !.workflows = <<>>],
   [FirstHost EXCEPT !.teams[1].members = <<>>],
   [FirstHost EXCEPT !.workflows = <<HostWorkflow("plan"), HostWorkflow("crew")>>, !.teams = <<>>]}

RunTargets ==
  {[kind |-> "agent", name |-> "solo", model |-> m] : m \in {None, "fast"}}
  \cup {[kind |-> "workflow", name |-> "plan", model |-> None],
        [kind |-> "team", name |-> "crew", model |-> None]}

(* Configurations that a host starts with: a tool, two connections whose tools *)
(* can come out under one name, agents that refer to both, a workflow and a    *)
(* team that may share a name.                                                 *)
BareTool(name) ==
  [name |-> name, flaws |-> {}, risk |-> None, sandbox |-> FALSE, source |-> <<>>]
Seam == <<"a", "_", "_", "_", "b">>

ToolLists ==
  {<<>>, <<BareTool(<<"t">>)>>, <<BareTool(<<"t">>), BareTool(<<"t">>)>>, <<BareTool(Seam)>>,
   <<BareTool(<<"fevex", "_", "_", "b">>)>>,
   <<[BareTool(<<"t">>) EXCEPT !.sandbox = TRUE]>>,
   <<[BareTool(<<"t">>) EXCEPT !.flaws = {"retry"}]>>}

Connection(name, list) ==
  [name |-> name, flaws |-> {}, allowlist |-> {list}, allow |-> {}, policies |-> <<>>]
OneConnection == Connection(<<"a">>, <<<<"_", "b">>>>)
ConnectionLists ==
  {<<>>, <<OneConnection>>, <<OneConnection, Connection(<<"a", "_">>, <<<<"b">>>>)>>,
   <<Connection(<<"fevex">>, <<<<"b">>>>)>>,
   <<Connection(<<"a">>, <<<<"b">>, <<"b">>>>)>>,
   <<Connection(<<"a">>, <<<<"_", "_">>>>)>>,
   <<[OneConnection EXCEPT !.allowlist = {}, !.allow = {<<<<"_", "b">>>>}]>>,
   <<[OneConnection EXCEPT !.policies =
        (<<"_", "b">> :> [flaws |-> {"outputSchema"}, risk |-> None])]>>,
   <<[OneConnection EXCEPT !.allowlist = {}]>>}

Lead ==
  [name |-> "lead", flaws |-> {}, model |-> [kind |-> None, name |-> None],
   tools |-> <<>>, context |-> <<>>, skills |-> <<>>, toolChoice |-> {}, memory |-> {}]
AgentLists ==
  {<<Lead>>, <<Lead, Lead>>,
   <<Lead, [Lead EXCEPT !.name = "aide", !.tools = <<<<"t">>>>, !.toolChoice = {<<"t">>}]>>,
   <<[Lead EXCEPT !.tools = <<Seam>>, !.toolChoice = {<<"t">>}]>>,
   <<[Lead EXCEPT !.tools = <<Seam>>, !.context = <<"kb">>]>>,
   <<[Lead EXCEPT !.model = [kind |-> "gateway", name |-> None],
                  !.memory = {[read |-> FALSE, write |-> TRUE]}]>>,
   <<[Lead EXCEPT !.model = FastModel]>>,
   <<[Lead EXCEPT !.flaws = {"limits"}]>>,
   <<[Lead EXCEPT !.flaws = {"inputSchema"}]>>}

CoordinatorLists ==
  {<< <<>>, <<>> >>,
   << <<HostWorkflow("plan")>>, <<HostTeam("plan", "lead", <<>>)>> >>,
   << <<HostWorkflow("plan")>>, <<HostTeam("crew", "lead", <<"aide">>)>> >>,
   << <<HostWorkflow("plan"), HostWorkflow("plan")>>, <<>> >>,
   << <<>>, <<HostTeam("crew", "lead", <<>>), HostTeam("crew", "lead", <<>>)>> >>}

Entry(name) == [name |-> name, flaws |-> {}]
ModelLists ==
  {<<>>, <<Entry("default")>>, <<Entry("default"), Entry("fast")>>,
   <<[Entry("default") EXCEPT !.flaws = {"stateCodec"}]>>}
ProviderLists == {<<>>, <<Entry("kb")>>, <<Entry("kb"), Entry("kb")>>}

FirstStart ==
  [flaws |-> {}, models |-> <<Entry("default"), Entry("fast")>>, providers |-> <<Entry("kb")>>,
   tools |-> <<BareTool(<<"t">>)>>, connections |-> <<OneConnection>>, agents |-> <<Lead>>,
   workflows |-> <<>>, teams |-> <<>>, sandbox |-> FALSE, budget |-> None,
   memoryStore |-> FALSE]

StartConfigs ==
  {[FirstStart EXCEPT !.tools = t, !.connections = c, !.agents = a,
                      !.workflows = w[1], !.teams = w[2]] :
     t \in ToolLists, c \in ConnectionLists, a \in AgentLists, w \in CoordinatorLists}
  \cup {[FirstStart EXCEPT !.models = m, !.providers = p, !.agents = a] :
     m \in ModelLists, p \in ProviderLists, a \in AgentLists}
  \cup {[FirstStart EXCEPT !.flaws = f, !.sandbox = s, !.tools = t] :
     f \in {{}, {"runStore"}, {"policy"}}, s \in BOOLEAN, t \in ToolLists}

(* A workflow whose leases are handed on: a step, a timer, a second step.      *)
ChainProgram == << [kind |-> "agent", id |-> "a", tasks |-> <<"a">>],
                   [kind |-> "timer", id |-> "t", tasks |-> <<>>],
                   [kind |-> "agent", id |-> "b", tasks |-> <<"b">>] >>

Starts == INSTANCE Startup WITH
  Configs <- StartConfigs, config <- x1, reg <- x2, stage <- x3
Http == INSTANCE HttpApi WITH
  Requests <- {q1, q2}, Runs <- {r1, r2}, Sessions <- {s1, s2}, Actors <- {alice, bob},
  NoRun <- Nobody, NoSession <- Nobody,
  Operations <- {"start", "read", "cancel", "resume", "recover"}, MaxCrashes <- 1,
  MaxMoves <- 2, run <- x1, request <- x2, owner <- x3, holder <- x4, crashes <- x5
Crowd == INSTANCE EventStream WITH
  Clients <- {c1, c2}, NoClient <- Nobody, Streams <- {t1, t2}, NoStream <- Nobody,
  MaxConnections <- 1, PageSize <- 1, MaxEvents <- 1, MaxDrops <- 0, log <- x1,
  server <- x2, wire <- x3, client <- x4, connections <- x5, drops <- x6
Alone == INSTANCE EventStream WITH
  Clients <- {c1}, NoClient <- Nobody, Streams <- {t1, t2}, NoStream <- Nobody,
  MaxConnections <- 1, PageSize <- 1, MaxEvents <- 1, MaxDrops <- 1, log <- x1,
  server <- x2, wire <- x3, client <- x4, connections <- x5, drops <- x6
Delivery == INSTANCE EventStream WITH
  Clients <- {c1}, NoClient <- Nobody, Streams <- {t1, t2}, NoStream <- Nobody,
  MaxConnections <- 1, PageSize <- 2, MaxEvents <- 3, MaxDrops <- 2, log <- x1,
  server <- x2, wire <- x3, client <- x4, connections <- x5, drops <- x6
Channel == INSTANCE ChannelDelivery WITH
  Messages <- {"m"}, Handles <- {"h"}, Redeliveries <- {"again", "late"},
  MaxQuestions <- 2, CanAsk <- TRUE, MayExpire <- TRUE, run <- x1, call <- x2,
  events <- x3, answer <- x4, accepted <- x5, expired <- x6
Process == INSTANCE RuntimeProcess WITH
  Executions <- {p1, p2}, Runs <- {r1}, Sessions <- {s1}, HomeOf <- [r \in {r1} |-> s1],
  MaxActiveRuns <- 1, Streaming <- FALSE, LateSnapshot <- FALSE, MaxRevision <- 1,
  MaxFailures <- 0, None <- Nobody, stored <- x1, lease <- x2, said <- x3, history <- x4,
  local <- x5, activeRuns <- x6, activeSessions <- x7, pendingStarts <- x8, shutdown <- x9,
  failures <- x10
Leases == INSTANCE WorkflowEngine WITH
  Owners <- {p1, p2}, NoOwner <- Nobody, Agents <- {"a", "b"}, Program <- ChainProgram,
  Compensated <- {"a"}, StepLimit <- 5, MaxChildren <- 2, MaxFailures <- 0,
  MaxCrashes <- 1, Outcomes <- {"completed", "failed", "paused"}, stored <- x1,
  child <- x2, exec <- x3, failures <- x4, crashes <- x5, finished <- x6, undone <- x7
Turns == INSTANCE ToolCalls WITH
  Workers <- {p1, p2}, Batch <- <<"a", "b">>, Keyed <- {"b"}, Gated <- {"a", "b"},
  Policed <- {}, MaxAttempts <- ("a" :> 1 @@ "b" :> 2), MaxDisruptions <- 2, stored <- x1,
  holder <- x2, worker <- x3, begun <- x4, approved <- x5, licences <- x6, retried <- x7,
  disruptions <- x8
Mcp == INSTANCE McpProvider WITH
  Calls <- {q1, q2}, Keys <- {"headers"}, NoKey <- Nobody, NoCall <- Nobody,
  MaxInputRounds <- 1, Aborts <- FALSE, Outages <- TRUE, call <- x1, task <- x2,
  identity <- x3, discovery <- x4, leader <- x5, listener <- x6, closed <- x7
Containers == INSTANCE DockerSandbox WITH
  Calls <- {"a"}, Keys <- {"r1"}, RunKeys <- {"r1"}, KeyOf <- [c \in {"a"} |-> "r1"],
  CallsOverlap <- TRUE, CleanupOverlaps <- TRUE, SlowStart <- TRUE, MaxDeaths <- 1, MaxFailures <- 1,
  objects <- x1, runs <- x2, names <- x3, call <- x4, outcome <- x5, aborted <- x6,
  jobs <- x7, cleaned <- x8, disposed <- x9, containers <- x10, kills <- x11,
  workspaces <- x12, deaths <- x13, refused <- x14, failed <- x15
Command == INSTANCE SandboxProcess WITH
  Docker <- TRUE, HoldsPipe <- FALSE, Limit <- 2, Chunks <- {<<1>>, <<2>>},
  MaxWritten <- 2, proc <- x1, held <- x2, signal <- x3, timer <- x4, killTimer <- x5,
  sent <- x6, killers <- x7, timedOut <- x8, aborted <- x9, answer <- x10, written <- x11,
  output <- x12

ASSUME InstancesAreSound ==
  /\ Process!RuntimeAssumption /\ Leases!ConstantsAssumption
  /\ Crowd!EventStreamAssumption /\ Alone!EventStreamAssumption /\ Delivery!EventStreamAssumption
  /\ Channel!ChannelAssumption /\ Turns!ToolAssumption /\ Mcp!McpAssumption
  /\ Containers!SandboxAssumption

------------------------------------------------------------------------------
\* A part has the first variables for itself, as many as it has; it leaves the others.
Rest == "rest"
Rest15 == TRUE
Rest14 == x15 = Rest
Rest13 == x14 = Rest /\ Rest14
Rest12 == x13 = Rest /\ Rest13
Rest11 == x12 = Rest /\ Rest12
Rest10 == x11 = Rest /\ Rest11
Rest9 == x10 = Rest /\ Rest10
Rest8 == x9 = Rest /\ Rest9
Rest7 == x8 = Rest /\ Rest8
Rest6 == x7 = Rest /\ Rest7
Rest5 == x6 = Rest /\ Rest6
Rest4 == x5 = Rest /\ Rest5
Rest3 == x4 = Rest /\ Rest4
Rest2 == x3 = Rest /\ Rest3
Rest1 == x2 = Rest /\ Rest2
Rest0 == x1 = Rest /\ Rest1

Else15 == UNCHANGED <<part, vars>>
Else14 == UNCHANGED x15 /\ Else15
Else13 == UNCHANGED x14 /\ Else14
Else12 == UNCHANGED x13 /\ Else13
Else11 == UNCHANGED x12 /\ Else12
Else10 == UNCHANGED x11 /\ Else11
Else9 == UNCHANGED x10 /\ Else10
Else8 == UNCHANGED x9 /\ Else9
Else7 == UNCHANGED x8 /\ Else8
Else6 == UNCHANGED x7 /\ Else7
Else5 == UNCHANGED x6 /\ Else6
Else4 == UNCHANGED x5 /\ Else5
Else3 == UNCHANGED x4 /\ Else4
Else2 == UNCHANGED x3 /\ Else3
Else1 == UNCHANGED x2 /\ Else2
Else0 == UNCHANGED <<part, x1, x2, x3, x4, x5, x6, x7, x8, x9, x10, x11, x12, x13, x14, x15>>

AllInit ==
  /\ part \in Parts
  /\ Init
  /\ \/ part = "redeploy" /\ Rest0
     \/ part = "startup" /\ Starts!Init /\ Rest3
     \/ part = "http" /\ Http!Init /\ Rest5
     \/ part = "crowd" /\ Crowd!Init /\ Rest6
     \/ part = "alone" /\ Alone!Init /\ Rest6
     \/ part = "delivery" /\ Delivery!Init /\ Rest6
     \/ part = "channel" /\ Channel!Init /\ Rest6
     \/ part = "shutdown" /\ Process!Init /\ Rest10
     \/ part = "leases" /\ Leases!Init /\ Rest7
     \/ part = "calls" /\ Turns!Init /\ Rest8
     \/ part = "mcp" /\ Mcp!Init /\ Rest7
     \/ part = "docker" /\ Containers!Init /\ Rest15
     \/ part = "command" /\ Command!Init /\ Rest12

AllNext ==
  \/ part = "redeploy" /\ Next /\ Else0
  \/ part = "startup" /\ Starts!Next /\ Else3
  \/ part = "http" /\ Http!Next /\ Else5
  \/ part = "crowd" /\ Crowd!Next /\ Else6
  \/ part = "alone" /\ Alone!Next /\ Else6
  \/ part = "delivery" /\ Delivery!Next /\ Else6
  \/ part = "channel" /\ Channel!Next /\ Else6
  \/ part = "shutdown" /\ Process!Next /\ Else10
  \/ part = "leases" /\ Leases!Next /\ Else7
  \/ part = "calls" /\ Turns!Next /\ Else8
  \/ part = "mcp" /\ Mcp!Next /\ Else7
  \/ part = "docker" /\ Containers!Next /\ Else15
  \/ part = "command" /\ Command!Next /\ Else12

AllSpec == AllInit /\ [][AllNext]_allVars

\* What is read here of single parts, under its own name.
stored == x1      \* ToolCalls and WorkflowEngine
mcpCall == x1
jobs == x7        \* DockerSandbox
disposed == x9
sent == x6        \* SandboxProcess
exitAnswer == x10
shutdown == x9    \* RuntimeProcess

\* What goes on if it can.  One part is at work, so one line of each operator
\* counts: clients, callers, attempts and calls, of which there are two; then
\* the streams, and the timers, deadlines and servers.
Actor(i) ==
  LET c == <<c1, c2>>[i]  p == <<p1, p2>>[i]  q == <<q1, q2>>[i] IN
  \/ part = "crowd" /\ (Crowd!Connect(c) \/ Crowd!Receive(c) \/ Crowd!Reopen(c)) /\ Else6
  \/ i = 1 /\ part = "alone" /\ (Alone!Connect(c1) \/ Alone!Receive(c1) \/ Alone!Reopen(c1)) /\ Else6
  \/ part = "shutdown" /\ Process!Caller(p) /\ Else10
  \/ part = "leases" /\ Leases!Proceed(p) /\ Else7
  \/ part = "calls" /\ Turns!Step(p) /\ Else8
  \/ part = "mcp" /\ Mcp!Turn(q) /\ Else7
  \/ i = 1 /\ part = "docker" /\ Containers!Advance("a") /\ Else15
  \/ i = 1 /\ part = "command" /\ (Command!Start \/ Command!SpawnFails) /\ Else12
  \/ i = 2 /\ part = "command" /\ Command!Close /\ Else12

Clock(i) ==
  LET t == <<t1, t2>>[i] IN
  \/ part = "crowd" /\ Crowd!Advance(t) /\ Else6
  \/ part = "alone" /\ Alone!Advance(t) /\ Else6
  \/ i = 1 /\ part = "shutdown" /\ Process!GraceExpires /\ Else10
  \/ i = 2 /\ part = "shutdown" /\ Process!CleanupExpires /\ Else10
  \/ i = 1 /\ part = "leases" /\ Leases!Expire /\ Else7
  \/ i = 2 /\ part = "leases" /\ (\E c \in {"a", "b"} \X {1, 2} : Leases!ExpireChild(c)) /\ Else7
  \/ i = 1 /\ part = "calls" /\ (\E p \in {p1, p2} : Turns!In(p, "idle") /\ Turns!FreeLease(p)) /\ Else8
  \/ i = 2 /\ part = "calls" /\ (\E p \in {p1, p2} : Turns!Recover(p)) /\ Else8
  \/ i = 1 /\ part = "mcp" /\ (Mcp!DiscoveryFails \/ Mcp!DiscoveryAnswered) /\ Else7
  \/ i = 1 /\ part = "docker" /\ (\E j \in jobs : Containers!RemovalEnds(j)) /\ Else15
  \/ i = 2 /\ part = "docker" /\ Containers!Disposed /\ Else15
  \/ i = 1 /\ part = "command" /\ Command!TimerFires /\ Else12
  \/ i = 2 /\ part = "command" /\ Command!KillTimerFires /\ Else12

\* The run ends, shutdown goes on cancelling, somebody resolves what is unknown,
\* SIGKILL ends a command.
Ending ==
  \/ part = "crowd" /\ Crowd!End /\ Else6
  \/ part = "alone" /\ Alone!End /\ Else6
  \/ part = "shutdown" /\ Process!GoOnCancelling /\ Else10
  \/ part = "calls" /\ (\E p \in {p1, p2} : Turns!Resolve(p)) /\ Else8
  \/ /\ part = "command" /\ "SIGKILL" \in {sent[i] : i \in DOMAIN sent}
     /\ Command!Exits /\ Else12

\* The deadline of a remote call passes although its server answers in between.
Deadline(i) == part = "mcp" /\ Mcp!Expires(<<q1, q2>>[i]) /\ Else7

AllFairSpec ==
  /\ AllSpec
  /\ \A i \in {1, 2} : WF_allVars(Actor(i)) /\ WF_allVars(Clock(i)) /\ SF_allVars(Deadline(i))
  /\ WF_allVars(Ending)

(* Properties.                                                                *)

\* What a host accepts is in force, all of it, and every reference in it leads
\* somewhere; a run that a later host takes up keeps the terms it began with,
\* and is refused only for what did change.
WhatIsAcceptedIsInForce ==
  /\ part = "startup" =>
       Starts!TypeOK /\ Starts!NothingIsReplaced /\ Starts!ReferencesResolve
         /\ Starts!SoundConfigsAreAccepted
  /\ TypeOK /\ KeepsItsTerms /\ ChangeIsReal

\* Over HTTP only the owner of a run learns of it, a run accepted with 202 has
\* its owner on disk, and the run of a start that fails is not left at work unless
\* somebody took it up again or it paused over the signal to stop.
RunsAreTheirOwners ==
  part = "http" =>
    /\ Http!TypeOK /\ Http!OnlyTheOwnerLearns /\ Http!AcceptedIsOwned
    /\ Http!FailedStartIsUndone /\ Http!SessionsAreTheirOwners

\* Across pages, pauses, failures and reconnections a client receives the events
\* in order, none missing and none twice, a stream ends only after the event
\* that explains it, and the limit of connections is not passed nor leaked.
StreamsTellTheRun ==
  part = "delivery" =>
    /\ Delivery!TypeOK /\ Delivery!DeliveryIsGapless
    /\ Delivery!EndIsExplained /\ Delivery!ConnectionsAreCounted

\* A channel shows what its run says once and in order, however often the host
\* delivers again, and says of each delivery what became of it.
ChannelsShowOnceInOrder ==
  part = "channel" =>
    /\ Channel!TypeOK /\ Channel!SameIdSameDelivery /\ Channel!OutcomesAreTold
    /\ Channel!DeliveredIsAccepted /\ Channel!ShownInOrder

\* Every client hears how the run ended, whatever is lost on the way and
\* although the host serves one stream at a time.
Deaf(i) ==
  \/ part = "crowd" /\ ~Crowd!HeardTheEnd(<<c1, c2>>[i])
  \/ i = 1 /\ part = "alone" /\ ~Alone!HeardTheEnd(c1)
EveryoneHearsTheEnd == \A i \in {1, 2} : []<>~Deaf(i)

\* With recoveries and answers, a run that is disrupted finitely often ends.
Unfinished == part = "calls" /\ stored.status \notin {"completed", "failed", "cancelled"}
RunsEnd == []<>~Unfinished

\* A shutdown comes back, although the runs it waits for may never end; and
\* every lease of a workflow is handed back or runs out.
Held(i) ==
  \/ part = "leases" /\ stored.holder = <<p1, p2>>[i]
  \/ part = "shutdown" /\ Process!Closed /\ shutdown.phase # "returned"
NobodyHoldsOnForEver == \A i \in {1, 2} : []<>~Held(i)

\* A call of a remote tool returns, however long its server works and whoever
\* led the discovery it waited for; a call in a container ends although its
\* command never returns, and so does the disposal of all containers; a command
\* that is past its limit ends although it ignores SIGTERM.
Open(i) ==
  \/ part = "mcp" /\ mcpCall[<<q1, q2>>[i]].at \notin {"new", "done", "failed"}
  \/ i = 1 /\ part = "docker" /\ Containers!Busy("a")
  \/ i = 2 /\ part = "docker" /\ disposed = "removing"
  \/ part = "command" /\ (x8 \/ x9) /\ exitAnswer = "none"
CallsReturn == \A i \in {1, 2} : []<>~Open(i)
==============================================================================
