------------------------------- MODULE MCTools -------------------------------
(* What tools are made of, in instances small enough for TLC: the process   *)
(* of a sandbox command (SandboxProcess), the containers of a provider,     *)
(* calls of a remote server, the search for tools and its index. A          *)
(* behaviour belongs to one of them.                                        *)
EXTENDS SandboxProcess

CONSTANTS
  Parts,   \* who may take the steps of a behaviour
  q1, q2,  \* calls of a remote tool
  k1, k2,  \* header sets
  Nobody

VARIABLES
  part,  \* who takes them: chosen once
  x1, x2, x3, x4, x5, x6, x7, x8, x9, x10, x11, x12, x13, x14, x15  \* its variables

allVars == <<part, vars, x1, x2, x3, x4, x5, x6, x7, x8, x9, x10, x11, x12, x13, x14, x15>>

\* What a process may write at once: characters of one to three bytes, under a
\* limit of four.
WrittenChunks == {<<1>>, <<3>>, <<1, 2>>, <<2, 2>>}

\* Three tools, two of which may be told to the model at once.
SearchTools == {1, 2, 3}
SearchHits == {[name |-> "exact", description |-> "none", schema |-> FALSE],
               [name |-> "term", description |-> "term", schema |-> TRUE],
               [name |-> "part", description |-> "none", schema |-> TRUE],
               [name |-> "none", description |-> "none", schema |-> FALSE]}
MeaningLists == {s \in UNION {[1 .. n -> SearchTools] : n \in 0 .. 3} : IsInjective(s)}
AnyRerankings == UNION {[1 .. n -> SearchTools \cup {0}] : n \in 0 .. 2}

\* Two builds of an index that share a text, and a cache smaller than both.
BuildTexts == [b \in {"x", "y"} |-> IF b = "x" THEN <<"mail", "bank", "mail">> ELSE <<"bank", "map">>]

Mcp == INSTANCE McpProvider WITH
  Calls <- {q1, q2}, Keys <- {k1, k2}, NoKey <- Nobody, NoCall <- Nobody,
  MaxInputRounds <- 1, Aborts <- TRUE, Outages <- TRUE, call <- x1, task <- x2,
  identity <- x3, discovery <- x4, leader <- x5, listener <- x6, closed <- x7
Search == INSTANCE ToolSearch WITH
  Tools <- SearchTools, Pinned <- {3}, Limit <- 2, TopK <- 3, RankConstant <- 60,
  Reranks <- TRUE, MaxTurns <- 2, MaxCrashes <- 1, Hits <- SearchHits,
  Lists <- MeaningLists, Rerankings <- AnyRerankings, phase <- x1, loaded <- x2,
  told <- x3, version <- x4, sent <- x5, semantic <- x6, search <- x7, result <- x8,
  checkpoint <- x9, turns <- x10, crashes <- x11
Index == INSTANCE ToolIndex WITH
  Builds <- {"x", "y"}, TextsOf <- BuildTexts, ModelOf <- [b \in {"x", "y"} |-> "m"],
  Declared <- TRUE, Capacity <- 2, BatchSize <- 1,
  OldKeys <- {<<"m", "mail">>, <<"m", "bank">>}, Dimensions <- 3, OldDimensions <- 2,
  cache <- x1, build <- x2, asked <- x3, touched <- x4
\* Two calls of a run, and a call of a run beside one without.
Containers == INSTANCE DockerSandbox WITH
  Calls <- {"a", "b"}, Keys <- {"r1"}, RunKeys <- {"r1"},
  KeyOf <- [c \in {"a", "b"} |-> "r1"], CallsOverlap <- FALSE,
  CleanupOverlaps <- FALSE, SlowStart <- FALSE, MaxDeaths <- 1, MaxFailures <- 2,
  objects <- x1, runs <- x2, names <- x3, call <- x4, outcome <- x5, aborted <- x6,
  jobs <- x7, cleaned <- x8, disposed <- x9, containers <- x10, kills <- x11,
  workspaces <- x12, deaths <- x13, refused <- x14, failed <- x15
LoneCalls == INSTANCE DockerSandbox WITH
  Calls <- {"a", "lone"}, Keys <- {"r1", "c9"}, RunKeys <- {"r1"},
  KeyOf <- [c \in {"a", "lone"} |-> IF c = "lone" THEN "c9" ELSE "r1"],
  CallsOverlap <- FALSE, CleanupOverlaps <- FALSE, SlowStart <- FALSE,
  MaxDeaths <- 1, MaxFailures <- 1,
  objects <- x1, runs <- x2, names <- x3, call <- x4, outcome <- x5, aborted <- x6,
  jobs <- x7, cleaned <- x8, disposed <- x9, containers <- x10, kills <- x11,
  workspaces <- x12, deaths <- x13, refused <- x14, failed <- x15

ASSUME InstancesAreSound ==
  /\ Mcp!McpAssumption /\ Search!SearchAssumption
  /\ Index!IndexAssumption /\ Containers!SandboxAssumption /\ LoneCalls!SandboxAssumption

------------------------------------------------------------------------------
\* A part has the first variables for itself, as many as it has; it leaves the others.
Rest == "rest"
Rest15 == TRUE
Rest14 == x15 = Rest
Rest13 == x14 = Rest /\ Rest14
Rest12 == x13 = Rest /\ Rest13
Rest11 == x12 = Rest /\ Rest12
Rest10 == x11 = Rest /\ Rest11
Rest9 == x10 = Rest /\ Rest10
Rest8 == x9 = Rest /\ Rest9
Rest7 == x8 = Rest /\ Rest8
Rest6 == x7 = Rest /\ Rest7
Rest5 == x6 = Rest /\ Rest6
Rest4 == x5 = Rest /\ Rest5
Rest3 == x4 = Rest /\ Rest4
Rest2 == x3 = Rest /\ Rest3
Rest1 == x2 = Rest /\ Rest2
Rest0 == x1 = Rest /\ Rest1

Else15 == UNCHANGED <<part, vars>>
Else14 == UNCHANGED x15 /\ Else15
Else13 == UNCHANGED x14 /\ Else14
Else12 == UNCHANGED x13 /\ Else13
Else11 == UNCHANGED x12 /\ Else12
Else10 == UNCHANGED x11 /\ Else11
Else9 == UNCHANGED x10 /\ Else10
Else8 == UNCHANGED x9 /\ Else9
Else7 == UNCHANGED x8 /\ Else8
Else6 == UNCHANGED x7 /\ Else7
Else5 == UNCHANGED x6 /\ Else6
Else4 == UNCHANGED x5 /\ Else5
Else3 == UNCHANGED x4 /\ Else4
Else2 == UNCHANGED x3 /\ Else3
Else1 == UNCHANGED x2 /\ Else2
Else0 == UNCHANGED <<part, x1, x2, x3, x4, x5, x6, x7, x8, x9, x10, x11, x12, x13, x14, x15>>

AllInit ==
  /\ part \in Parts
  /\ Init
  /\ \/ part = "command" /\ Rest0
     \/ part = "mcp" /\ Mcp!Init /\ Rest7
     \/ part = "search" /\ Search!Init /\ Rest11
     \/ part = "index" /\ Index!Init /\ Rest4
     \/ part = "docker" /\ Containers!Init /\ Rest15
     \/ part = "lone" /\ LoneCalls!Init /\ Rest15

AllNext ==
  \/ part = "command" /\ Next /\ Else0
  \/ part = "mcp" /\ Mcp!Next /\ Else7
  \/ part = "search" /\ Search!Next /\ Else11
  \/ part = "index" /\ Index!Next /\ Else4
  \/ part = "docker" /\ Containers!Next /\ Else15
  \/ part = "lone" /\ LoneCalls!Next /\ Else15

AllSpec == AllInit /\ [][AllNext]_allVars

(* Properties.                                                                *)

\* No request goes to a server under two identities, a call makes no more
\* requests than its rounds allow, succeeds only with the result of a task that
\* did, and leaves no task at work that it gave up at its deadline or by an abort
\* between two polls.
RemoteCallsKeepTheirTerms ==
  part = "mcp" =>
    /\ Mcp!TypeOK /\ Mcp!OneIdentity /\ Mcp!RoundsAreBounded
    /\ Mcp!SuccessIsTheTasks /\ Mcp!GivenUpTasksAreCancelled

\* A tool that the conversation says was found can be called, in this worker and
\* in one that resumes the run; the fusion of the rankings keeps what they agree
\* on, and failures fall back to the words; the cache of an index keeps what was
\* used last, and no text is sent to the model twice.
FoundToolsCanBeCalled ==
  /\ part = "search" =>
       /\ Search!TypeOK /\ Search!FoundToolsAreLoaded /\ Search!ModelSeesLoaded
       /\ Search!FusionAgrees /\ Search!FailuresFallBack /\ Search!ExactNameFirst
  /\ part = "index" => Index!TypeOK /\ Index!KeepsTheLastUsed /\ Index!AsksOnce

==============================================================================
