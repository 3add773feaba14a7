--------------------------- MODULE RedeployProofs ---------------------------
(* Whatever is deployed, in whatever order and however often, a run executes  *)
(* only under the definition it began with.                                   *)
EXTENDS Redeploy, TLAPS

(* What a hash says of an agent apart from the model and the budget.          *)
Erased(h) ==
  [name |-> h.name, instructions |-> h.instructions, context |-> h.context,
   memory |-> h.memory, skills |-> h.skills, toolChoice |-> h.toolChoice, tools |-> h.tools]
Declares(r, name) == Erased(AgentHash(r, name, None, None))

(* The records of the store and of the host keep their fields.                *)
Shape ==
  /\ DOMAIN run = {"status", "kind", "name", "modelName", "hash", "budget", "search"}
  /\ DOMAIN held = {"phase", "request", "modelName", "gateway", "search"}
  /\ run.kind \in {None, "agent", "workflow", "team"}

(* A host that holds a run is up, and has a definition of its name.           *)
Holds ==
  held.phase # None =>
    /\ up
    /\ run.kind = "agent" => run.name \in DOMAIN reg.agents
    /\ run.kind = "workflow" => run.name \in DOMAIN reg.workflows

(* The hash in the store is that of the definition the run began with.        *)
Keeps ==
  /\ run.kind = "agent" =>
       /\ run.name \in DOMAIN began.reg.agents
       /\ Erased(run.hash) = Declares(began.reg, run.name)
  /\ run.kind = "workflow" =>
       /\ run.name \in DOMAIN began.reg.workflows
       /\ run.hash = WorkflowHash(began.reg, run.name)
  /\ run.kind = "team" =>
       /\ run.name \in DOMAIN began.reg.teams
       /\ run.hash = TeamHash(began.reg, run.name)

(* What executes is what the hash says.                                       *)
Agrees ==
  held.phase = "executing" =>
    /\ run.kind = "agent" => Declares(reg, run.name) = Declares(began.reg, run.name)
    /\ run.kind = "workflow" =>
         WorkflowHash(reg, run.name) = WorkflowHash(began.reg, run.name)
    /\ run.kind = "team" =>
         /\ run.name \in DOMAIN reg.teams
         /\ TeamHash(reg, run.name) = TeamHash(began.reg, run.name)

IInv == Shape /\ Holds /\ Keeps /\ Agrees

-----------------------------------------------------------------------------
(* The model and the budget are all that the erased hash leaves out.          *)
LEMMA ErasedHash ==
  ASSUME NEW r, NEW n, NEW m, NEW b
  PROVE  Erased(AgentHash(r, n, m, b)) = Declares(r, n)
BY DEF Erased, Declares, AgentHash

(* Two agents whose erased hashes agree mean the same, tool by tool.          *)
LEMMA SameAgent ==
  ASSUME NEW r, NEW s, run.kind = "agent",
         run.name \in DOMAIN r.agents, run.name \in DOMAIN s.agents,
         Declares(r, run.name) = Declares(s, run.name)
  PROVE  Means(r) = Means(s)
<1> DEFINE a == r.agents[run.name]
           c == s.agents[run.name]
           T(q, x) == [i \in DOMAIN x |-> TransportableTool(q.tools[x[i]])]
           M(d) == <<d.name, d.surface, d.sandbox, d.source,
                     IF d.risk = "none" THEN "read" ELSE d.risk>>
           F(q, x) == [i \in DOMAIN x |-> M(q.tools[x[i]])]
<1>1. /\ a.instructions = c.instructions /\ a.context = c.context /\ a.memory = c.memory
      /\ a.skills = c.skills /\ a.toolChoice = c.toolChoice
      /\ T(r, a.tools) = T(s, c.tools)
  BY DEF Declares, Erased, AgentHash
<1>2. DOMAIN a.tools = DOMAIN c.tools
  <2>1. DOMAIN T(r, a.tools) = DOMAIN a.tools /\ DOMAIN T(s, c.tools) = DOMAIN c.tools
    OBVIOUS
  <2> QED BY <1>1, <2>1
<1>3. ASSUME NEW i \in DOMAIN a.tools
      PROVE  M(r.tools[a.tools[i]]) = M(s.tools[c.tools[i]])
  <2>1. T(r, a.tools)[i] = TransportableTool(r.tools[a.tools[i]])
    OBVIOUS
  <2>2. T(s, c.tools)[i] = TransportableTool(s.tools[c.tools[i]])
    BY <1>2
  <2>3. TransportableTool(r.tools[a.tools[i]]) = TransportableTool(s.tools[c.tools[i]])
    BY <1>1, <2>1, <2>2
  <2> QED BY <2>3 DEF TransportableTool, None
<1>4. F(r, a.tools) = F(s, c.tools)
  BY <1>2, <1>3
<1>5. Means(r) = <<a.instructions, a.context, a.skills, a.memory, a.toolChoice, F(r, a.tools)>>
  BY DEF Means, AgentMeans
<1>6. Means(s) = <<c.instructions, c.context, c.skills, c.memory, c.toolChoice, F(s, c.tools)>>
  BY DEF Means, AgentMeans
<1> QED BY <1>1, <1>4, <1>5, <1>6

LEMMA SameCoordinator ==
  ASSUME NEW r, NEW s
  PROVE  /\ run.kind = "workflow" /\ run.name \in DOMAIN r.workflows
            /\ run.name \in DOMAIN s.workflows
            /\ WorkflowHash(r, run.name) = WorkflowHash(s, run.name)
              => Means(r) = Means(s)
         /\ run.kind = "team" /\ run.name \in DOMAIN r.teams
            /\ run.name \in DOMAIN s.teams
            /\ TeamHash(r, run.name) = TeamHash(s, run.name)
              => Means(r) = Means(s)
<1>1. ASSUME run.kind = "workflow", run.name \in DOMAIN r.workflows,
             run.name \in DOMAIN s.workflows,
             WorkflowHash(r, run.name) = WorkflowHash(s, run.name)
      PROVE  Means(r) = Means(s)
  <2>1. WorkflowMeans(r) = WorkflowMeans(s)
    BY <1>1 DEF WorkflowMeans, WorkflowHash
  <2> QED BY <1>1, <2>1 DEF Means
<1>2. ASSUME run.kind = "team", run.name \in DOMAIN r.teams, run.name \in DOMAIN s.teams,
             TeamHash(r, run.name) = TeamHash(s, run.name)
      PROVE  Means(r) = Means(s)
  <2>1. TeamMeans(r) = TeamMeans(s)
    BY <1>2 DEF TeamMeans, TeamHash
  <2> QED BY <1>2, <2>1 DEF Means
<1> QED BY <1>1, <1>2

(* The invariant says what is wanted.                                         *)
LEMMA InvariantSuffices == IInv => ExecutesAsItBegan
<1> SUFFICES ASSUME IInv, held.phase = "executing"
             PROVE  Means(reg) = Means(began.reg)
  BY DEF ExecutesAsItBegan
<1> USE DEF IInv
<1>1. CASE run.kind = "agent"
  <2>1. run.name \in DOMAIN reg.agents /\ run.name \in DOMAIN began.reg.agents
    BY <1>1 DEF Holds, Keeps, None
  <2>2. Declares(reg, run.name) = Declares(began.reg, run.name)
    BY <1>1 DEF Agrees
  <2> QED BY <1>1, <2>1, <2>2, SameAgent
<1>2. CASE run.kind = "workflow"
  <2>1. run.name \in DOMAIN reg.workflows /\ run.name \in DOMAIN began.reg.workflows
    BY <1>2 DEF Holds, Keeps, None
  <2>2. WorkflowHash(reg, run.name) = WorkflowHash(began.reg, run.name)
    BY <1>2 DEF Agrees
  <2> QED BY <1>2, <2>1, <2>2, SameCoordinator
<1>3. CASE run.kind = "team"
  <2>1. run.name \in DOMAIN reg.teams /\ run.name \in DOMAIN began.reg.teams
    BY <1>3 DEF Agrees, Keeps
  <2>2. TeamHash(reg, run.name) = TeamHash(began.reg, run.name)
    BY <1>3 DEF Agrees
  <2> QED BY <1>3, <2>1, <2>2, SameCoordinator
<1>4. CASE run.kind = None
  BY <1>4 DEF Means, None
<1> QED BY <1>1, <1>2, <1>3, <1>4 DEF Shape

-----------------------------------------------------------------------------
LEMMA InitInv == Init => IInv
BY DEF Init, IInv, Shape, Holds, Keeps, Agrees, NoRun, Idle, None

(* A step that leaves the run and its beginning alone, and holds it no more   *)
(* than before under the same registries, keeps the invariant.                *)
LEMMA Untouched ==
  IInv /\ UNCHANGED <<up, reg, run, held, began>> => IInv'
BY DEF IInv, Shape, Holds, Keeps, Agrees

LEMMA DeployStep == ASSUME NEW config, IInv, Deploy(config) PROVE IInv'
<1>1. UNCHANGED <<run, held, began>> /\ ~up
  BY DEF Deploy
<1>2. held.phase = None
  BY <1>1 DEF IInv, Holds
<1> QED BY <1>1, <1>2 DEF IInv, Shape, Holds, Keeps, Agrees, None

LEMMA TakeDownStep == ASSUME IInv, TakeDown PROVE IInv'
<1>1. UNCHANGED <<run, began>> /\ held' = Idle
  BY DEF TakeDown
<1> QED BY <1>1 DEF IInv, Shape, Holds, Keeps, Agrees, Idle, None

LEMMA RefuseStep == ASSUME NEW code, IInv, Refuse(code) PROVE IInv'
BY Untouched DEF Refuse

LEMMA StartStep ==
  ASSUME NEW t \in Targets, IInv, Start(t)
  PROVE  IInv'
<1> USE DEF IInv
<1>1. CASE \E code : Refuse(code)
  BY <1>1, RefuseStep
<1>2. CASE t.kind = "agent" /\ ~(\E code : Refuse(code))
  <2> DEFINE agent == reg.agents[t.name]
             model == ResolveModel(reg, agent, t.model)
             budget == BudgetOf(reg, None, agent)
  <2>1. StartAgent(t)
    BY <1>2 DEF Start
  <2>2. t.name \in DOMAIN reg.agents
    BY <1>2, <2>1 DEF StartAgent
  <2>a. ~(model.gateway = None) /\ ~("inputSchema" \in agent.flaws)
    BY <1>2, <2>1 DEF StartAgent
  <2>b. /\ run' = [status |-> "running", kind |-> "agent", name |-> t.name,
                   modelName |-> IF t.model # None \/ agent.model.kind = "name"
                                 THEN model.name ELSE None,
                   hash |-> AgentHash(reg, t.name, model.name, budget),
                   budget |-> budget, search |-> agent.search]
        /\ held' = [Idle EXCEPT !.phase = "taken", !.request = t.model]
        /\ began' = [reg |-> reg,
                     terms |-> [Idle EXCEPT !.modelName = model.name,
                                            !.gateway = model.gateway,
                                            !.search = agent.search]]
        /\ UNCHANGED <<up, reg>>
    BY <2>1, <2>2, <2>a DEF StartAgent
  <2>c. up /\ began'.reg = reg /\ reg' = reg /\ up' = up
    BY <2>b DEF Start
  <2>3. Erased(run'.hash) = Declares(reg, t.name)
    BY <2>b, ErasedHash
  <2> HIDE DEF agent, model, budget
  <2>4. Shape' /\ Holds' /\ Agrees'
    BY <2>2, <2>b, <2>c DEF Shape, Holds, Agrees, Idle
  <2>5. Keeps'
    BY <2>2, <2>b, <2>c, <2>3 DEF Keeps, Declares
  <2> QED BY <2>4, <2>5
<1>3. CASE t.kind # "agent" /\ ~(\E code : Refuse(code))
  <2>1. StartCoordinator(t) /\ t.kind \in {"workflow", "team"} /\ up
    BY <1>3, RedeployAssumption DEF Start
  <2>a. t.name \in DOMAIN reg.workflows
    BY <1>3, <2>1 DEF StartCoordinator
  <2>b. t.kind = "team" => t.name \in DOMAIN reg.teams
    BY <1>3, <2>1 DEF StartCoordinator
  <2>c. ~((t.kind = "team") # (t.name \in DOMAIN reg.teams))
    BY <1>3, <2>1 DEF StartCoordinator
  <2>2. /\ run' = [NoRun EXCEPT !.status = "running", !.kind = t.kind, !.name = t.name,
                                !.hash = CoordinatorHash(reg, t.kind, t.name)]
        /\ held' = [Idle EXCEPT !.phase = "taken"]
        /\ began' = [reg |-> reg, terms |-> Idle] /\ reg' = reg /\ up' = up
    BY <2>1, <2>a, <2>c DEF StartCoordinator
  <2>d. /\ run'.kind = t.kind /\ run'.name = t.name
        /\ run'.hash = CoordinatorHash(reg, t.kind, t.name)
    BY <2>2 DEF NoRun
  <2>3. /\ t.kind = "team" => run'.hash = TeamHash(reg, t.name)
        /\ t.kind = "workflow" => run'.hash = WorkflowHash(reg, t.name)
        /\ run'.kind = t.kind /\ run'.name = t.name
    BY <2>b, <2>d DEF CoordinatorHash
  <2>4. Shape' /\ Holds' /\ Agrees'
    BY <2>1, <2>a, <2>2, <2>3 DEF Shape, Holds, Agrees, Idle, NoRun
  <2>5. Keeps'
    BY <2>1, <2>a, <2>b, <2>2, <2>3 DEF Keeps, TeamHash, WorkflowHash
  <2> QED BY <2>4, <2>5
<1> QED BY <1>1, <1>2, <1>3

-----------------------------------------------------------------------------
(* A run that ends is held by nobody, and its hash stays what it was.         *)
LEMMA FailStep ==
  ASSUME NEW code, IInv, FailRun(code), UNCHANGED <<up, reg, began>>
  PROVE  IInv'
<1>1. run'.kind = run.kind /\ run'.name = run.name /\ run'.hash = run.hash
  BY DEF FailRun, IInv, Shape
<1>2. Shape' /\ Holds' /\ Agrees'
  BY <1>1 DEF FailRun, IInv, Shape, Holds, Agrees, Idle, None
<1>3. Keeps'
  BY <1>1 DEF IInv, Keeps, Declares, WorkflowHash, TeamHash
<1> QED BY <1>2, <1>3 DEF IInv

(* An execution begins only when the hash in force is the one in the store.   *)
LEMMA BeginStep == ASSUME IInv, Begin PROVE IInv'
<1> USE DEF IInv
<1>0. held.phase = "taken" /\ UNCHANGED <<up, reg, began>>
  BY DEF Begin
<1>1. CASE \E code : FailRun(code)
  BY <1>0, <1>1, FailStep
<1>2. CASE run' = run /\ held' = [held EXCEPT !.phase = "stuck"]
  BY <1>0, <1>2 DEF Shape, Holds, Keeps, Agrees, None
<1>3. CASE BeginAgent /\ ~(\E code : FailRun(code)) /\ held'.phase # "stuck"
  <2> DEFINE agent == reg.agents[run.name]
             model == ResolveModel(reg, agent,
                        IF run.modelName # None THEN run.modelName ELSE held.request)
             budget == BudgetOf(reg, run.budget, agent)
  <2>1. /\ run.kind = "agent"
        /\ run.hash = AgentHash(reg, run.name, model.name, budget)
        /\ run' = run
        /\ held' = [held EXCEPT !.phase = "executing", !.modelName = model.name,
                                !.gateway = model.gateway, !.search = run.search]
    BY <1>3 DEF BeginAgent, Execute, Shape
  <2>2. Erased(run.hash) = Declares(reg, run.name)
    BY <2>1, ErasedHash
  <2>3. Declares(reg, run.name) = Declares(began.reg, run.name)
    BY <2>1, <2>2 DEF Keeps
  <2> HIDE DEF agent, model, budget
  <2>4. DOMAIN held' = DOMAIN held
    BY <2>1
  <2>5. Shape' /\ Holds' /\ Keeps'
    BY <1>0, <2>1, <2>4 DEF Shape, Holds, Keeps, None
  <2>6. Agrees'
    BY <1>0, <2>1, <2>3 DEF Agrees
  <2> QED BY <2>5, <2>6
<1>4. CASE BeginCoordinator /\ ~(\E code : FailRun(code))
  <2>1. /\ run.kind # "agent"
        /\ run.hash = CoordinatorHash(reg, run.kind, run.name)
        /\ run' = run
        /\ held' = [held EXCEPT !.phase = "executing", !.modelName = None,
                                !.gateway = None, !.search = None]
    BY <1>4 DEF BeginCoordinator, Execute
  <2>2. run.kind = "workflow" => WorkflowHash(reg, run.name) = WorkflowHash(began.reg, run.name)
    BY <2>1 DEF CoordinatorHash, Keeps
  <2>3. run.kind = "team" => run.name \in DOMAIN reg.teams
    <3>1. SUFFICES ASSUME run.kind = "team", run.name \notin DOMAIN reg.teams PROVE FALSE
      OBVIOUS
    <3>2. TeamHash(began.reg, run.name) = [name |-> None]
      BY <2>1, <3>1 DEF CoordinatorHash, Keeps
    <3>3. DOMAIN TeamHash(began.reg, run.name)
            = {"name", "version", "supervisor", "members", "limits"}
      BY DEF TeamHash
    <3>4. DOMAIN [name |-> None] = {"name"}
      OBVIOUS
    <3> QED BY <3>2, <3>3, <3>4
  <2>4. run.kind = "team" => TeamHash(reg, run.name) = TeamHash(began.reg, run.name)
    BY <2>1, <2>3 DEF CoordinatorHash, Keeps
  <2>5. Shape' /\ Holds' /\ Keeps'
    BY <1>0, <2>1 DEF Shape, Holds, Keeps, None
  <2>6. Agrees'
    BY <1>0, <2>1, <2>2, <2>3, <2>4 DEF Agrees
  <2> QED BY <2>5, <2>6
<1> QED
  <2>1. BeginAgent \/ BeginCoordinator
    BY DEF Begin
  <2>2. CASE BeginAgent /\ held'.phase = "stuck" /\ ~(\E code : FailRun(code))
    <3>1. run' = run /\ held' = [held EXCEPT !.phase = "stuck"]
      BY <2>2 DEF BeginAgent, Execute, Shape
    <3> QED BY <3>1, <1>2
  <2> QED BY <2>1, <2>2, <1>1, <1>3, <1>4

(* A checkpoint hashes the definition that executes, which is the one in force. *)
LEMMA CheckpointStep == ASSUME NEW status, IInv, Checkpoint(status) PROVE IInv'
<1> USE DEF IInv
<1>0. held.phase = "executing" /\ UNCHANGED <<up, reg, began>>
  BY DEF Checkpoint
<1>1. CASE FailRun("RUN_NOT_RESUMABLE")
  BY <1>0, <1>1, FailStep
<1>2. CASE ~FailRun("RUN_NOT_RESUMABLE")
  <2> DEFINE budget == BudgetOf(reg, run.budget, reg.agents[run.name])
             hash == AgentHash(reg, run.name, held.modelName, budget)
  <2>1. held' = held \/ held' = Idle
    BY <1>2 DEF Checkpoint
  <2>2. CASE run.kind # "agent"
    <3>1. run' = [run EXCEPT !.status = status]
      BY <1>2, <2>2 DEF Checkpoint
    <3>2. /\ run'.kind = run.kind /\ run'.name = run.name /\ run'.hash = run.hash
          /\ DOMAIN run' = DOMAIN run
      BY <3>1 DEF Shape
    <3>3. Shape' /\ Holds' /\ Agrees'
      BY <1>0, <2>1, <2>2, <3>2 DEF Shape, Holds, Agrees, Idle, None, WorkflowHash, TeamHash
    <3>4. Keeps'
      BY <1>0, <2>2, <3>2 DEF Keeps, WorkflowHash, TeamHash
    <3> QED BY <3>3, <3>4
  <2>3. CASE run.kind = "agent"
    <3>1. run' = [run EXCEPT !.status = status, !.modelName = held.modelName,
                             !.budget = budget, !.hash = hash]
      BY <1>2, <2>3 DEF Checkpoint
    <3>2. Erased(hash) = Declares(began.reg, run.name)
      <4>1. Erased(hash) = Declares(reg, run.name)
        BY ErasedHash
      <4> QED BY <1>0, <2>3, <4>1 DEF Agrees
    <3> HIDE DEF budget, hash
    <3>3. /\ run'.kind = run.kind /\ run'.name = run.name /\ run'.hash = hash
          /\ DOMAIN run' = DOMAIN run
      BY <3>1 DEF Shape
    <3>4. Shape' /\ Holds'
      BY <1>0, <2>1, <2>3, <3>3 DEF Shape, Holds, Idle, None
    <3>5. Agrees'
      BY <1>0, <2>1, <2>3, <3>3 DEF Agrees, Idle, None, Declares
    <3>6. Keeps'
      BY <1>0, <2>3, <3>2, <3>3 DEF Keeps, Declares
    <3> QED BY <3>4, <3>5, <3>6
  <2> QED BY <2>2, <2>3
<1> QED BY <1>1, <1>2

LEMMA CompleteStep == ASSUME IInv, Complete PROVE IInv'
<1>2. /\ run'.kind = run.kind /\ run'.name = run.name /\ run'.hash = run.hash
      /\ DOMAIN run' = DOMAIN run
  BY DEF Complete, IInv, Shape
<1>3. Shape' /\ Holds' /\ Agrees'
  BY <1>2 DEF Complete, IInv, Shape, Holds, Agrees, Idle, None
<1>4. Keeps'
  BY <1>2 DEF Complete, IInv, Keeps, Declares, WorkflowHash, TeamHash
<1> QED BY <1>3, <1>4 DEF IInv

(* Taking a run up changes neither its hash nor its name, and executes nothing. *)
LEMMA TakeUpStep ==
  ASSUME NEW model, IInv, up, TakeUp(model),
         run.kind = "agent" => run.name \in DOMAIN reg.agents,
         run.kind = "workflow" => run.name \in DOMAIN reg.workflows
  PROVE  IInv'
<1>1. /\ run'.kind = run.kind /\ run'.name = run.name /\ run'.hash = run.hash
      /\ DOMAIN run' = DOMAIN run
  BY DEF TakeUp, IInv, Shape
<1>2. UNCHANGED <<up, reg, began>> /\ held' = [Idle EXCEPT !.phase = "taken", !.request = model]
  BY DEF TakeUp
<1>3. Shape' /\ Holds' /\ Agrees'
  BY <1>1, <1>2 DEF IInv, Shape, Holds, Agrees, Idle, None
<1>4. Keeps'
  BY <1>1, <1>2 DEF IInv, Keeps, Declares, WorkflowHash, TeamHash
<1> QED BY <1>3, <1>4 DEF IInv

LEMMA ResumeStep == ASSUME IInv, Resume PROVE IInv'
<1>1. CASE \E code : Refuse(code)
  BY <1>1, RefuseStep
<1>2. CASE ResumeAgent /\ ~(\E code : Refuse(code))
  <2>1. run.kind = "agent"
    BY <1>2 DEF ResumeAgent
  <2>2. run.name \in DOMAIN reg.agents
    BY <1>2 DEF ResumeAgent
  <2>3. \E model \in CheckpointModels(reg) : TakeUp(model.name)
    BY <1>2 DEF ResumeAgent
  <2> QED BY <2>1, <2>2, <2>3, TakeUpStep DEF Resume
<1>3. CASE ResumeCoordinator /\ ~(\E code : Refuse(code))
  <2>1. run.kind # "agent" /\ run.name \in DOMAIN reg.workflows
    BY <1>3 DEF ResumeCoordinator
  <2>2. TakeUp(None)
    BY <1>3 DEF ResumeCoordinator
  <2> QED BY <2>1, <2>2, TakeUpStep DEF Resume
<1> QED BY <1>1, <1>2, <1>3 DEF Resume

-----------------------------------------------------------------------------
LEMMA NextInv == IInv /\ [Next]_vars => IInv'
<1> SUFFICES ASSUME IInv, [Next]_vars PROVE IInv'
  OBVIOUS
<1>1. CASE \E config \in Configs : Deploy(config)
  BY <1>1, DeployStep
<1>2. CASE TakeDown
  BY <1>2, TakeDownStep
<1>3. CASE \E t \in Targets : Start(t)
  BY <1>3, StartStep
<1>4. CASE Begin
  BY <1>4, BeginStep
<1>5. CASE \E status \in {"running", "paused"} : Checkpoint(status)
  BY <1>5, CheckpointStep
<1>6. CASE Complete
  BY <1>6, CompleteStep
<1>7. CASE Resume
  BY <1>7, ResumeStep
<1>8. CASE UNCHANGED vars
  BY <1>8, Untouched DEF vars
<1> QED BY <1>1, <1>2, <1>3, <1>4, <1>5, <1>6, <1>7, <1>8 DEF Next

(* For every set of configurations and targets: a run that executes does so   *)
(* under the definition it began with (definition-hash.ts, compared by        *)
(* resumeAgentBody, executeAgent and their workflow counterparts).            *)
THEOREM RunsExecuteAsTheyBegan == Spec => []ExecutesAsItBegan
<1>1. Init => IInv
  BY InitInv
<1>2. IInv /\ [Next]_vars => IInv'
  BY NextInv
<1>3. IInv => ExecutesAsItBegan
  BY InvariantSuffices
<1> QED BY <1>1, <1>2, <1>3, PTL DEF Spec
=============================================================================
