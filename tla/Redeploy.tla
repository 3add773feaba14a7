------------------------------ MODULE Redeploy ------------------------------
(* A host is taken down and another put up over the same store while a run    *)
(* is paused or under way.  The run resumes only if the definition it began   *)
(* with is still the one declared: the hash kept in its checkpoint is         *)
(* compared when it is taken up again, and once more when it executes.        *)
(* A hash is the record of what is hashed; sorting keys and dropping          *)
(* undefined ones is what makes it a record.  One run; request options other  *)
(* than the model are left out.                                               *)
EXTENDS Composition

CONSTANTS Configs,    \* what may be deployed
          Targets     \* what may be run: its kind, its name and the model asked for

ASSUME RedeployAssumption == \A t \in Targets : t.kind \in {"agent", "workflow", "team"}

VARIABLES up, reg,    \* the host, and the registries it was built with
          run,        \* the run's record and checkpoint, in the store
          held,       \* what the host does with the run
          began,      \* the registries and the terms the run began under
          told        \* the error code of the last call, or "ok"

vars == <<up, reg, run, held, began, told>>

Changed == "RUN_DEFINITION_CHANGED"

NoRun == [status |-> None, kind |-> None, name |-> None, modelName |-> None,
          hash |-> [name |-> None], budget |-> None, search |-> None]
Idle == [phase |-> None, request |-> None, modelName |-> None, gateway |-> None, search |-> None]

Init ==
  /\ up = FALSE /\ reg = EmptyRegistries
  /\ run = NoRun /\ held = Idle
  /\ began = [reg |-> EmptyRegistries, terms |-> Idle]
  /\ told = Ok

-----------------------------------------------------------------------------
(* definition-hash.ts                                                          *)
(* Mutant: a risk that is left out is hashed as left out.                      *)
RiskAsWritten(d) ==
  [name |-> d.name, surface |-> d.surface, sandbox |-> d.sandbox, source |-> d.source,
   risk |-> d.risk]
TransportableTool(d) ==
  [name |-> d.name, surface |-> d.surface, sandbox |-> d.sandbox, source |-> d.source,
   risk |-> IF d.risk = None THEN "read" ELSE d.risk]

(* Mutants: the tools are hashed by name only; the model is not hashed.        *)
HashOfNames(r, name, modelName, budget) ==
  LET a == r.agents[name]
  IN  [name |-> name, modelName |-> modelName, instructions |-> a.instructions,
       context |-> a.context, memory |-> a.memory, skills |-> a.skills,
       toolChoice |-> a.toolChoice, contextBudget |-> budget, tools |-> a.tools]
HashOfNoModel(r, name, modelName, budget) ==
  LET a == r.agents[name]
  IN  [name |-> name, instructions |-> a.instructions,
       context |-> a.context, memory |-> a.memory, skills |-> a.skills,
       toolChoice |-> a.toolChoice, contextBudget |-> budget,
       tools |-> [i \in DOMAIN a.tools |-> TransportableTool(r.tools[a.tools[i]])]]

AgentHash(r, name, modelName, budget) ==
  LET a == r.agents[name]
  IN  [name |-> name, modelName |-> modelName, instructions |-> a.instructions,
       context |-> a.context, memory |-> a.memory, skills |-> a.skills,
       toolChoice |-> a.toolChoice, contextBudget |-> budget,
       tools |-> [i \in DOMAIN a.tools |-> TransportableTool(r.tools[a.tools[i]])]]

WorkflowHash(r, name) ==
  LET w == r.workflows[name]
  IN  [name |-> name, version |-> w.version, limits |-> w.limits, events |-> w.events]

TeamHash(r, name) ==
  LET t == r.teams[name]
  IN  [name |-> name, version |-> t.version, supervisor |-> t.supervisor,
       members |-> t.members, limits |-> t.limits]

(* The hash of a coordinator; none when a team is no longer one.              *)
CoordinatorHash(r, kind, name) ==
  IF kind = "team"
  THEN IF name \in DOMAIN r.teams THEN TeamHash(r, name) ELSE [name |-> None]
  ELSE WorkflowHash(r, name)

-----------------------------------------------------------------------------
(* run-core.ts: the gateway behind a name, an agent's own gateway only when   *)
(* no name was asked for.                                                     *)
Registered(r, name) == IF name \in DOMAIN r.models THEN r.models[name].gateway ELSE None

ResolveModel(r, agent, requested) ==
  LET name == IF requested # None THEN requested
              ELSE IF agent.model.kind = "name" THEN agent.model.name ELSE "default"
  IN  [name |-> name,
       gateway |-> IF requested = None /\ agent.model.kind = "gateway"
                   THEN agent.model.name ELSE Registered(r, name)]

Fits(r, resolved) ==
  run.hash = AgentHash(r, run.name, resolved.name, run.budget)

(* The models under which the checkpoint's hash comes out: the preferred one, *)
(* else, if the checkpoint names none, any other of the registry.             *)
CheckpointModels(r) ==
  LET agent == r.agents[run.name]
      preferred == ResolveModel(r, agent, run.modelName)
      others == {ResolveModel(r, agent, n) : n \in DOMAIN r.models}
  IN  IF Fits(r, preferred) THEN {preferred}
      ELSE IF run.modelName # None THEN {}
      ELSE {o \in others : Fits(r, o)}

BudgetOf(r, kept, agent) ==
  IF kept # None THEN kept ELSE IF agent.budget # None THEN agent.budget ELSE r.budget

-----------------------------------------------------------------------------
(* A configuration that is refused puts no host up.                           *)
Deploy(config) ==
  /\ ~up
  /\ LET r == Compose(config)
     IN  /\ told' = r.code
         /\ up' = (r.code = Ok)
         /\ reg' = IF r.code = Ok THEN r ELSE reg
  /\ UNCHANGED <<run, held, began>>

(* The host dies, or is shut down while it does not hold the run (a shutdown   *)
(* that finds it under way cancels it, which RuntimeProcess models).          *)
TakeDown ==
  /\ up
  /\ up' = FALSE /\ held' = Idle /\ told' = Ok
  /\ UNCHANGED <<reg, run, began>>

Refuse(code) == told' = code /\ UNCHANGED <<up, reg, run, held, began>>

StartAgent(t) ==
  LET agent == reg.agents[t.name]
      model == ResolveModel(reg, agent, t.model)
      budget == BudgetOf(reg, None, agent)
  IN  IF t.name \notin DOMAIN reg.agents THEN Refuse("AGENT_NOT_FOUND")
      ELSE IF model.gateway = None THEN Refuse("MODEL_NOT_FOUND")
      ELSE IF "inputSchema" \in agent.flaws THEN Refuse("SCHEMA_NOT_TRANSPORTABLE")
      ELSE /\ run' = [status |-> "running", kind |-> "agent", name |-> t.name,
                      modelName |-> IF t.model # None \/ agent.model.kind = "name"
                                    THEN model.name ELSE None,
                      hash |-> AgentHash(reg, t.name, model.name, budget),
                      budget |-> budget, search |-> agent.search]
           /\ held' = [Idle EXCEPT !.phase = "taken", !.request = t.model]
           /\ began' = [reg |-> reg,
                        terms |-> [Idle EXCEPT !.modelName = model.name,
                                               !.gateway = model.gateway,
                                               !.search = agent.search]]
           /\ told' = Ok
           /\ UNCHANGED <<up, reg>>

StartCoordinator(t) ==
  IF t.name \notin DOMAIN reg.workflows \/ (t.kind = "team") # (t.name \in DOMAIN reg.teams)
  THEN Refuse("NOT_FOUND")
  ELSE /\ run' = [NoRun EXCEPT !.status = "running", !.kind = t.kind, !.name = t.name,
                               !.hash = CoordinatorHash(reg, t.kind, t.name)]
       /\ held' = [Idle EXCEPT !.phase = "taken"]
       /\ began' = [reg |-> reg, terms |-> Idle]
       /\ told' = Ok
       /\ UNCHANGED <<up, reg>>

Start(t) ==
  /\ up /\ run = NoRun
  /\ IF t.kind = "agent" THEN StartAgent(t) ELSE StartCoordinator(t)

-----------------------------------------------------------------------------
(* The execution begins: the model is looked up again, outside the part that  *)
(* fails the run, and the hash compared again, inside it.  A model that is    *)
(* not found leaves the run held, its lease renewed, and nobody executing it. *)
FailRun(code) ==
  /\ run' = [run EXCEPT !.status = "failed"]
  /\ held' = Idle
  /\ told' = code

Execute(model, search) ==
  /\ held' = [held EXCEPT !.phase = "executing", !.modelName = model.name,
                          !.gateway = model.gateway, !.search = search]
  /\ told' = Ok
  /\ UNCHANGED run

BeginAgent ==
  LET agent == reg.agents[run.name]
      model == ResolveModel(reg, agent,
                 IF run.modelName # None THEN run.modelName ELSE held.request)
      budget == BudgetOf(reg, run.budget, agent)
  IN  /\ run.kind = "agent"
      /\ IF model.gateway = None
         THEN /\ held' = [held EXCEPT !.phase = "stuck"]
              /\ told' = "MODEL_NOT_FOUND" /\ UNCHANGED run
         ELSE IF run.hash # AgentHash(reg, run.name, model.name, budget)
         THEN FailRun(Changed)
         ELSE Execute(model, run.search)

BeginCoordinator ==
  /\ run.kind # "agent"
  /\ IF run.hash # CoordinatorHash(reg, run.kind, run.name)
     THEN FailRun(Changed)
     ELSE Execute([name |-> None, gateway |-> None], None)

Begin ==
  /\ held.phase = "taken"
  /\ BeginAgent \/ BeginCoordinator
  /\ UNCHANGED <<up, reg, began>>

(* A checkpoint on the way, before a tool is called or to pause: an agent     *)
(* with a gateway of its own cannot have one.                                 *)
Checkpoint(status) ==
  /\ held.phase = "executing"
  /\ IF run.kind = "agent" /\ reg.agents[run.name].model.kind = "gateway"
     THEN FailRun("RUN_NOT_RESUMABLE")
     ELSE /\ run' = IF run.kind # "agent" THEN [run EXCEPT !.status = status]
                    ELSE LET budget == BudgetOf(reg, run.budget, reg.agents[run.name])
                         IN  [run EXCEPT !.status = status,
                                         !.modelName = held.modelName, !.budget = budget,
                                         !.hash = AgentHash(reg, run.name, held.modelName, budget)]
          /\ held' = IF status = "paused" THEN Idle ELSE held
          /\ told' = Ok
  /\ UNCHANGED <<up, reg, began>>

(* Mutant: the host keeps a run that is over.                                  *)
CompleteHolding ==
  /\ held.phase = "executing"
  /\ run' = [run EXCEPT !.status = "completed"]
  /\ told' = Ok
  /\ UNCHANGED <<up, reg, held, began>>

Complete ==
  /\ held.phase = "executing"
  /\ run' = [run EXCEPT !.status = "completed"]
  /\ held' = Idle /\ told' = Ok
  /\ UNCHANGED <<up, reg, began>>

(* resumeRun of a paused run, recoverRun of one that nobody holds.            *)
TakeUp(model) ==
  /\ run' = [run EXCEPT !.status = "running"]
  /\ held' = [Idle EXCEPT !.phase = "taken", !.request = model]
  /\ told' = Ok
  /\ UNCHANGED <<up, reg, began>>

ResumeAgent ==
  LET preferred == ResolveModel(reg, reg.agents[run.name], run.modelName)
  IN  /\ run.kind = "agent"
      /\ IF run.name \notin DOMAIN reg.agents THEN Refuse(Changed)
         ELSE IF preferred.gateway = None THEN Refuse("MODEL_NOT_FOUND")
         ELSE IF CheckpointModels(reg) = {} THEN Refuse(Changed)
         ELSE \E model \in CheckpointModels(reg) : TakeUp(model.name)

ResumeCoordinator ==
  /\ run.kind # "agent"
  /\ IF run.name \notin DOMAIN reg.workflows THEN Refuse(Changed)
     ELSE IF run.hash # CoordinatorHash(reg, run.kind, run.name) THEN Refuse(Changed)
     ELSE TakeUp(None)

Resume ==
  /\ up /\ held = Idle /\ run.status \in {"running", "paused"}
  /\ ResumeAgent \/ ResumeCoordinator

Next ==
  \/ \E config \in Configs : Deploy(config)
  \/ TakeDown
  \/ \E t \in Targets : Start(t)
  \/ Begin
  \/ \E status \in {"running", "paused"} : Checkpoint(status)
  \/ Complete
  \/ Resume

Spec == Init /\ [][Next]_vars

-----------------------------------------------------------------------------
(* A host holds a run only while it is up and the run is running.             *)
TypeOK ==
  /\ up \in BOOLEAN
  /\ run.status \in {None, "running", "paused", "completed", "failed"}
  /\ held.phase \in {None, "taken", "executing", "stuck"}
  /\ held # Idle => up /\ run.status = "running"

(* What a definition says, told apart from how it is written: leaving a risk  *)
(* or a version out is the same as writing the one it then has.               *)
AgentMeans(r) ==
  LET a == r.agents[run.name]
  IN  <<a.instructions, a.context, a.skills, a.memory, a.toolChoice,
        [i \in DOMAIN a.tools |->
           LET d == r.tools[a.tools[i]]
           IN  <<d.name, d.surface, d.sandbox, d.source,
                 IF d.risk = "none" THEN "read" ELSE d.risk>>]>>

TeamMeans(r) ==
  LET t == r.teams[run.name] IN <<t.version, t.supervisor, t.members, t.limits>>

WorkflowMeans(r) ==
  LET w == r.workflows[run.name] IN <<w.version, w.limits, w.events>>

Means(r) ==
  IF run.kind = "agent" /\ run.name \in DOMAIN r.agents THEN AgentMeans(r)
  ELSE IF run.kind = "team" /\ run.name \in DOMAIN r.teams THEN TeamMeans(r)
  ELSE IF run.kind = "workflow" /\ run.name \in DOMAIN r.workflows THEN WorkflowMeans(r)
  ELSE <<>>

(* However often the host is replaced, a run executes under the definition it *)
(* began with: instructions, context, and every tool's schema, risk, sandbox  *)
(* and source; a team's members; a workflow's version.                        *)
ExecutesAsItBegan ==
  held.phase = "executing" => Means(reg) = Means(began.reg)

(* And on its own terms: the model by the name it had, and the tool search    *)
(* that was in force, although a later host would choose others.              *)
KeepsItsTerms ==
  held.phase = "executing" =>
    /\ held.modelName = began.terms.modelName
    /\ held.search = began.terms.search

(* A change is told only of what did change: a host that declares the same    *)
(* thing in other words, or changes what the run does not use, takes it up.   *)
ChangeIsReal ==
  told = Changed =>
    \/ Means(reg) # Means(began.reg)
    \/ /\ run.kind = "agent"
       /\ \/ began.terms.modelName \notin DOMAIN reg.models
          \/ BudgetOf(reg, None, reg.agents[run.name])
               # BudgetOf(began.reg, None, began.reg.agents[run.name])

(* A run that is refused for a changed definition is left as it was, so that  *)
(* the definition can be put back and the run resumed.                        *)
RefusalsLeaveTheRun == [][told' = Changed => run' = run]_vars

(* A workflow that was replaced by a team of its name is a changed definition. *)
WorkflowsStayWorkflows ==
  held.phase = "executing" /\ run.kind = "workflow" => ~reg.workflows[run.name].team

(* A run goes on with the gateway it began with while the host declares it.   *)
RunsKeepTheirModel ==
  /\ held.phase # "stuck"
  /\ held.phase = "executing" => held.gateway = began.terms.gateway
=============================================================================
