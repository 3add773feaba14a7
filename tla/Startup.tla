------------------------------- MODULE Startup ------------------------------
(* createFevex building its registries from a configuration, one loop of      *)
(* createComposition a step, until a host exists or the configuration is      *)
(* refused.  What it accepts is compared with what it should accept.          *)
EXTENDS Composition, Naturals, Sequences, FiniteSets

CONSTANT Configs
VARIABLES config, reg, stage

vars == <<config, reg, stage>>

Stages == <<"config", "models", "providers", "tools", "agents", "references",
            "workflows", "teams", "defaults", "done">>

Init ==
  /\ config \in Configs
  /\ reg = EmptyRegistries
  /\ stage = 1

(* Mutant: a refusal is noted, and the next loop looked at.                    *)
LoopOn(name, result) ==
  /\ Stages[stage] = name
  /\ reg.code = Ok
  /\ reg' = result
  /\ stage' = stage + 1
  /\ UNCHANGED config

(* One loop; the first refusal is thrown, so nothing is done after it.        *)
Loop(name, result) ==
  /\ Stages[stage] = name
  /\ reg.code = Ok
  /\ reg' = result
  /\ stage' = IF result.code = Ok THEN stage + 1 ELSE Len(Stages)
  /\ UNCHANGED config

ReadConfig == Loop("config", CheckConfig(config, reg))
ReadModels == Loop("models", RegisterModels(config, reg))
ReadProviders == Loop("providers", RegisterProviders(config, reg))
ReadTools == Loop("tools", CheckPolicies(config, RegisterTools(config, reg)))
ReadAgents == Loop("agents", RegisterAgents(config, reg))
ReadReferences == Loop("references", ResolveReferences(config, reg))
ReadWorkflows == Loop("workflows", RegisterWorkflows(config, reg))
ReadTeams == Loop("teams", RegisterTeams(config, reg))
ReadDefaults == Loop("defaults", FillDefaults(config, reg))

Next ==
  \/ ReadConfig \/ ReadModels \/ ReadProviders \/ ReadTools \/ ReadAgents
  \/ ReadReferences \/ ReadWorkflows \/ ReadTeams \/ ReadDefaults

Spec == Init /\ [][Next]_vars

-----------------------------------------------------------------------------
Done == Stages[stage] = "done"
Accepted == Done /\ reg.code = Ok

Declared(kind) == {config[kind][i] : i \in DOMAIN config[kind]}
Named(kind) == {d.name : d \in Declared(kind)}

(* The registries keep their shape, and a refusal ends the start at once.     *)
TypeOK ==
  /\ stage \in DOMAIN Stages
  /\ DOMAIN reg = DOMAIN EmptyRegistries
  /\ reg.memory \in BOOLEAN
  /\ reg.code # Ok => Done

(* The tools a reader of the configuration would say it declares: where each  *)
(* comes from, and the name under which an agent is to ask for it.            *)
ListsOf(c) == IF c.allowlist # {} THEN c.allowlist ELSE c.allow
AllowedRemotes ==
  UNION {{[from |-> c.name, remote |-> r] : r \in UNION {ToSet(l) : l \in ListsOf(c)}} :
         c \in Declared("connections")}

NameOfRemote(r) == r.from \o <<"_", "_">> \o r.remote

(* What is accepted is in force, all of it: each declared tool, each remote   *)
(* tool a connection allows, each agent, workflow and team is the one a run   *)
(* finds under its name, and none has taken the place of another, whether     *)
(* two of a kind, a team and a workflow, or two connection tools whose names  *)
(* come out alike.                                                            *)
NothingIsReplaced ==
  Accepted =>
    /\ \A r \in AllowedRemotes :
         /\ NameOfRemote(r) \in DOMAIN reg.tools
         /\ reg.tools[NameOfRemote(r)].source = <<r.from, r.remote>>
    /\ \A d \in Declared("tools") : reg.tools[d.name] = d
    /\ Cardinality(DOMAIN reg.tools) = Len(config.tools) + Cardinality(AllowedRemotes)
    /\ \A d \in Declared("agents") : reg.agents[d.name] = d
    /\ \A d \in Declared("workflows") : reg.workflows[d.name].team = FALSE
    /\ Cardinality(DOMAIN reg.workflows) = Len(config.workflows) + Len(config.teams)

(* A run of what was accepted never looks up a name that is not there: the    *)
(* models, tools and providers of every agent, an agent's forced tool among   *)
(* its own, the supervisor and members of every team, the sandbox of every    *)
(* tool that asks for one, and the memory of every agent that has some.       *)
ReferencesResolve ==
  Accepted =>
    /\ \A n \in DOMAIN reg.agents : LET a == reg.agents[n] IN
         /\ a.model.kind # "gateway" =>
              (IF a.model.kind = "name" THEN a.model.name ELSE "default") \in DOMAIN reg.models
         /\ \A i \in DOMAIN a.tools : a.tools[i] \in DOMAIN reg.tools
         /\ \A t \in a.toolChoice : \E i \in DOMAIN a.tools : a.tools[i] = t
         /\ \A i \in DOMAIN a.context : a.context[i] \in DOMAIN reg.providers
         /\ \A i \in DOMAIN a.skills : a.skills[i] \in DOMAIN reg.providers
         /\ (\E m \in a.memory : m.read \/ m.write) => reg.memory
    /\ \A n \in DOMAIN reg.teams : LET t == reg.teams[n] IN
         /\ n \in DOMAIN reg.workflows /\ reg.workflows[n].team
         /\ t.supervisor \in DOMAIN reg.agents
         /\ \A i \in DOMAIN t.members : t.members[i] \in DOMAIN reg.agents
    /\ \A n \in DOMAIN reg.tools : reg.tools[n].sandbox => config.sandbox

(* Nothing sound is turned away: a configuration whose definitions are all    *)
(* well formed, whose names are all its own, and whose references are all     *)
(* declared, whatever their order, is accepted.  Underscores at the seam of   *)
(* a connection and its tool can make two names alike; those are not sound.   *)
Sound ==
  /\ config.flaws = {}
  /\ \A kind \in {"models", "providers", "tools", "agents", "workflows", "teams"} :
       /\ \A d \in Declared(kind) : d.flaws = {}
       /\ Cardinality(Named(kind)) = Len(config[kind])
  /\ Named("workflows") \cap Named("teams") = {}
  /\ \A kind \in {"models", "providers", "agents", "workflows", "teams"} :
       "" \notin Named(kind)
  /\ <<>> \notin Named("tools")
  /\ \A c \in Declared("connections") :
       /\ c.flaws = {} /\ c.policies = <<>>
       /\ \E list \in ListsOf(c) :
            list # <<>> /\ Cardinality(ToSet(list)) = Len(list)
  /\ LET names == Named("tools") \cup {NameOfRemote(r) : r \in AllowedRemotes}
     IN  /\ Cardinality(names) = Len(config.tools) + Cardinality(AllowedRemotes)
         /\ \A n \in names : Len(n) < 3 \/ SubSeq(n, 1, 3) # <<"fevex", "_", "_">>
         /\ \A a \in Declared("agents") :
              ToSet(a.tools) \subseteq names /\ a.toolChoice \subseteq ToSet(a.tools)
  /\ \A r \in AllowedRemotes :
       /\ r.remote # <<>> /\ r.from # <<>>
       /\ \A i \in 1 .. Len(r.remote) - 1 : SubSeq(r.remote, i, i + 1) # <<"_", "_">>
  /\ \A a \in Declared("agents") :
       /\ a.model.kind = "name" => a.model.name \in Named("models")
       /\ a.model.kind = "none" => "default" \in Named("models")
       /\ ToSet(a.context) \cup ToSet(a.skills) \subseteq Named("providers")
       /\ Cardinality(ToSet(a.tools)) = Len(a.tools)
       /\ Cardinality(ToSet(a.context)) = Len(a.context)
       /\ Cardinality(ToSet(a.skills)) = Len(a.skills)
  /\ \A t \in Declared("teams") :
       {t.supervisor} \cup ToSet(t.members) \subseteq Named("agents")
  /\ \A d \in Declared("tools") : d.sandbox => config.sandbox

SoundConfigsAreAccepted == Done /\ Sound => reg.code = Ok

(* What was accepted is well formed, an agent's input schema included, for    *)
(* which configuration.ts 873 has a message of its own.                       *)
AgentSchemasAreChecked ==
  Accepted => \A n \in DOMAIN reg.agents : reg.agents[n].flaws = {}
=============================================================================
