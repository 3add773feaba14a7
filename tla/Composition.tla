---------------------------- MODULE Composition ----------------------------
(* createComposition: the registries a host is built from, and the first      *)
(* reason for which a configuration is refused.  The loops of the code are    *)
(* folds over the declared definitions; every definition carries in `flaws`   *)
(* the names of its fields that are not of the shape the code asks for.       *)
(* Tool names are sequences of symbols, because the names of connection tools *)
(* are put together from two parts; all other names are strings, and "" is    *)
(* the blank one.                                                             *)
EXTENDS Naturals, Sequences, SequencesExt, FiniteSetsExt, TLC

(* INTERNAL_TOOL_PREFIX and the separator of namespacedToolName.              *)
Separator == <<"_", "_">>
InternalPrefix == <<"fevex">> \o Separator

Ok == "ok"
None == "none"

(* assertConfiguration, called in turn: the code of the first check to fail.  *)
FirstRefusal(checks) ==
  LET failed == {i \in DOMAIN checks : ~checks[i][1]}
  IN  IF failed = {} THEN Ok ELSE checks[Min(failed)][2]

(* One entry of a loop: refused for good, or stored under its name.           *)
Register(reg, kind, entry, code) ==
  IF reg.code # Ok THEN reg
  ELSE IF code # Ok THEN [reg EXCEPT !.code = code]
  ELSE [reg EXCEPT ![kind] = (entry.name :> entry) @@ @]

Repeats(seq) == ~IsInjective(seq)

EmptyRegistries ==
  [code |-> Ok, models |-> <<>>, providers |-> <<>>, tools |-> <<>>, agents |-> <<>>,
   workflows |-> <<>>, teams |-> <<>>, budget |-> None, memory |-> FALSE]

-----------------------------------------------------------------------------
(* The configuration object: the arrays, then the services.                   *)
ArrayFields == {"models", "agents", "workflows", "teams", "tools", "connections",
                "contextProviders"}
ServiceFields == {"contextBudget", "toolSearchCache", "toolSearch", "compaction",
                  "memoryStore", "onEvent", "runStore", "credentialStore", "sandbox",
                  "artifacts", "policies", "admission", "limits", "observability"}

CheckConfig(config, reg) ==
  [reg EXCEPT !.code = FirstRefusal(<<
     <<config.flaws \cap ArrayFields = {}, "INVALID_CONFIG">>,
     <<config.flaws \cap ServiceFields = {}, "INVALID_CONFIG">> >>)]

RegisterModels(config, reg) ==
  FoldLeft(LAMBDA r, d : Register(r, "models", d, FirstRefusal(<<
             <<d.name # "", "INVALID_MODEL">>,
             <<d.flaws \cap {"stream", "stateCodec"} = {}, "INVALID_MODEL">> >>)),
           reg, config.models)

RegisterProviders(config, reg) ==
  FoldLeft(LAMBDA r, d : Register(r, "providers", d, FirstRefusal(<<
             <<d.flaws \cap {"read"} = {}, "INVALID_CONTEXT_PROVIDER">>,
             <<d.name # "", "INVALID_CONTEXT_PROVIDER">>,
             <<d.name \notin DOMAIN r.providers, "DUPLICATE_CONTEXT_PROVIDER">> >>)),
           reg, config.providers)

-----------------------------------------------------------------------------
(* Connections: one tool per allowed remote name.  An option that is not      *)
(* given is the empty set, one that is given a set of one member.             *)
HasSeparator(name) ==
  \E i \in 1 .. Len(name) - 1 : SubSeq(name, i, i + 1) = Separator

NamespacedToolName(connection, remote) == connection \o Separator \o remote

Allowlist(c) == IF c.allowlist # {} THEN c.allowlist ELSE c.allow

(* Policies are read only when the tools of the connection are not given as   *)
(* an allow list.                                                             *)
Policy(c, remote) ==
  IF c.allow # {} \/ remote \notin DOMAIN c.policies
  THEN [flaws |-> {}, risk |-> None]
  ELSE c.policies[remote]

ConnectionCode(c) ==
  FirstRefusal(<<
    <<c.name # <<>>, "INVALID_CONNECTION">>,
    <<~HasSeparator(c.name), "INVALID_CONNECTION">>,
    <<"provider" \notin c.flaws, "INVALID_CONNECTION">>,
    <<\E list \in Allowlist(c) : list # <<>>, "INVALID_CONNECTION">>,
    <<"timeoutMs" \notin c.flaws, "INVALID_CONNECTION">> >>)

RemoteToolCode(c, list, i) ==
  FirstRefusal(<<
    <<list[i] # <<>>, "INVALID_TOOL">>,
    <<~HasSeparator(list[i]), "INVALID_TOOL">>,
    <<\A j \in 1 .. i - 1 : list[j] # list[i], "DUPLICATE_TOOL">>,
    <<Policy(c, list[i]).flaws \cap {"inputSchema", "outputSchema", "maxResultBytes"} = {},
      "INVALID_TOOL">> >>)

(* What a connection adds: the refusal, if any, and the expanded tools.       *)
ExpandConnection(c) ==
  IF ConnectionCode(c) # Ok THEN [code |-> ConnectionCode(c), tools |-> <<>>]
  ELSE LET list == CHOOSE l \in Allowlist(c) : TRUE
           codes == {i \in DOMAIN list : RemoteToolCode(c, list, i) # Ok}
       IN  [code |-> IF codes = {} THEN Ok ELSE RemoteToolCode(c, list, Min(codes)),
            tools |-> [i \in DOMAIN list |->
              [name |-> NamespacedToolName(c.name, list[i]),
               flaws |-> Policy(c, list[i]).flaws, risk |-> Policy(c, list[i]).risk,
               sandbox |-> FALSE, source |-> <<c.name, list[i]>>]]]

(* Every connection is expanded before the first tool is looked at.           *)
ExpandedTools(config) ==
  FoldLeft(LAMBDA acc, c : IF acc.code # Ok THEN acc
                           ELSE [code |-> ExpandConnection(c).code,
                                 tools |-> acc.tools \o ExpandConnection(c).tools],
           [code |-> Ok, tools |-> config.tools], config.connections)

ToolFields == {"description", "execute", "risk", "approval", "idempotency", "credentials",
               "sandbox", "maxResultBytes", "retry", "inputSchema", "outputSchema",
               "inputJsonSchema", "outputJsonSchema"}

(* Mutant: a later tool takes the place of an earlier one of its name.         *)
ToolReplaces(config, reg, d) ==
  FirstRefusal(<<
    <<d.name # <<>>, "INVALID_TOOL">>,
    <<~IsPrefix(InternalPrefix, d.name), "INVALID_TOOL">>,
    <<d.flaws \cap ToolFields = {}, "INVALID_TOOL">>,
    <<d.sandbox => config.sandbox, "INVALID_TOOL">> >>)

ToolCode(config, reg, d) ==
  FirstRefusal(<<
    <<d.name # <<>>, "INVALID_TOOL">>,
    <<~IsPrefix(InternalPrefix, d.name), "INVALID_TOOL">>,
    <<d.name \notin DOMAIN reg.tools, "DUPLICATE_TOOL">>,
    <<d.flaws \cap ToolFields = {}, "INVALID_TOOL">>,
    <<d.sandbox => config.sandbox, "INVALID_TOOL">> >>)

RegisterTools(config, reg) ==
  IF reg.code # Ok THEN reg
  ELSE IF ExpandedTools(config).code # Ok
  THEN [reg EXCEPT !.code = ExpandedTools(config).code]
  ELSE FoldLeft(LAMBDA r, d : Register(r, "tools", d, ToolCode(config, r, d)),
                reg, ExpandedTools(config).tools)

CheckPolicies(config, reg) ==
  IF reg.code = Ok /\ "policy" \in config.flaws
  THEN [reg EXCEPT !.code = "INVALID_POLICY"] ELSE reg

-----------------------------------------------------------------------------
(* Agents.  The check of an agent's input schema stands in the loop over the  *)
(* tools (configuration.ts 870), so "inputSchema" is not one of these.        *)
AgentFields == {"memory", "reasoning", "modelOptions", "elicitation", "approvalMode",
                "toolChoice", "limits", "contextBudget", "toolSearch", "outputSchema"}

AgentCode(reg, d) ==
  FirstRefusal(<<
    <<d.name # "", "INVALID_AGENT">>,
    <<"instructions" \notin d.flaws, "INVALID_AGENT">>,
    <<d.name \notin DOMAIN reg.agents, "DUPLICATE_AGENT">>,
    <<"model" \notin d.flaws, "INVALID_MODEL">>,
    <<~Repeats(d.tools), "DUPLICATE_TOOL">>,
    <<~Repeats(d.context) /\ ~Repeats(d.skills), "INVALID_AGENT">>,
    <<d.flaws \cap AgentFields = {}, "INVALID_AGENT">> >>)

RegisterAgents(config, reg) ==
  FoldLeft(LAMBDA r, d : Register(r, "agents", d, AgentCode(r, d)), reg, config.agents)

(* Mutants: the tool an agent must choose is not looked for among its own;     *)
(* an agent with a gateway of its own needs a default model all the same.     *)
ChoiceUnchecked(reg, d) ==
  FirstRefusal(<<
    <<d.model.kind = "name" => d.model.name \in DOMAIN reg.models, "MISSING_MODEL">>,
    <<d.model.kind = None => "default" \in DOMAIN reg.models, "MISSING_MODEL">>,
    <<ToSet(d.tools) \subseteq DOMAIN reg.tools, "MISSING_TOOL">>,
    <<d.toolChoice \subseteq DOMAIN reg.tools, "MISSING_TOOL">>,
    <<ToSet(d.context) \cup ToSet(d.skills) \subseteq DOMAIN reg.providers,
      "INVALID_AGENT">> >>)
DefaultRequired(reg, d) ==
  FirstRefusal(<<
    <<d.model.kind = "name" => d.model.name \in DOMAIN reg.models, "MISSING_MODEL">>,
    <<d.model.kind # "name" => "default" \in DOMAIN reg.models, "MISSING_MODEL">>,
    <<ToSet(d.tools) \subseteq DOMAIN reg.tools, "MISSING_TOOL">>,
    <<d.toolChoice \subseteq ToSet(d.tools), "MISSING_TOOL">>,
    <<ToSet(d.context) \cup ToSet(d.skills) \subseteq DOMAIN reg.providers,
      "INVALID_AGENT">> >>)

(* The references of an agent, once every agent is known.  A model is given   *)
(* by name, as a gateway of the agent's own, or left to the default.          *)
ReferenceCode(reg, d) ==
  FirstRefusal(<<
    <<d.model.kind = "name" => d.model.name \in DOMAIN reg.models, "MISSING_MODEL">>,
    <<d.model.kind = None => "default" \in DOMAIN reg.models, "MISSING_MODEL">>,
    <<ToSet(d.tools) \subseteq DOMAIN reg.tools, "MISSING_TOOL">>,
    <<d.toolChoice \subseteq ToSet(d.tools), "MISSING_TOOL">>,
    <<ToSet(d.context) \cup ToSet(d.skills) \subseteq DOMAIN reg.providers,
      "INVALID_AGENT">> >>)

ResolveReferences(config, reg) ==
  FoldLeft(LAMBDA r, d : IF r.code = Ok THEN [r EXCEPT !.code = ReferenceCode(r, d)] ELSE r,
           reg, config.agents)

-----------------------------------------------------------------------------
(* Workflows, and the teams compiled to workflows of the same name.           *)
WorkflowFields == {"run", "version", "limits", "inputSchema", "outputSchema", "events"}
TeamFields == {"supervisor", "run", "version", "members", "inputSchema", "outputSchema",
               "limits"}

VersionOf(d) == IF d.version = None THEN "1" ELSE d.version

RegisterWorkflows(config, reg) ==
  FoldLeft(LAMBDA r, d : Register(r, "workflows",
             [d EXCEPT !.version = VersionOf(d)], FirstRefusal(<<
               <<d.name # "", "INVALID_WORKFLOW">>,
               <<d.flaws \cap WorkflowFields = {}, "INVALID_WORKFLOW">>,
               <<d.name \notin DOMAIN r.workflows, "DUPLICATE_WORKFLOW">> >>)),
           reg, config.workflows)

TeamCode(reg, d) ==
  FirstRefusal(<<
    <<d.name # "", "INVALID_TEAM">>,
    <<d.flaws \cap {"supervisor", "run", "version", "members"} = {}, "INVALID_TEAM">>,
    <<~Repeats(d.members), "INVALID_TEAM">>,
    <<{d.supervisor} \cup ToSet(d.members) \subseteq DOMAIN reg.agents, "INVALID_TEAM">>,
    <<d.flaws \cap TeamFields = {}, "INVALID_TEAM">>,
    <<d.name \notin DOMAIN reg.teams, "DUPLICATE_TEAM">>,
    <<d.name \notin DOMAIN reg.workflows, "INVALID_TEAM">> >>)

(* teamAsWorkflow: the limits of a run are copied one by one, and that on     *)
(* the size of tool results is not among them.                                *)
TeamAsWorkflow(d) ==
  [name |-> d.name, version |-> VersionOf(d), flaws |-> {},
   limits |-> d.limits \cap {"maxSteps", "maxToolCalls", "maxInputTokens", "maxOutputTokens"},
   events |-> None, team |-> TRUE]

RegisterTeam(reg, d) ==
  LET code == IF reg.code # Ok THEN reg.code ELSE TeamCode(reg, d)
  IN  Register(Register(reg, "teams", [d EXCEPT !.version = VersionOf(d)], code),
               "workflows", TeamAsWorkflow(d), code)

RegisterTeams(config, reg) == FoldLeft(RegisterTeam, reg, config.teams)

(* What is returned: the defaults filled in.  A memory store is made when an  *)
(* agent reads memory, which it does unless told not to, or writes it.        *)
UsesMemory(reg) ==
  \E n \in DOMAIN reg.agents : \E m \in reg.agents[n].memory : m.read \/ m.write

FillDefaults(config, reg) ==
  IF reg.code # Ok THEN reg
  ELSE [reg EXCEPT !.budget = config.budget,
                   !.memory = config.memoryStore \/ UsesMemory(reg)]

Compose(config) ==
  LET a == RegisterProviders(config, RegisterModels(config, CheckConfig(config, EmptyRegistries)))
      b == CheckPolicies(config, RegisterTools(config, a))
      c == ResolveReferences(config, RegisterAgents(config, b))
      d == RegisterTeams(config, RegisterWorkflows(config, c))
  IN  FillDefaults(config, d)
=============================================================================
