------------------------------- MODULE AppSetup --------------------------------
(***************************************************************************)
(* App.Init (internal/app/app.go): from the configuration files and the     *)
(* environment to agents that have a provider and a model, and              *)
(* App.SwitchModel. Walking a map takes any order.                          *)
(***************************************************************************)
EXTENDS Configuration

CONSTANTS
    Disks,        \* configuration files as users may have them
    Environments, \* sets of variables that may be set
    SwitchAgents, \* bound: agents whose model is switched
    SwitchRefs    \* references they are switched to

ASSUME SetupAssumption ==
    /\ \A d \in Disks :
         /\ d = [named |-> d.named, main |-> [place \in Places |-> d.main[place]],
                 workspace |-> d.workspace]
         /\ \A place \in Places : IsFile(d.main[place])
         /\ IsFile(d.workspace)
    /\ SwitchRefs \subseteq References

VARIABLES
    pc,        \* where Init is
    disk,      \* EDCODE_CONFIG is set; the main file of each place; the workspace's
    env,       \* environment variables that are set
    config,    \* h.Config
    keys,      \* API key of each registered provider
    registry,  \* h.ProviderReg
    clients,   \* names of the MCP servers that were started
    todo,      \* entries of a map not yet walked
    agents     \* h.Agents

vars == <<pc, disk, env, config, keys, registry, clients, todo, agents>>

-----------------------------------------------------------------------------
Init ==
    /\ pc = "load"
    /\ disk \in Disks /\ env \in Environments
    /\ config = Default /\ keys = <<>> /\ registry = <<>>
    /\ clients = {} /\ todo = {} /\ agents = <<>>

LoadConfig ==
    /\ pc = "load"
    /\ config' = Load(disk.main[DefaultPath(disk)], env)
    /\ pc' = "register"
    /\ UNCHANGED <<disk, env, keys, registry, clients, todo, agents>>

ProvidersFromConfig ==
    /\ pc = "register"
    /\ registry' = [p \in DOMAIN config.providers |-> Models(config.providers[p])]
    /\ keys' = [p \in DOMAIN config.providers |-> config.providers[p].key]
    /\ pc' = "merge"
    /\ UNCHANGED <<disk, env, config, clients, todo, agents>>

LoadWorkspaceConfig ==
    /\ pc = "merge"
    /\ LET ws == Decode(disk.workspace)
       IN  IF ~Parses(disk.workspace)
           THEN UNCHANGED config /\ todo' = DOMAIN config.mcp /\ pc' = "mcp"
           ELSE IF Panics(config, ws) THEN UNCHANGED <<config, todo>> /\ pc' = "crashed"
           ELSE /\ config' = MergeWorkspace(config, ws)
                /\ todo' = DOMAIN config'.mcp /\ pc' = "mcp"
    /\ UNCHANGED <<disk, env, keys, registry, clients, agents>>

\* A server that is enabled is started; one that fails is left out.
StartMcp(name) ==
    /\ pc = "mcp" /\ name \in todo
    /\ \/ config.mcp[name] /\ clients' = clients \cup {name}
       \/ UNCHANGED clients
    /\ todo' = todo \ {name}
    /\ UNCHANGED <<pc, disk, env, config, keys, registry, agents>>

StartAgents ==
    /\ pc = "mcp" /\ todo = {}
    /\ todo' = DOMAIN config.agents
    /\ pc' = "agents"
    /\ UNCHANGED <<disk, env, config, keys, registry, clients, agents>>

\* Mutant: no provider is chosen when the model has none.
MutantCandidates(ref) == Routes(registry, ref)

\* A model without a provider is given to any provider, as it is.
Candidates(ref) ==
    IF Routes(registry, ref) # {} THEN Routes(registry, ref) ELSE (DOMAIN registry) \X {ref}

MakeAgent(a) ==
    /\ pc = "agents" /\ a \in todo
    /\ LET ac == config.agents[a]
       IN  IF Candidates(ac.model) = {} THEN UNCHANGED agents
           ELSE \E choice \in Candidates(ac.model) :
                  agents' = Put(agents, a, [config |-> ac, provider |-> choice[1],
                                            modelRef |-> choice[2]])
    /\ todo' = todo \ {a}
    /\ UNCHANGED <<pc, disk, env, config, keys, registry, clients>>

Ready ==
    /\ pc = "agents" /\ todo = {}
    /\ pc' = "ready"
    /\ UNCHANGED <<disk, env, config, keys, registry, clients, todo, agents>>

\* An unknown agent or a model without provider is refused.
SwitchModel(a, ref) ==
    /\ pc = "ready" /\ a \in DOMAIN agents
    /\ \E route \in Routes(registry, ref) :
         agents' = [agents EXCEPT ![a] = [config |-> [@.config EXCEPT !.model = ref],
                                          provider |-> route[1], modelRef |-> route[2]]]
    /\ UNCHANGED <<pc, disk, env, config, keys, registry, clients, todo>>

Next ==
    \/ LoadConfig \/ ProvidersFromConfig \/ LoadWorkspaceConfig
    \/ \E name \in todo : StartMcp(name)
    \/ StartAgents
    \/ \E a \in todo : MakeAgent(a)
    \/ Ready
    \/ \E a \in SwitchAgents, ref \in SwitchRefs : SwitchModel(a, ref)

Spec == Init /\ [][Next]_vars

-----------------------------------------------------------------------------
(* Properties.                                                              *)

Main == disk.main[DefaultPath(disk)]

\* app.go, Init and SwitchModel: an agent whose model names a provider that is
\* registered runs on it, with the rest of the reference as the model's id (if
\* that is not empty, or an id the provider has), and one whose model is only an
\* id on a provider that lists it; whatever the order in which maps are walked
\* and models switched.
RoutedAsNamed ==
    \A a \in DOMAIN agents :
      LET ref == agents[a].config.model
          lists == {p \in DOMAIN registry : ref \in registry[p]}
          named == Len(ref) > 1 /\ Head(ref) \in DOMAIN registry
          rest == Tail(ref)
      IN  IF named /\ (rest = <<"">> => rest \in registry[Head(ref)])
          THEN <<agents[a].provider>> \o agents[a].modelRef = ref
          ELSE agents[a].modelRef = ref /\ (lists # {} => agents[a].provider \in lists)

\* app.go, Init: once it is done every agent of the main file is there, under
\* whatever model it was given, and none that only the workspace's file has;
\* only a file with no provider at all leaves none. It gets there unless there
\* are servers to be merged into a section that is empty.
NobodyLeftOut ==
    /\ pc = "ready" =>
         DOMAIN agents = IF registry = <<>> THEN {}
                         ELSE IF ~Parses(Main) THEN DOMAIN Default.agents
                         ELSE DOMAIN Main.agents \cup
                                (IF "agents" \in Main.nulls THEN {} ELSE DOMAIN Default.agents)
    /\ pc = "crashed" => "mcp" \in Main.nulls /\ disk.workspace.mcp # <<>>

\* config.go, MergeWorkspace: "Workspace values take priority over global
\* values": what the workspace's file says of an agent's model and prompt holds.
\* (Of the permission this is not so: MergeWorkspace does not look at it.)
WorkspaceWins ==
    pc \in {"mcp", "agents", "ready"} /\ Parses(disk.workspace) =>
      \A a \in DOMAIN config.agents \cap DOMAIN disk.workspace.agents :
        LET said == disk.workspace.agents[a]
        IN  /\ said.model # NoModel => config.agents[a].model = said.model
            /\ said.prompt # Unset => config.agents[a].prompt = said.prompt

\* README.md, "Config Location": project-level overrides "merge with the
\* global config": what the workspace's file does not mention stays.
OnlyOverrides ==
    pc = "ready" /\ Parses(disk.workspace) =>
      \A a \in DOMAIN config.agents :
        a \notin DOMAIN disk.workspace.agents => config.agents[a] = Load(Main, env).agents[a]
===============================================================================
