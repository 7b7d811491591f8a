----------------------------- MODULE Configuration -----------------------------
(***************************************************************************)
(* The configuration (internal/config/config.go): what a file says, the     *)
(* defaults it is laid over, the keys the environment adds, and a           *)
(* workspace's file merged into it.                                         *)
(*                                                                          *)
(* A setting is represented by who has made it. The settings of an agent    *)
(* are three: its model stands for those the defaults fill in, its prompt   *)
(* for those they leave empty, its permission for those that are not        *)
(* merged.                                                                  *)
(***************************************************************************)
EXTENDS Routing, FiniteSets, Maps

Places == {"named", "global", "project"}    \* where the main file may be

Unset == "unset"                            \* Go's empty string or zero

Setting == {Unset, "default", "global", "workspace"}

NoModel == <<"">>                           \* the empty model reference

\* A model reference or id has at least one part.
References == Seq(STRING) \ {<<>>}

AgentConfig(model, prompt, permission) ==
    [model |-> model, prompt |-> prompt, permission |-> permission]

ProviderConfig(models, default, key, variable) ==
    [models |-> models, default |-> default, key |-> key, variable |-> variable]

\* A provider without a list of models has its default as its only one, the
\* empty id if it has no default either.
Models(entry) == IF entry.models = {} THEN {entry.default} ELSE entry.models

\* The variable a provider's env section names, and the one that is looked
\* for in any case: the name of the provider as it is, not in capitals.
Named(p)    == <<"declared", p>>
Fallback(p) == <<"plain", p>>

Gpt    == <<"gpt-4o">>
Claude == <<"claude-sonnet-4">>
Llama  == <<"llama3">>

DefaultModel == [openai |-> Gpt, anthropic |-> Claude, ollama |-> Llama,
                 openrouter |-> <<"anthropic">> \o Claude]

Default ==
    [providers |-> [p \in DOMAIN DefaultModel |->
                      ProviderConfig(IF p \in {"openai", "anthropic"} THEN {DefaultModel[p]} ELSE {},
                                     DefaultModel[p], Unset, TRUE)],
     agents    |-> [a \in {"default", "planner", "coder", "reviewer"} |->
                      AgentConfig(<<"openai">> \o Gpt, Unset, "default")],
     steps     |-> "default",
     mcp       |-> <<>>,
     nilMcp    |-> FALSE,
     tokens    |-> "default",
     compact   |-> "default"]

\* A file: the entries of its sections, and the sections that are there but
\* empty. Missing and Broken are files that are not there or do not parse, a
\* Blank one has no YAML in it.
Empty == [providers |-> <<>>, agents |-> <<>>, mcp |-> <<>>, nulls |-> {},
          steps |-> Unset, tokens |-> Unset, compact |-> Unset, state |-> "good"]
Missing == [Empty EXCEPT !.state = "missing"]
Broken  == [Empty EXCEPT !.state = "broken"]
Blank   == [Empty EXCEPT !.state = "blank"]

Parses(file) == file.state \in {"good", "blank"}

\* What a file may be: nothing is read from one that does not parse, nothing
\* is in a section without a value.
IsFile(file) ==
    /\ file = [providers |-> [p \in DOMAIN file.providers |->
                               LET e == file.providers[p]
                               IN  ProviderConfig(e.models, e.default, e.key, e.variable)],
               agents    |-> [a \in DOMAIN file.agents |->
                               LET e == file.agents[a]
                               IN  AgentConfig(e.model, e.prompt, e.permission)],
               mcp       |-> file.mcp, nulls |-> file.nulls, steps |-> file.steps,
               tokens    |-> file.tokens, compact |-> file.compact, state |-> file.state]
    /\ \A p \in DOMAIN file.providers :
         /\ file.providers[p].models \subseteq References
         /\ file.providers[p].default \in References
    /\ \A a \in DOMAIN file.agents : file.agents[a].model \in References
    /\ ~Parses(file) => file = [Empty EXCEPT !.state = file.state]
    /\ "providers" \in file.nulls => file.providers = <<>>
    /\ "agents" \in file.nulls => file.agents = <<>>
    /\ "mcp" \in file.nulls => file.mcp = <<>>

-----------------------------------------------------------------------------
(* Reading the files.                                                       *)

\* Decoding YAML into a value that has defaults: an entry of a map replaces
\* the default entry as a whole, a section without a value empties the map.
Section(file, name, default) == IF name \in file.nulls THEN <<>> ELSE Over(file[name], default)

OrDefault(value, default) == IF value = Unset THEN default ELSE value

Decode(file) ==
    [providers |-> Section(file, "providers", Default.providers),
     agents    |-> Section(file, "agents", Default.agents),
     steps     |-> OrDefault(file.steps, Default.steps),
     mcp       |-> Section(file, "mcp", Default.mcp),
     nilMcp    |-> "mcp" \in file.nulls,
     tokens    |-> OrDefault(file.tokens, Default.tokens),
     compact   |-> OrDefault(file.compact, Default.compact)]

\* EDCODE_CONFIG even if there is no such file, else the global file if there
\* is one, else that of the current directory.
DefaultPath(disk) ==
    IF disk.named THEN "named"
    ELSE IF disk.main["global"].state = "missing" /\ disk.main["project"].state # "missing"
         THEN "project" ELSE "global"

\* The key of the file if it has one, else what the environment has.
WithKey(p, entry, env) ==
    IF entry.key = Unset /\ ((entry.variable /\ Named(p) \in env) \/ Fallback(p) \in env)
    THEN [entry EXCEPT !.key = "env"] ELSE entry

resolveProviderEnv(cfg, env) ==
    [cfg EXCEPT !.providers = [p \in DOMAIN @ |-> WithKey(p, @[p], env)]]

\* Without a file, or with a broken one, the defaults, and no look at the
\* environment.
Load(file, env) ==
    IF Parses(file) THEN resolveProviderEnv(Decode(file), env) ELSE Default

\* Mutant: the old value wins where both are there.
MutantOverride(old, new) ==
    [old EXCEPT !.model = IF @ # NoModel THEN @ ELSE new.model,
                !.prompt = IF @ # Unset THEN @ ELSE new.prompt]

Override(old, new) ==
    [old EXCEPT !.model = IF new.model # NoModel THEN new.model ELSE @,
                !.prompt = OrDefault(new.prompt, @)]

\* The workspace's configuration, itself filled up with defaults, over the
\* main one. It adds no agents and no providers.
MergeWorkspace(base, ws) ==
    [base EXCEPT
       !.agents = [a \in DOMAIN @ |-> IF a \in DOMAIN ws.agents THEN Override(@[a], ws.agents[a])
                                                                ELSE @[a]],
       !.steps = OrDefault(ws.steps, @),
       !.mcp = Over(ws.mcp, @),
       !.tokens = OrDefault(ws.tokens, @),
       !.compact = ws.compact]

\* Writing into a map that is nil.
Panics(base, ws) == base.nilMcp /\ ws.mcp # <<>>
===============================================================================
