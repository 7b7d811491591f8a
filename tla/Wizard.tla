-------------------------------- MODULE Wizard ---------------------------------
(***************************************************************************)
(* "edcode --configure" (internal/configure/configure.go) on the            *)
(* configuration file of the current directory, and App.Init on what it     *)
(* leaves. A dialogue is the choice of providers (MultiSelect), the         *)
(* questions about each of them and about each agent, and the writing of    *)
(* the file, which is emptied first. Questions are answered one by one by   *)
(* one user, so a provider or an agent is one step.                         *)
(*                                                                          *)
(* Base URLs and descriptions are left out. A file has what Configuration   *)
(* says; a key the user types is "typed".                                   *)
(***************************************************************************)
EXTENDS AppSetup, MultiSelect, Selections

CONSTANTS
    KnownProviders,  \* the items: names, "" for the custom provider (the code has five)
    MandatoryAgents, \* the agents that are asked about (the code has four)
    CustomNames,     \* names a custom provider may be given
    CustomModels,    \* what may be typed as its default model, NoModel for nothing
    Discoveries,     \* model lists that a provider's server may answer with
    WizardDisks,     \* bound: the disks the wizard is used on
    MaxDialogues     \* bound: how often

\* The custom provider is the last item.
ASSUME WizardAssumption ==
    /\ KnownProviders \in Seq((DOMAIN DefaultModel) \cup {""}) /\ Len(KnownProviders) = Items
    /\ \A i \in 1..Items : KnownProviders[i] = "" => i = Items
    /\ CustomModels \subseteq References /\ \A found \in Discoveries : found \subseteq References

VARIABLES
    step,      \* where the dialogue is
    chosen,    \* items not yet configured
    asked,     \* agents not yet asked about
    cfg,       \* existing, the configuration that is edited
    before,    \* history: the file when the dialogue began
    answers,   \* history: keys typed, names given up, models picked
    dialogues  \* dialogues so far

dialogue == <<step, chosen, asked, cfg, before, answers>>

NoAnswers == [keys |-> {}, configured |-> {}, removed |-> {}, picked |-> <<>>]

File == disk.main["project"]

WizardInit ==
    /\ Init
    /\ script = <<>> /\ wire = <<>> /\ tty = <<>> /\ log = <<>> /\ list = Fresh
    /\ step = "off" /\ chosen = <<>> /\ asked = <<>>
    /\ dialogues = IF disk \in WizardDisks THEN 0 ELSE MaxDialogues
    /\ cfg = Empty /\ before = File /\ answers = NoAnswers

\* A file that is not there or does not parse counts as an empty one.
Configure ==
    /\ pc = "load" /\ step \in {"off", "done", "stopped", "torn", "panicked"} /\ dialogues < MaxDialogues
    /\ before' = File
    /\ cfg' = IF Parses(File) THEN File ELSE Empty
    /\ \E text \in Scripts : Open(text)
    /\ step' = "select" /\ answers' = NoAnswers
    /\ dialogues' = dialogues + 1
    /\ UNCHANGED <<vars, chosen, asked>>

Select ==
    /\ step = "select"
    /\ Arrive \/ Read \/ ReadFails \/ MakeRawFails
    /\ UNCHANGED <<vars, dialogue, dialogues>>

\* cfg with a section that is there, be it empty.
There(section) == [cfg EXCEPT !.nulls = @ \ {section}]

\* A blank file is read as a nil map, into which nothing can be put.
Selected ==
    /\ step = "select" /\ list.state # "choosing"
    /\ chosen' = Within([i \in 1..Items |-> i], list.ticked)
    /\ step' = IF list.state = "exited" THEN "stopped"
               ELSE IF cfg.state = "blank" THEN "panicked"
               ELSE IF chosen' = <<>> THEN "write" ELSE "providers"
    /\ cfg' = IF step' = "write" THEN There("agents") ELSE cfg
    /\ Forget /\ list' = Fresh
    /\ UNCHANGED <<vars, asked, before, answers, dialogues>>

Entry(p) ==
    IF p \in DOMAIN cfg.providers THEN cfg.providers[p] ELSE ProviderConfig({}, NoModel, Unset, FALSE)

\* cfg with this entry for a provider.
With(p, entry) == [There("providers") EXCEPT !.providers = Put(@, p, entry)]

\* Mutant: an answer left empty takes the key away.
MutantEntries(p, key, default) ==
    {[Entry(p) EXCEPT !.key = key,
                      !.default = IF default = NoModel THEN @ ELSE default,
                      !.models = IF found = {} THEN @ ELSE found] : found \in Discoveries \cup {{}}}

\* What becomes of the entry: the key if one is typed, the default model if
\* there is one to be set, the server's models if it has any and the user agrees.
Entries(p, key, default) ==
    {[Entry(p) EXCEPT !.key = OrDefault(key, @),
                      !.default = IF default = NoModel THEN @ ELSE default,
                      !.models = IF found = {} THEN @ ELSE found] : found \in Discoveries \cup {{}}}

NeedsKey(p) == p # "ollama"

ConfigureProvider(p) ==
    \E key \in IF NeedsKey(p) THEN {Unset, "typed"} ELSE {Unset} :
      /\ \E entry \in Entries(p, key, DefaultModel[p]) : cfg' = With(p, entry)
      /\ answers' = [answers EXCEPT !.keys = @ \cup (IF key = Unset THEN {} ELSE {p}),
                                    !.configured = @ \cup {p}]

\* Without a name nothing is done; without an address the name's entry is
\* deleted, whether it was there before or not.
ConfigureCustom ==
    \/ cfg' = There("providers") /\ UNCHANGED answers
    \/ \E p \in CustomNames :
         \/ /\ cfg' = [With(p, Entry(p)) EXCEPT !.providers = [q \in DOMAIN @ \ {p} |-> @[q]]]
            /\ answers' = [answers EXCEPT !.removed = @ \cup {p}]
         \/ \E key \in {Unset, "typed"}, default \in CustomModels :
              /\ \E entry \in Entries(p, key, default) : cfg' = With(p, entry)
              /\ answers' = [answers EXCEPT !.keys = @ \cup (IF key = Unset THEN {} ELSE {p}),
                                            !.configured = @ \cup {p}]

\* One of the providers that were selected; after the last one the agents' turn.
ConfigureNext ==
    /\ step = "providers"
    /\ LET p == KnownProviders[Head(chosen)]
       IN  IF p = "" THEN ConfigureCustom ELSE ConfigureProvider(p)
    /\ chosen' = Tail(chosen)
    /\ step' = IF chosen' = <<>> THEN "models" ELSE step
    /\ UNCHANGED <<vars, widget, asked, before, dialogues>>

\* Mutant: models go by their ids alone.
MutantAllModels ==
    UNION {(cfg.providers[p].models \cup {cfg.providers[p].default}) \ {NoModel} :
             p \in DOMAIN cfg.providers}

\* The models of all providers of the file, by full name.
AllModels ==
    UNION {{<<p>> \o id : id \in (cfg.providers[p].models \cup {cfg.providers[p].default}) \ {NoModel}} :
             p \in DOMAIN cfg.providers}

CollectModels ==
    /\ step = "models"
    /\ cfg' = There("agents")
    /\ asked' = IF AllModels = {} THEN <<>> ELSE MandatoryAgents
    /\ step' = IF AllModels = {} THEN "write" ELSE "agents"
    /\ UNCHANGED <<vars, widget, chosen, before, answers, dialogues>>

AgentOf(a) ==
    IF a \in DOMAIN cfg.agents THEN cfg.agents[a] ELSE AgentConfig(NoModel, Unset, Unset)

\* An agent that has a model may keep it (so may one whose model is written but
\* empty: no file here has one); one of the models is chosen, the first one (of
\* a list in the order of a map) if the answer is no number of one.
PickModel(a) ==
    \/ /\ AgentOf(a).model # NoModel
       /\ UNCHANGED <<cfg, answers>>
    \/ \E ref \in AllModels :
         /\ cfg' = [cfg EXCEPT !.agents = Put(@, a, [AgentOf(a) EXCEPT !.model = ref])]
         /\ answers' = [answers EXCEPT !.picked = Put(@, a, ref)]

AskAgent ==
    /\ step = "agents"
    /\ PickModel(Head(asked))
    /\ asked' = Tail(asked)
    /\ step' = IF asked' = <<>> THEN "write" ELSE step
    /\ UNCHANGED <<vars, widget, chosen, before, dialogues>>

Truncate ==
    /\ step = "write"
    /\ disk' = [disk EXCEPT !.main["project"] = Blank]
    /\ step' = "writing"
    /\ UNCHANGED <<pc, env, config, keys, registry, clients, todo, agents>>
    /\ UNCHANGED <<widget, chosen, asked, cfg, before, answers, dialogues>>

WriteConfig ==
    /\ step = "writing"
    /\ disk' = [disk EXCEPT !.main["project"] = cfg]
    /\ step' = "done"
    /\ UNCHANGED <<pc, env, config, keys, registry, clients, todo, agents>>
    /\ UNCHANGED <<widget, chosen, asked, cfg, before, answers, dialogues>>

\* The user interrupts a question.
Stop ==
    /\ step \in {"providers", "agents"}
    /\ step' = "stopped"
    /\ chosen' = <<>> /\ asked' = <<>>
    /\ UNCHANGED <<vars, widget, cfg, before, answers, dialogues>>

\* The file up to the n-th of its sections, which are written in the order of
\* their names.
Upto(n) ==
    [Empty EXCEPT !.agents = IF n >= 1 THEN cfg.agents ELSE @,
                  !.mcp = IF n >= 2 THEN cfg.mcp ELSE @,
                  !.steps = IF n >= 3 THEN cfg.steps ELSE @,
                  !.providers = IF n >= 4 THEN cfg.providers ELSE @,
                  !.nulls = cfg.nulls \cap ((IF n >= 1 THEN {"agents"} ELSE {}) \cup
                              (IF n >= 2 THEN {"mcp"} ELSE {}) \cup
                              (IF n >= 4 THEN {"providers"} ELSE {}))]

\* The program is killed before the text is written, or the disk is full: a
\* beginning of it may be there. Bound: whole sections, unless it is no YAML.
Tear ==
    /\ step = "writing"
    /\ step' = "torn"
    /\ \E part \in {Blank, Broken} \cup {Upto(n) : n \in 1..4} :
         disk' = [disk EXCEPT !.main["project"] = part]
    /\ UNCHANGED <<pc, env, config, keys, registry, clients, todo, agents>>
    /\ UNCHANGED <<widget, chosen, asked, cfg, before, answers, dialogues>>

\* The program is started without --configure.
Use ==
    /\ step \in {"off", "done", "stopped", "torn", "panicked"}
    /\ Next
    /\ UNCHANGED <<widget, dialogue, dialogues>>

WizardNext ==
    \/ Configure \/ Select \/ Selected \/ ConfigureNext \/ CollectModels \/ AskAgent
    \/ Truncate \/ WriteConfig \/ Stop \/ Tear \/ Use

WizardSpec == WizardInit /\ [][WizardNext]_<<vars, widget, dialogue, dialogues>>

-----------------------------------------------------------------------------
(* Properties.                                                              *)

\* configure.go, Run: what the user was not asked about is in the file as it was
\* before: other sections, other providers and agents, an agent's other
\* settings, a key that was not typed anew. Only a file that does not parse is
\* lost, and a provider that was named without an address is deleted.
Kept(now, was) ==
    LET gone == answers.removed
    IN  /\ \A field \in {"mcp", "steps", "tokens", "compact"} : now[field] = was[field]
        /\ was.nulls \ now.nulls \subseteq {"providers", "agents"}
        /\ DOMAIN now.providers = ((DOMAIN was.providers) \cup answers.configured) \ gone
        /\ \A p \in DOMAIN was.providers \ gone :
             LET old == was.providers[p]
                 new == now.providers[p]
             IN  /\ new.variable = old.variable
                 /\ new.key = IF p \in answers.keys THEN "typed" ELSE old.key
                 /\ p \notin answers.configured => new = old
        /\ \A a \in DOMAIN was.agents :
             now.agents[a] = [was.agents[a] EXCEPT
               !.model = IF a \in DOMAIN answers.picked THEN answers.picked[a] ELSE @]

\* configure.go, Run and writeConfig: a dialogue that came to its end has kept
\* the rest of the file; one that was interrupted, or panicked, has left the
\* file as it was, unless it was in the middle of writing: then nothing is there
\* but what was to be written, if anything is.
KeepsTheRest ==
    /\ step = "done" => Kept(File, IF Parses(before) THEN before ELSE Empty)
    /\ step = "writing" => File = Blank
    /\ step = "torn" => \A section \in {"providers", "agents", "mcp"} :
                         \A name \in DOMAIN File[section] :
                           name \in DOMAIN cfg[section] /\ File[section][name] = cfg[section][name]
    /\ step \notin {"off", "done", "writing", "torn"} => File = before

\* configure.go, Run, and app.go, Init: if nothing else overrides the file, the
\* next start gives each agent the provider and the model that were picked for
\* it, and each provider the key that was typed. An agent the file did not have
\* has lost what it is allowed by default.
NextStartUsesIt ==
    pc = "ready" /\ step = "done" /\ DefaultPath(disk) = "project" /\ ~Parses(disk.workspace) =>
      /\ \A a \in DOMAIN answers.picked :
           /\ agents[a].config.model = config.agents[a].model =>
                <<agents[a].provider>> \o agents[a].modelRef = answers.picked[a]
           /\ config.agents[a].permission =
                IF a \in DOMAIN before.agents THEN before.agents[a].permission ELSE Unset
      /\ \A p \in answers.keys \ answers.removed : keys[p] = "typed"
===============================================================================
