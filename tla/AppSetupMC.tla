------------------------------ MODULE AppSetupMC -------------------------------
(* Files with every kind of entry, alone and together.                      *)
EXTENDS AppSetup, TLC

\* References: listed, named only, two providers list it, an id with a slash
\* that reads like another provider's, known to nobody, empty.
Refs == {<<"openai">> \o Gpt, <<"openrouter">> \o Claude, Gpt, <<"anthropic">> \o Gpt,
         <<"nobody", "x">>, <<"openai", "">>, NoModel}

Providers ==
    {<<>>,
     "openai" :> ProviderConfig({Gpt}, Gpt, "file", FALSE),
     "openai" :> ProviderConfig({}, NoModel, Unset, FALSE),
     ("openai" :> ProviderConfig({}, Gpt, Unset, FALSE)) @@
       ("openrouter" :> ProviderConfig({Gpt, <<"anthropic">> \o Gpt}, NoModel, "file", TRUE))}

MainFiles ==
    {[Empty EXCEPT !.providers = p, !.agents = a, !.nulls = n, !.mcp = m] :
       p \in Providers,
       a \in {<<>>} \cup {"coder" :> AgentConfig(r, "global", "global") : r \in Refs},
       n \in {{}, {"providers"}, {"agents"}, {"mcp"}},
       m \in {<<>>, "codegraph" :> TRUE @@ "off" :> FALSE}}

Consistent(f) == /\ "providers" \in f.nulls => f.providers = <<>>
                 /\ "agents" \in f.nulls => f.agents = <<>>
                 /\ "mcp" \in f.nulls => f.mcp = <<>>

WorkspaceFiles ==
    {Missing, Broken, Blank, [Empty EXCEPT !.mcp = "other" :> TRUE, !.tokens = "workspace"]} \cup
    {[Empty EXCEPT !.agents = (a :> AgentConfig(m, p, "workspace")), !.nulls = {"mcp"}] :
       a \in {"coder", "stranger"}, m \in {NoModel, <<"ollama", "llama3">>},
       p \in {Unset, "workspace"}}

Disk(named, main, workspace) == [named |-> named, main |-> main, workspace |-> workspace]

SomeDisks ==
    {Disk(FALSE, [p \in Places |-> IF p = "global" THEN f ELSE Broken], w) :
       f \in {g \in MainFiles : Consistent(g)}, w \in WorkspaceFiles} \cup
    {Disk(n, [p \in Places |-> IF p \in there THEN Empty ELSE Missing], w) :
       n \in BOOLEAN, there \in SUBSET Places, w \in {Missing, Empty}}

SomeEnvironments == {{}, {Named("openai")}, {Fallback("openai")}}

SomeRefs == {<<"openrouter">> \o Claude, Gpt, <<"nobody", "x">>}
===============================================================================
