------------------------------- MODULE WizardMC --------------------------------
(* The wizard on files of every kind, three of its providers and two of its   *)
(* agents; and App.Init without it on the files of AppSetupMC.                *)
EXTENDS Wizard, AppSetupMC

Three == <<"openai", "ollama", "">>

Two == <<"default", "coder">>

\* Answers of every kind, moves over both ends, an empty selection, two items.
SomeScripts ==
    {<<"space", "enter">>, <<"down", "space", "enter">>, <<"enter">>,
     <<"space", "down", "down", "space", "enter">>,
     <<"down", "up", "up", "space", "other", "space", "quit">>,
     <<"down", "down", "down", "space", "interrupt">>, <<"space", "escape", "enter">>}

SomeModels == {NoModel, Gpt}

SomeLists == {{<<"gpt-4o-mini">>}}

\* Files the user or an earlier dialogue has left in the current directory.
Left ==
    {Missing, Broken, Blank, [Empty EXCEPT !.nulls = {"providers", "agents", "mcp"}],
     [Empty EXCEPT !.providers = ("openai" :> ProviderConfig({Gpt}, NoModel, "file", TRUE)) @@
                                 ("mistral" :> ProviderConfig({}, NoModel, "file", FALSE)),
                   !.agents = ("coder" :> AgentConfig(<<"openai">> \o Gpt, "global", "global")) @@
                              ("scribe" :> AgentConfig(NoModel, "global", "global")),
                   !.mcp = "codegraph" :> TRUE, !.tokens = "global"]}

OnlyProject(file) == [p \in Places |-> IF p = "project" THEN file ELSE Missing]

SomeWizardDisks ==
    {Disk(FALSE, OnlyProject(f), Missing) : f \in Left} \cup
    {Disk(TRUE, OnlyProject(Missing), Missing),
     Disk(FALSE, OnlyProject(Missing), [Empty EXCEPT !.mcp = "other" :> TRUE])}

AllDisks == SomeDisks \cup SomeWizardDisks
===============================================================================
