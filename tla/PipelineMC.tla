------------------------------ MODULE PipelineMC -------------------------------
(* Two agents; steps with a model of their own, with one nobody has, with    *)
(* none, and for an agent that is not there; two servers, four files of      *)
(* skills, and insights of earlier sessions near the end of what is shown.   *)
EXTENDS Pipeline

Gpt    == <<"gpt-4o">>
Claude == <<"claude-sonnet-4">>

SomeRegistry == [openai |-> {Gpt}, anthropic |-> {Claude}, ollama |-> {}]

SomeModels == [coder |-> <<"openai", Gpt>>, planner |-> <<"anthropic", Claude>>]

SomePipelines ==
    {<<Step("coder", <<"ollama", "llama3">>, 1), Step("coder", <<>>, 2)>>,
     <<Step("planner", <<"unknown">>, 1), Step("coder", <<"anthropic">> \o Claude, 2)>>,
     <<Step("planner", <<>>, 1), Step("nobody", <<>>, 1), Step("coder", <<>>, 1)>>}

\* Two servers that both have a tool "search".
SomeClients == <<{<<"search">>}, {<<"search">>, <<"fetch">>, <<"mcp", "fetch">>}>>

\* Two files of one name, one without a title, one without an empty line.
SomeFiles ==
    <<SkillFile("a", <<Title("review"), Bullet("one"), Blank, Words("old")>>),
      SkillFile("deploy", <<Blank, Title("ship"), Words("go")>>),
      SkillFile("b", <<Title("draft"), Title("review"), Words("x"), Blank, Bullet("new")>>),
      SkillFile("c", <<Title("short")>>)>>

SomeEntries == <<"insight">> \o [k \in 1..11 |-> "session_summary"] \o <<"insight">>

Load == <<Call(<<"read">>, "refused"), SkillCall("load", "review"), SkillCall("load", "deploy"),
          SkillCall("load", "ship"), Call(<<"total_calls">>, "good")>>

SixFailed ==
    <<Call(<<"mcp", "search">>, "bad"), SkillCall("unload", "review"), Call(<<"read">>, "bad"),
      SkillCall("load", ""), SkillCall("forget", "deploy"), Call(<<"mcp", "mcp", "fetch">>, "good"),
      Call(<<"fetch">>, "good"), Call(<<"mcp", "fetch">>, "bad")>>

SomeTurns == {<<>>, Load, SixFailed}

SomeRefs == {<<"ollama", "llama3">>, <<"unknown">>}
===============================================================================
