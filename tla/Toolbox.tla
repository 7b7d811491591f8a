-------------------------------- MODULE Toolbox --------------------------------
(***************************************************************************)
(* Whether a call of the model reaches a tool (executeTool in               *)
(* internal/agent/agent_v2.go, the tools app.go registers, the names        *)
(* internal/tool/mcp/client.go gives out). A name is written with           *)
(* underscores: it is the sequence of what stands between them. A client is *)
(* the tools its server has listed; all clients have the name "mcp".        *)
(***************************************************************************)
EXTENDS Sequences

BuiltIn == {<<"read">>, <<"glob">>, <<"grep">>, <<"bash">>, <<"write">>, <<"edit">>,
            <<"web">>, <<"skill">>}

Exposed(tool) == <<"mcp">> \o tool

\* Somebody carries out a call: a built-in tool, else a client that has the
\* name (the first one started, which is not looked at further). Neither the
\* tools nor the permissions an agent is configured with play a part.
Handled(clients, name) ==
    name \in BuiltIn \/ \E i \in DOMAIN clients : \E t \in clients[i] : Exposed(t) = name
===============================================================================
