----------------------------- MODULE McpClientMC ------------------------------
(* McpClient with servers that read headers and write lines, the one way that *)
(* works, and with the two ways servers are written in practice.              *)
EXTENDS McpClient

HeadersThenLines == {<<"headers", "lines">>}
CommonServers == {<<"headers", "headers">>, <<"lines", "lines">>}
AllServers == Framing \X Framing
===============================================================================
