------------------------------- MODULE McpClient -------------------------------
(***************************************************************************)
(* An MCP client (internal/tool/mcp/client.go) and the server behind its    *)
(* two pipes. The agent makes one call at a time, so the client is one      *)
(* process. It frames what it sends with a Content-Length header and no     *)
(* newline, and reads lines.                                                *)
(*                                                                          *)
(* The server is the environment. It may frame its messages or put them on  *)
(* lines, answer what need not be answered, speak unasked, write lines that *)
(* are too long for the client's scanner, and die.                          *)
(***************************************************************************)
EXTENDS Naturals, Sequences

CONSTANTS
    Styles,             \* framing of the server: subset of Framing \X Framing
    AnswersInitialized, \* does it answer the notification, which has an id?
    MaxNotes,           \* bound: notifications the server sends
    MayDie,             \* may it die?
    Transports,         \* subset of {"local", "remote"}
    MaxCalls            \* bound: tool calls

Framing == {"headers", "lines"}

ASSUME StylesAssumption == Styles \subseteq Framing \X Framing
ASSUME ServerAssumption == AnswersInitialized \in BOOLEAN /\ MaxNotes \in Nat /\ MayDie \in BOOLEAN
ASSUME ClientAssumption == Transports \subseteq {"local", "remote"} /\ MaxCalls \in Nat

Methods == {"initialize", "notifications/initialized", "tools/list", "tools/call"}

\* What the server says: a reply to a request, or a notification (id 0); long
\* if it is over the 64 KB that a bufio.Scanner takes for a line.
Reply == [id: Nat, to: Methods \cup {"nothing"}, error: BOOLEAN, long: BOOLEAN]

\* A line of the server's output that is no message: a header, a blank line,
\* or a message and the header that follows it run together.
Other(long) == [id |-> 0, to |-> "other", error |-> FALSE, long |-> long]
Others == {Other(long) : long \in BOOLEAN}

VARIABLES
    pc,         \* where the client is
    msgID,      \* c.msgID, the next id
    tools,      \* c.tools: what the list was taken from
    answered,   \* calls that returned: what they asked, what they got
    scanning,   \* c.stdout has not met a line that is too long
    style,      \* how this server reads and writes
    alive,      \* is the server running
    requests,   \* the pipe to the server: requests not yet read
    lines,      \* the pipe from the server: complete lines
    tail,       \* and a message at its end without a newline, if any
    notes       \* notifications sent

client == <<pc, msgID, tools, answered, scanning>>
server == <<style, alive, notes>>
vars == <<client, server, requests, lines, tail>>

\* Mutant: NewClient leaves the counter of ids at its zero value.
MutantInit ==
    /\ pc = "new" /\ msgID = 0 /\ tools = "none" /\ answered = <<>>
    /\ scanning = TRUE
    /\ style \in Styles /\ alive = TRUE /\ notes = 0
    /\ requests = <<>> /\ lines = <<>> /\ tail = <<>>

Init ==
    /\ pc = "new" /\ msgID = 1 /\ tools = "none" /\ answered = <<>>
    /\ scanning = TRUE
    /\ style \in Styles /\ alive = TRUE /\ notes = 0
    /\ requests = <<>> /\ lines = <<>> /\ tail = <<>>

-----------------------------------------------------------------------------
(* The client.                                                              *)

\* send: the ids of methods[1], methods[2], ... follow each other. Writing
\* to a server that has died fails, and nobody looks.
Send(methods) ==
    /\ requests' = IF alive
                   THEN requests \o [k \in 1..Len(methods) |->
                                       [id |-> msgID + k - 1, method |-> methods[k]]]
                   ELSE requests
    /\ msgID' = msgID + Len(methods)

\* There is no command, or it does not start: nothing will ever run there.
CannotStart ==
    /\ pc = "new" /\ "local" \in Transports
    /\ pc' = "failed"
    /\ alive' = FALSE
    /\ UNCHANGED <<msgID, tools, answered, scanning, style, notes, requests, lines, tail>>

StartLocal ==
    /\ pc = "new" /\ "local" \in Transports
    /\ Send(<<"initialize">>)
    /\ pc' = "initializing"
    /\ UNCHANGED <<tools, answered, scanning, server, lines, tail>>

\* A remote server is told to initialize over HTTP; nothing is asked of it
\* afterwards, and any answer will do.
StartRemote ==
    /\ pc = "new" /\ "remote" \in Transports
    /\ msgID' = msgID + 1
    /\ pc' \in {"ready", "failed"}
    /\ UNCHANGED <<tools, answered, scanning, server, requests, lines, tail>>

\* recv takes the first line that is a JSON message: lines that are not are
\* skipped. A line needs no newline when the server is gone, or when 64 KB of
\* it are there.
Readable == IF alive /\ \A k \in DOMAIN tail : ~tail[k].long THEN lines ELSE lines \o tail

First == Head(Readable)

Skip ==
    /\ pc \in {"initializing", "listing", "calling"} /\ scanning
    /\ lines # <<>> /\ First.to = "other" /\ ~First.long
    /\ lines' = Tail(lines)
    /\ UNCHANGED <<client, server, requests, tail>>

TakesFirst ==
    /\ scanning
    /\ Readable # <<>> /\ First.to # "other" /\ ~First.long
    /\ IF lines # <<>> THEN lines' = Tail(lines) /\ UNCHANGED tail
                       ELSE tail' = <<>> /\ UNCHANGED lines
    /\ UNCHANGED scanning

EndOfFile ==
    /\ scanning /\ Readable = <<>> /\ ~alive
    /\ UNCHANGED <<scanning, lines, tail>>

\* The scanner stops at a line that is too long, for good: the next Scan returns
\* the piece of it that was read, which is no JSON and skipped, and every later
\* one fails.
TooLong ==
    /\ scanning /\ Readable # <<>> /\ First.long
    /\ scanning' = FALSE
    /\ UNCHANGED <<lines, tail>>

Stopped == ~scanning /\ UNCHANGED <<scanning, lines, tail>>

\* recv's exits with an error of its own.
NothingMore == EndOfFile \/ TooLong \/ Stopped

\* Process.Kill.
KillServer == alive' = FALSE /\ UNCHANGED <<style, notes>>

\* Start gives up: the reply is an error, has no list in it, or is missing.
HandshakeFails ==
    /\ pc \in {"initializing", "listing"}
    /\ \/ NothingMore
       \/ TakesFirst /\ (First.error \/ (pc = "listing" /\ First.to = "nothing"))
    /\ pc' = "failed"
    /\ KillServer
    /\ UNCHANGED <<msgID, tools, answered, requests>>

Initialized ==
    /\ pc = "initializing"
    /\ TakesFirst /\ ~First.error
    /\ Send(<<"notifications/initialized", "tools/list">>)
    /\ pc' = "listing"
    /\ UNCHANGED <<tools, answered, server>>

\* Mutant: the list is not waited for.
MutantListed ==
    /\ pc = "listing"
    /\ tools' = "tools/list"
    /\ pc' = "ready"
    /\ UNCHANGED <<msgID, answered, scanning, server, requests, lines, tail>>

\* Any result will do for a list; one that is something else lists no tools.
Listed ==
    /\ pc = "listing"
    /\ TakesFirst /\ ~First.error /\ First.to # "nothing"
    /\ tools' = First.to
    /\ pc' = "ready"
    /\ UNCHANGED <<msgID, answered, server, requests>>

\* Mutant: the request stays in a buffer.
MutantCall ==
    /\ pc = "ready" /\ tools = "tools/list"
    /\ Len(answered) < MaxCalls
    /\ msgID' = msgID + 1
    /\ pc' = "calling"
    /\ UNCHANGED <<tools, answered, scanning, server, requests, lines, tail>>

\* Only a tool from the list is ever called (executeTool).
Call ==
    /\ pc = "ready" /\ tools = "tools/list"
    /\ Len(answered) < MaxCalls
    /\ Send(<<"tools/call">>)
    /\ pc' = "calling"
    /\ UNCHANGED <<tools, answered, scanning, server, lines, tail>>

Returns(id) == answered' = Append(answered, [asked |-> msgID - 1, got |-> id])

\* Errors, results of any kind and the empty result of a notification alike
\* become the answer of the call; at the end of the file, or of the scanner,
\* there is none.
CallReturns ==
    /\ pc = "calling"
    /\ \/ TakesFirst /\ Returns(First.id)
       \/ NothingMore /\ Returns(0)
    /\ pc' = "ready"
    /\ UNCHANGED <<msgID, tools, server, requests>>

-----------------------------------------------------------------------------
(* The server.                                                              *)

\* A message without its newline runs into the header of the next.
Says(m) ==
    IF style[2] = "lines"
    THEN lines' = Append(lines, m) /\ UNCHANGED tail
    ELSE /\ lines' = lines \o <<Other(\E k \in DOMAIN tail : tail[k].long), Other(FALSE)>>
         /\ tail' = <<m>>

\* A server that reads lines sees headers and, at the next one, a message
\* with a header behind it: no request it understands.
Serve ==
    /\ alive /\ style[1] = "headers" /\ requests # <<>>
    /\ requests' = Tail(requests)
    /\ LET r == Head(requests)
       IN  IF r.method = "notifications/initialized" /\ ~AnswersInitialized
           THEN UNCHANGED <<lines, tail>>
           ELSE \E error, long \in BOOLEAN :
                  Says([id |-> r.id, to |-> r.method, error |-> error, long |-> long])
    /\ UNCHANGED <<client, server>>

Notify ==
    /\ alive /\ notes < MaxNotes
    /\ notes' = notes + 1
    /\ \E long \in BOOLEAN :
         Says([id |-> 0, to |-> "nothing", error |-> FALSE, long |-> long])
    /\ UNCHANGED <<client, style, alive, requests>>

Die ==
    /\ alive /\ MayDie
    /\ alive' = FALSE
    /\ UNCHANGED <<client, style, notes, requests, lines, tail>>

Receive == Skip \/ HandshakeFails \/ Initialized \/ Listed \/ CallReturns

Next == CannotStart \/ StartLocal \/ StartRemote \/ Receive \/ Call \/ Serve \/ Notify \/ Die

\* Whoever can read does, on either side.
Fairness ==
    /\ WF_vars(StartLocal) /\ WF_vars(StartRemote)
    /\ WF_vars(Receive) /\ WF_vars(Serve)

Spec == Init /\ [][Next]_vars /\ Fairness

-----------------------------------------------------------------------------
(* Properties.                                                              *)

TypeOK ==
    /\ pc \in {"new", "initializing", "listing", "ready", "calling", "failed"}
    /\ msgID \in Nat \ {0}
    /\ tools \in Methods \cup {"none"}
    /\ answered \in Seq([asked: Nat, got: Nat]) /\ scanning \in BOOLEAN
    /\ style \in Styles /\ alive \in BOOLEAN /\ notes \in 0..MaxNotes
    /\ requests \in Seq([id: Nat, method: Methods])
    /\ lines \in Seq(Reply \cup Others)
    /\ tail \in Seq(Reply) /\ Len(tail) <= 1

\* There is no matching of ids: each call takes what comes next. With a server
\* that says nothing unasked it still is the answer to that call, or none,
\* after replies that were errors and around the server's death, too. With
\* one that does, calls get the answers of earlier requests, but in order,
\* each at most once, and no further behind than there were such messages.
AnswersLag ==
    \A i \in DOMAIN answered : answered[i].got # 0 =>
      /\ answered[i].asked \in answered[i].got .. answered[i].got + notes
      /\ \A j \in 1 .. i - 1 : answered[j].got < answered[i].got

\* An idle client of a server that says nothing unasked has read everything:
\* nothing of one call is left for the next. After a line that was too long
\* the rest stays unread, but no later call gets any of it.
NothingLeftOver ==
    pc = "ready" /\ notes = 0 =>
      IF scanning
      THEN lines = <<>> /\ tail = <<>> /\ (alive => requests = <<>>)
      ELSE answered # <<>> /\ answered[Len(answered)].got = 0

\* With a server that reads headers and writes lines Start and every call come
\* back, whatever it says unasked, however long its lines, whenever it dies.
AlwaysReturns ==
    style = <<"headers", "lines">> =>
      [](pc \in {"initializing", "listing", "calling"} => <>(pc \in {"ready", "failed"}))

\* README.md, "MCP Tool Integration": connect any MCP server.
ConnectsToAny == <>(pc \in {"ready", "failed"})
===============================================================================
