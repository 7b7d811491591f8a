----------------------------- MODULE ProviderWire ------------------------------
(***************************************************************************)
(* One conversation of an agent as it goes over the wire to the server of a *)
(* language model and back (internal/provider/openai.go, anthropic.go).     *)
(*                                                                          *)
(* Texts and calls are named by the reply and the place in it where they    *)
(* were first said. The server is the environment: it says anything its     *)
(* API allows and reads a request the way it writes a reply.                *)
(***************************************************************************)
EXTENDS SequencesExt, Selections

CONSTANTS
    Providers,     \* kinds of servers: subset of {"openai", "anthropic"}
    MaxReplies,    \* bound: replies in a conversation
    MaxBlocks      \* bound: pieces of content in one reply

ASSUME WireAssumption == Providers \subseteq {"openai", "anthropic"}
ASSUME WireBounds == MaxReplies \in Nat /\ MaxBlocks \in Nat

VARIABLES
    provider,   \* which kind of server
    system,     \* does the request have a system prompt
    pc,         \* "ask", "wait", "answer" or "over"
    messages,   \* sess.Messages
    open,       \* calls of the last reply not yet answered
    replies,    \* replies so far
    wire,       \* messages of the last request, as sent
    told,       \* history: what has happened, message by message
    asked       \* history: told when the last request was sent

vars == <<provider, system, pc, messages, open, replies, wire, told, asked>>

Names == (0..MaxReplies) \X (0..MaxBlocks + 3)

Empty   == <<0, 0>>    \* the empty text
Prompt  == <<0, 1>>    \* the user's prompt
Summary == <<0, 2>>    \* a summary made by compaction
System  == <<0, 3>>    \* the system prompt

Text(t)  == [type |-> "text", text |-> t]
Call(id) == [type |-> "call", id |-> id]
Other    == [type |-> "other"]               \* content the code does not know

\* The answer to a call: is there output, did the tool fail and say why.
Result(id, data, error) == [type |-> "result", id |-> id, data |-> data, error |-> error]

Say(role, content) == [role |-> role, content |-> content]

Texts   == {Text(t) : t \in Names}
Calls   == {Call(id) : id \in Names}
Results == [type: {"result"}, id: Names, data: BOOLEAN, error: BOOLEAN]

-----------------------------------------------------------------------------
(* From the server.                                                         *)

\* Reply r of a server: pieces of text, of which some may be empty, calls,
\* and other things. OpenAI's content may be one string instead of a list.
Piece(r, k, kind) ==
    CASE kind = "text"  -> Text(<<r, k>>)
      [] kind = "empty" -> Text(Empty)
      [] kind = "call"  -> Call(<<r, k>>)
      [] OTHER          -> Other

Pieces(r) ==
    UNION {{[k \in 1..n |-> Piece(r, k, kinds[k])] : kinds \in [1..n -> {"text", "empty", "call", "other"}]} :
             n \in 0..MaxBlocks}

Said(r) ==
    IF provider = "anthropic" THEN {[string |-> FALSE, pieces |-> p] : p \in Pieces(r)}
    ELSE {s \in [string: BOOLEAN, pieces: Pieces(r)] :
            /\ \A i, j \in DOMAIN s.pieces :
                 i < j /\ s.pieces[i].type = "call" => s.pieces[j].type = "call"
            /\ s.string => /\ s.pieces # <<>> /\ s.pieces[1].type = "text"
                           /\ \A j \in DOMAIN s.pieces \ {1} : s.pieces[j].type = "call"}

\* A string is kept, empty or not; of a list only texts that are not empty.
fromOpenAIMessage(said) ==
    Within(said.pieces, Calls \cup (IF said.string THEN Texts ELSE Texts \ {Text(Empty)}))

fromAnthropic(said) == Within(said.pieces, Texts \cup Calls)

toChatResponse(said) ==
    Say("assistant", IF provider = "openai" THEN fromOpenAIMessage(said) ELSE fromAnthropic(said))

-----------------------------------------------------------------------------
(* To the server. A call inside a list of content is no "call" to OpenAI,   *)
(* which has a field of its own for calls.                                  *)

Function(id) == [type |-> "function", id |-> id]

toOpenAIMessage(m) ==
    LET results == Within(m.content, Results)
    IN  IF results # <<>>
        THEN Say("tool", <<IF results[1].error THEN [results[1] EXCEPT !.data = FALSE]
                                               ELSE results[1]>>)
        ELSE Say(m.role, [k \in DOMAIN m.content |->
                            IF m.content[k].type = "call" THEN Function(m.content[k].id)
                                                          ELSE m.content[k]])

\* The text of an error is not sent, only that there was one.
toAnthropicMessage(m) ==
    Say(m.role, IF m.content = <<>> THEN <<Text(Empty)>> ELSE m.content)

IsSystem(m) == m.role = "system"

\* Mutant: the loop over the messages ends at a system message.
MutantAnthropicMessages(ms) == IF ms # <<>> /\ IsSystem(ms[1]) THEN <<>> ELSE ms

\* System messages are taken out of the list of messages ...
AnthropicMessages(ms) == Within(ms, {m \in Range(ms) : ~IsSystem(m)})

\* ... and put into the system prompt if there is none and they are several.
AnthropicSystem(ms) ==
    LET systems == Within(ms, {m \in Range(ms) : IsSystem(m)})
    IN  IF system THEN <<Text(System)>>
        ELSE IF Len(systems) > 1 THEN Joined([k \in DOMAIN systems |-> systems[k].content])
        ELSE <<>>

OpenAIRequest(ms) ==
    (IF system THEN <<Say("system", <<Text(System)>>)>> ELSE <<>>)
      \o [k \in DOMAIN ms |-> toOpenAIMessage(ms[k])]

\* The system prompt, a field of its own, stands here in front.
AnthropicRequest(ms) ==
    LET rest == AnthropicMessages(ms)
    IN  <<Say("system", AnthropicSystem(ms))>>
          \o [k \in DOMAIN rest |-> toAnthropicMessage(rest[k])]

OnTheWire(ms) == IF provider = "openai" THEN OpenAIRequest(ms) ELSE AnthropicRequest(ms)

-----------------------------------------------------------------------------
(* The agent.                                                               *)

Init ==
    /\ provider \in Providers /\ system \in BOOLEAN
    /\ pc = "ask"
    /\ messages = <<Say("user", <<Text(Prompt)>>)>>
    /\ told = <<<<Text(Prompt)>>>>
    /\ open = <<>> /\ replies = 0 /\ wire = <<>> /\ asked = <<>>

\* The lengths of the tails that compaction keeps.
Tails == {3, 5}

LastOf(s, n) == SubSeq(s, Len(s) - n + 1, Len(s))

\* Mutant: the tail is appended to the messages instead of replacing them.
MutantShortened(s, tail, first) == IF Len(s) > tail THEN s \o LastOf(s, tail) ELSE s

Shortened(s, tail, first) == IF Len(s) > tail THEN <<first>> \o LastOf(s, tail) ELSE s

\* Compaction, if it is time for it, and the request.
Ask ==
    /\ pc = "ask" /\ replies < MaxReplies
    /\ \/ UNCHANGED <<messages, told>>
       \/ \E tail \in Tails :
            /\ messages' = Shortened(messages, tail, Say("system", <<Text(Summary)>>))
            /\ told' = Shortened(told, tail, <<Text(Summary)>>)
    /\ wire' = OnTheWire(messages')
    /\ asked' = told'
    /\ pc' = "wait"
    /\ UNCHANGED <<provider, system, open, replies>>

\* An HTTP error, an answer that does not parse or one that is an error.
ChatFails ==
    /\ pc = "wait"
    /\ pc' = "over"
    /\ UNCHANGED <<provider, system, messages, open, replies, wire, told, asked>>

\* A reply without content ends the program, one without calls the session.
Chat ==
    /\ pc = "wait"
    /\ replies' = replies + 1
    /\ \E said \in Said(replies + 1) :
         LET m == toChatResponse(said)
             calls == Within(m.content, Calls)
         IN  /\ messages' = Append(messages, m)
             /\ told' = Append(told, Within(said.pieces, Texts \cup Calls))
             /\ open' = calls
             /\ pc' = IF calls = <<>> THEN "over" ELSE "answer"
    /\ UNCHANGED <<provider, system, wire, asked>>

\* A tool succeeds, fails, or fails with some output (bash).
Outcomes == {<<TRUE, FALSE>>, <<FALSE, TRUE>>, <<TRUE, TRUE>>}

AnswerCall ==
    /\ pc = "answer"
    /\ \E o \in Outcomes :
         LET r == Result(Head(open).id, o[1], o[2])
         IN  /\ messages' = Append(messages, Say("tool", <<r>>))
             /\ told' = Append(told, <<r>>)
    /\ open' = Tail(open)
    /\ pc' = IF open' = <<>> THEN "ask" ELSE "answer"
    /\ UNCHANGED <<provider, system, replies, wire, asked>>

Next == Ask \/ ChatFails \/ Chat \/ AnswerCall

Spec == Init /\ [][Next]_vars

-----------------------------------------------------------------------------
(* Properties.                                                              *)

\* What a server can read in a message or in what happened.
Readable == (Texts \cup Calls \cup Results) \ {Text(Empty), Text(System)}

Shown == Joined([k \in DOMAIN wire |-> Within(wire[k].content, Readable)])

\* The only things that may be missing: to OpenAI the calls, and the output
\* of a tool that failed; to Anthropic the summary.
MayMiss == IF provider = "openai" THEN Calls ELSE {Text(Summary)}

AsShown(c) ==
    IF provider = "openai" /\ c \in Results /\ c.error THEN [c EXCEPT !.data = FALSE] ELSE c

\* What has to be shown of one of the things that happened.
ToShow(content) ==
    LET seen == Within(content, Readable \ MayMiss) IN [k \in DOMAIN seen |-> AsShown(seen[k])]

\* Whatever was said, called and answered, and however the conversation was
\* cut: up to the above the server is shown what has happened since the cut,
\* in its order, nothing else and nothing twice.
ShowsWhatHappened ==
    wire # <<>> => Shown = Joined([k \in DOMAIN asked |-> ToShow(asked[k])])

\* A server is shown each answer with the id of a call that it made itself,
\* each id once, in the order in which it made the calls.
AnswersInOrder ==
    \A i, j \in DOMAIN Shown : i < j /\ {Shown[i], Shown[j]} \subseteq Results =>
      \/ Shown[i].id[1] < Shown[j].id[1]
      \/ Shown[i].id[1] = Shown[j].id[1] /\ Shown[i].id[2] < Shown[j].id[2]

\* openai.go, openAIMessage: a message has its calls in the field tool_calls.
CallsShown ==
    wire # <<>> => \A i \in DOMAIN asked : \A k \in DOMAIN asked[i] :
      asked[i][k].type = "call" => Contains(Shown, asked[i][k])
===============================================================================
