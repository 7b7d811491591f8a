------------------------------ MODULE ChatStream -------------------------------
(***************************************************************************)
(* A reply that is streamed: ChatStream and Recv of both providers          *)
(* (internal/provider/openai.go, anthropic.go), in a conversation of        *)
(* ProviderWire. The server sends lines, Recv makes chunks of them, and     *)
(* whoever wants the reply calls it until a chunk is done.                  *)
(*                                                                          *)
(* A call comes as a head, with its id and name, and its arguments.         *)
(***************************************************************************)
EXTENDS ProviderWire

VARIABLES
    stream,  \* is one open; history: the reply, and how it is sent
    lines,   \* lines not yet scanned
    chunks   \* what Recv has returned

streamVars == <<stream, lines, chunks>>

Args(id) == [type |-> "args", id |-> id]

Whole(c) == IF c.type = "call" THEN <<c, Args(c.id)>> ELSE <<c>>

\* A line: an event by name (Anthropic), or data with pieces of content. Data
\* may end the reply, be an error of the server's, or no JSON. Blank lines,
\* which stand between events, are left out.
Event(name)  == [kind |-> "event", name |-> name, items |-> <<>>]
Data(items)  == [kind |-> "data", name |-> "", items |-> items]
Finish       == [kind |-> "finish", name |-> "", items |-> <<>>]
EndMark      == [kind |-> "end", name |-> "", items |-> <<>>]    \* data: [DONE]
Failure      == [kind |-> "error", name |-> "", items |-> <<>>]
Comment      == [kind |-> "comment", name |-> "", items |-> <<>>]
Garbled      == [kind |-> "garbled", name |-> "", items |-> <<>>]

Spoken(said) == Within(said.pieces, (Texts \cup Calls) \ {Text(Empty)})

\* Texts one by one; then the calls, all in one line, or each in two.
OpenAILines(said, together) ==
    LET texts == Within(Spoken(said), Texts)
        called == Within(Spoken(said), Calls)
        calls == Joined([k \in DOMAIN called |-> Whole(called[k])])
    IN  [k \in DOMAIN texts |-> Data(<<texts[k]>>)]
          \o (IF together THEN <<Data(calls)>> ELSE [k \in DOMAIN calls |-> Data(<<calls[k]>>)])
          \o <<Finish, EndMark>>

\* Each block has a start and a delta; a text may come with the start.
Block(c, together) ==
    LET part(name, items) == <<Event(name), Data(items)>>
    IN  IF c.type = "call"
        THEN part("content_block_start", <<c>>) \o part("content_block_delta", <<Args(c.id)>>)
        ELSE IF together THEN part("content_block_start", <<c>>)
        ELSE part("content_block_start", <<>>) \o part("content_block_delta", <<c>>)

AnthropicLines(said, together) ==
    <<Event("message_start"), Data(<<>>)>>
      \o Joined([k \in DOMAIN Spoken(said) |-> Block(Spoken(said)[k], together)])
      \o <<Event("message_delta"), Finish, Event("message_stop"), Data(<<>>)>>

Sent(said, together) ==
    IF provider = "openai" THEN OpenAILines(said, together) ELSE AnthropicLines(said, together)

\* What a server may send besides: a comment, as the standard for such streams
\* allows, a line that is no JSON, or an error in place of the rest.
Disturbed(sent, at, by) ==
    CASE by = "nothing" -> sent
      [] by = "error" -> SubSeq(sent, 1, at) \o
                           (IF provider = "openai" THEN <<Failure>> ELSE <<Event("error"), Failure>>)
      [] OTHER -> SubSeq(sent, 1, at) \o <<IF by = "comment" THEN Comment ELSE Garbled>>
                    \o SubSeq(sent, at + 1, Len(sent))

-----------------------------------------------------------------------------
StreamInit ==
    /\ Init
    /\ stream = [open |-> FALSE, said |-> [string |-> FALSE, pieces |-> <<>>],
                 together |-> FALSE, by |-> "nothing", end |-> "whole"]
    /\ lines = <<>> /\ chunks = <<>>

\* ChatStream. After any line the connection may end, or a line come that is
\* longer than the scanner's buffer of 64 KB. Bound: the first reply.
OpenStream ==
    /\ pc = "wait" /\ replies = 0 /\ ~stream.open
    /\ \E said \in Said(1), together \in BOOLEAN,
          by \in {"nothing", "comment", "garbled", "error"} :
         LET sent == Sent(said, together)
         IN  \E at \in 0..Len(sent), n \in 0..(Len(sent) + 2) :
               LET all == Disturbed(sent, at, by)
               IN  \E end \in IF n < Len(all) THEN {"cut", "long"} ELSE {"whole"} :
                     /\ ~said.string /\ n <= Len(all)
                     /\ lines' = SubSeq(all, 1, n)
                     /\ stream' = [open |-> TRUE, said |-> said, together |-> together, by |-> by,
                                   end |-> end]
    /\ UNCHANGED <<vars, chunks>>

Chunk(items, done, error) == [items |-> items, done |-> done, error |-> error]

\* What a Recv that ends has returned; after the last one the reply is over.
Return(chunk) ==
    /\ chunks' = Append(chunks, chunk)
    /\ IF chunk.done \/ chunk.error # ""
       THEN stream' = [stream EXCEPT !.open = FALSE] /\ pc' = "over"
       ELSE UNCHANGED <<stream, pc>>
    /\ UNCHANGED <<provider, system, messages, open, replies, wire, told, asked>>

Loop == UNCHANGED <<vars, stream, chunks>>

\* Scan finds no more lines: the reply counts as done unless the scanner has an
\* error, as it has for a line too long and may have when the connection ends.
NoMoreLines ==
    /\ UNCHANGED lines
    /\ \/ stream.end # "long" /\ Return(Chunk(<<>>, TRUE, ""))
       \/ stream.end # "whole" /\ Return(Chunk(<<>>, FALSE, "read"))

\* A chunk has one call: of several in a line the last one overwrites the
\* others. Here it keeps its arguments, which come with it.
LastCall(items) ==
    LET calls == Within(items, Calls)
    IN  IF calls = <<>> THEN items
        ELSE Within(items, Texts \cup {Last(calls), Args(Last(calls).id)})

\* Mutant: a line that cannot be decoded returns what was decoded last.
MutantRecvOpenAI ==
    /\ stream.open /\ provider = "openai"
    /\ IF lines = <<>> THEN NoMoreLines
       ELSE /\ lines' = Tail(lines)
            /\ CASE Head(lines).kind \in {"finish", "end"} -> Return(Chunk(<<>>, TRUE, ""))
                 [] Head(lines).kind = "data" -> Return(Chunk(LastCall(Head(lines).items), FALSE, ""))
                 [] Head(lines).kind = "garbled" /\ chunks # <<>> -> Return(Last(chunks))
                 [] OTHER -> Loop

\* One iteration of Recv. An error of the server's is no content, and is not
\* looked at.
RecvOpenAI ==
    /\ stream.open /\ provider = "openai"
    /\ IF lines = <<>> THEN NoMoreLines
       ELSE /\ lines' = Tail(lines)
            /\ CASE Head(lines).kind \in {"finish", "end"} -> Return(Chunk(<<>>, TRUE, ""))
                 [] Head(lines).kind = "data" -> Return(Chunk(LastCall(Head(lines).items), FALSE, ""))
                 [] Head(lines).kind = "error" -> Return(Chunk(<<>>, FALSE, ""))
                 [] OTHER -> Loop

\* Mutant: a reply is done with its first block.
MutantChunkOf(event, data) ==
    CASE event \in {"content_block_start", "content_block_delta"} /\ data.items # <<>> ->
           <<Chunk(data.items, event = "content_block_delta", "")>>
      [] event = "message_start" /\ data.kind # "garbled" -> <<Chunk(<<>>, FALSE, "")>>
      [] event \in {"message_delta", "message_stop"} -> <<Chunk(<<>>, TRUE, "")>>
      [] event = "error" -> <<Chunk(<<>>, TRUE, "server")>>
      [] OTHER -> <<>>

\* What the data of an event makes Recv return, nothing if it goes on.
ChunkOf(event, data) ==
    CASE event \in {"content_block_start", "content_block_delta"} /\ data.items # <<>> ->
           <<Chunk(data.items, FALSE, "")>>
      [] event = "message_start" /\ data.kind # "garbled" -> <<Chunk(<<>>, FALSE, "")>>
      [] event \in {"message_delta", "message_stop"} -> <<Chunk(<<>>, TRUE, "")>>
      [] event = "error" -> <<Chunk(<<>>, TRUE, "server")>>
      [] OTHER -> <<>>

IsData(line) == line.kind \notin {"event", "comment"}

\* One iteration of Recv: an event and the line behind it, which is dropped if
\* it is no data. Behind an event that is the last line Recv returns the
\* scanner's error, and neither a chunk nor an error if the scanner has none.
RecvAnthropic ==
    /\ stream.open /\ provider = "anthropic"
    /\ CASE lines = <<>> -> NoMoreLines
         [] lines # <<>> /\ Head(lines).kind # "event" -> lines' = Tail(lines) /\ Loop
         [] Len(lines) = 1 /\ Head(lines).kind = "event" ->
              /\ lines' = <<>>
              /\ \/ stream.end # "long" /\ Return(Chunk(<<>>, FALSE, "nil"))
                 \/ Return(Chunk(<<>>, FALSE, "read"))
         [] OTHER ->
              /\ lines' = Tail(Tail(lines))
              /\ IF ~IsData(lines[2]) \/ ChunkOf(lines[1].name, lines[2]) = <<>> THEN Loop
                 ELSE Return(ChunkOf(lines[1].name, lines[2])[1])

StreamNext ==
    \/ ~stream.open /\ Next /\ UNCHANGED streamVars
    \/ OpenStream \/ RecvOpenAI \/ RecvAnthropic

StreamSpec == StreamInit /\ [][StreamNext]_<<vars, streamVars>>

-----------------------------------------------------------------------------
(* Properties.                                                              *)

Collected == Joined([k \in DOMAIN chunks |-> chunks[k].items])

\* What there is to collect: of OpenAI's calls in one line the last one only.
Promised ==
    LET spoken == Spoken(stream.said)
        all == IF provider = "openai" /\ stream.together /\ spoken # <<>>
               THEN Within(spoken, Texts \cup {Last(spoken)}) ELSE spoken
    IN  Joined([k \in DOMAIN all |-> Whole(all[k])])

\* openai.go and anthropic.go, Recv: the chunks are the reply's texts and calls
\* from its beginning on, each once and in order. Only from Anthropic's events
\* one may be missing, where a line that is not the event's stands behind it.
ChunksInOrder ==
    \/ IsPrefix(Collected, Promised)
    \/ /\ provider = "anthropic" /\ stream.by \in {"comment", "garbled"}
       /\ \E k \in DOMAIN Promised : IsPrefix(Collected, RemoveAt(Promised, k))

\* openai.go and anthropic.go, Recv: a reply that the server has sent to its
\* end, without a failure of its own, arrives as a whole (up to the same event)
\* unless Recv says that it could not be read, which it never says of a reply
\* whose lines all came and fit the scanner; and a Recv that returns nothing at
\* all means a connection cut off between an event and its data.
WholeReplyArrives ==
    chunks # <<>> /\ ~stream.open =>
      LET last == Last(chunks)
          read == stream.end # "cut" /\ last.error # "read"
      IN  /\ read /\ stream.by = "nothing" => Collected = Promised /\ last.done
          /\ read /\ stream.by = "comment" => Len(Promised) - Len(Collected) <= 1
          /\ last.error = "read" => stream.end # "whole"
          /\ last.error = "nil" => stream.end = "cut"
===============================================================================
