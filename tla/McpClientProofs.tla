---------------------------- MODULE McpClientProofs ----------------------------
(***************************************************************************)
(* Whose answer a call gets, for any number of calls, requests under way    *)
(* and messages said unasked, from servers of every framing that may die    *)
(* anywhere.                                                                *)
(***************************************************************************)
EXTENDS McpClient, SequenceTheorems, TLAPS

Request == [id: Nat, method: Methods]

-----------------------------------------------------------------------------
(* Pipes in order. Requests are numbered, and a server that serves them one *)
(* after the other and writes whole lines keeps their order.                *)

\* The three requests of a handshake have the first three ids.
RequestsNamed(rq, next) ==
    \A k \in 1..Len(rq) :
      /\ rq[k].id \in 1 .. next - 1
      /\ rq[k].method = "notifications/initialized" <=> rq[k].id = 2
      /\ rq[k].method = "tools/list" <=> rq[k].id = 3

LinesNamed(ls, next, unasked) ==
    \A k \in 1..Len(ls) :
      /\ ls[k].to # "other" /\ ls[k].id < next
      /\ ls[k].to = "nothing" <=> ls[k].id = 0
      /\ ls[k].to = "tools/list" <=> ls[k].id = 3
      /\ ls[k].id = 0 => unasked # 0
      /\ ls[k].id = 2 => AnswersInitialized

RequestsOrdered(rq) == \A j, k \in 1..Len(rq) : j < k => rq[j].id < rq[k].id

LinesOrdered(ls) == \A j, k \in 1..Len(ls) : j < k /\ ls[k].id # 0 => ls[j].id < ls[k].id

ServedInOrder(rq, ls) == \A j \in 1..Len(ls), k \in 1..Len(rq) : ls[j].id < rq[k].id

AnswersOrdered(rq, ls, an, next) ==
    \A i \in 1..Len(an) :
      /\ an[i].got < next
      /\ \A k \in 1..Len(ls) : ls[k].id # 0 => an[i].got < ls[k].id
      /\ \A k \in 1..Len(rq) : an[i].got < rq[k].id
      /\ an[i].got # 0 => \A j \in 1 .. i - 1 : an[j].got < an[i].got

Ordered(rq, ls, an, next, unasked) ==
    /\ RequestsNamed(rq, next) /\ LinesNamed(ls, next, unasked)
    /\ RequestsOrdered(rq) /\ LinesOrdered(ls)
    /\ ServedInOrder(rq, ls) /\ AnswersOrdered(rq, ls, an, next)

InOrder == Ordered(requests, lines, answered, msgID, notes)

-----------------------------------------------------------------------------
(* The place in the stream. Every message that was not asked for puts the   *)
(* client behind by one, and nothing else does.                             *)

BeforeStart ==
    /\ requests = <<>>
    /\ pc = "new" => msgID = 1
    /\ Len(lines) <= notes

Initializing ==
    /\ msgID = 2
    /\ Len(lines) + Len(requests) <= notes + 1

\* A server that answers the notification has its answer in front of the list;
\* if one does not, at most one reply is due behind the first message.
Listing ==
    /\ msgID = 4
    /\ \A k \in 1..Len(lines) : lines[k].id = 1 => notes # 0
    /\ \A k \in 1..Len(requests) : requests[k].id = 1 => notes # 0
    /\ AnswersInitialized =>
         /\ \A k \in 1..Len(lines) : lines[k].id = 3 => \E j \in 1 .. k - 1 : lines[j].id = 2
         /\ \A k \in 1..Len(requests) : requests[k].id = 3 =>
              \/ \E j \in 1 .. k - 1 : requests[j].id = 2
              \/ \E j \in 1..Len(lines) : lines[j].id = 2
    /\ ~AnswersInitialized =>
         Len(lines) + Len(requests) <=
           notes + (IF \E k \in 1..Len(requests) : requests[k].id = 2 THEN 2 ELSE 1)

\* The call that will read the next line, and whether it has been made.
NextReader == IF pc = "calling" THEN msgID - 1 ELSE msgID

Due == IF pc = "calling" THEN 1 ELSE 0

\* The line at place k, or the answer to the request at place k, is read by the
\* k-th call from now: no later than notes calls after its own.
Calling ==
    /\ msgID > 3
    /\ Len(lines) <= notes + Due
    /\ \A k \in 1..Len(lines) :
         lines[k].id # 0 => NextReader + k - 1 <= lines[k].id + notes
    /\ alive =>
         /\ Len(lines) + Len(requests) <= notes + Due
         /\ \A k \in 1..Len(requests) :
              NextReader + Len(lines) + k - 1 <= requests[k].id + notes

Lagging ==
    \A i \in 1..Len(answered) : answered[i].got # 0 =>
      answered[i].asked \in answered[i].got .. answered[i].got + notes

LinesInv ==
    /\ tail = <<>>
    /\ InOrder
    /\ pc = "new" \/ (pc = "ready" /\ tools = "none") => BeforeStart
    /\ pc = "initializing" => Initializing
    /\ pc = "listing" => Listing
    /\ pc \in {"ready", "calling"} /\ tools = "tools/list" =>
         msgID > 3 /\ (scanning => Calling)
    /\ pc = "ready" /\ notes = 0 /\ ~AnswersInitialized => tools \in {"none", "tools/list"}

\* A server that writes headers is heard after its death only, and then once:
\* there is no call.
HeadersInv ==
    /\ pc # "calling"
    /\ \A k \in 1..Len(lines) : lines[k] \in Others
    /\ pc = "listing" => ~alive /\ lines = <<>> /\ tail = <<>>
    /\ pc = "ready" => tools = "none"
    /\ pc = "ready" \/ pc = "new" =>
         /\ requests = <<>>
         /\ notes = 0 => lines = <<>> /\ tail = <<>>

\* Only a client with a list of tools calls any, and only one that calls goes
\* on when its scanner has stopped: with nothing for an answer.
Phases ==
    /\ pc \in {"new", "initializing", "listing", "failed"} => tools = "none"
    /\ pc = "calling" => tools = "tools/list"
    /\ tools # "tools/list" => answered = <<>>
    /\ ~scanning => pc \in {"ready", "calling", "failed"}
    /\ pc = "ready" /\ ~scanning => answered # <<>> /\ answered[Len(answered)].got = 0

ClientInv ==
    /\ TypeOK
    /\ Phases
    /\ style[2] = "lines" => LinesInv
    /\ style[2] = "headers" => HeadersInv
    /\ Lagging

-----------------------------------------------------------------------------
(* What the operators of the module do, place by place.                     *)

LEMMA AppendTwo ==
    ASSUME NEW S, NEW s \in Seq(S), NEW a \in S, NEW b \in S
    PROVE  /\ s \o <<a, b>> = Append(Append(s, a), b)
           /\ Append(Append(s, a), b) \in Seq(S)
<1>1. <<a>> \in Seq(S) /\ <<b>> \in Seq(S)
  OBVIOUS
<1>2. <<a>> \o <<b>> = <<a, b>>
  <2>1. /\ Len(<<a>>) = 1 /\ Len(<<b>>) = 1 /\ Len(<<a, b>>) = 2
        /\ <<a>>[1] = a /\ <<b>>[1] = b /\ <<a, b>>[1] = a /\ <<a, b>>[2] = b
        /\ <<a, b>> \in Seq(S)
    OBVIOUS
  <2>2. /\ <<a>> \o <<b>> \in Seq(S)
        /\ Len(<<a>> \o <<b>>) = 2
        /\ (<<a>> \o <<b>>)[1] = a /\ (<<a>> \o <<b>>)[2] = b
    BY <1>1, <2>1, ConcatProperties
  <2>3. \A i \in 1..2 : (<<a>> \o <<b>>)[i] = <<a, b>>[i]
    BY <2>1, <2>2
  <2> QED BY <2>1, <2>2, <2>3, SeqEqual
<1>3. Append(s, a) \in Seq(S) /\ Append(Append(s, a), b) \in Seq(S)
  BY AppendProperties
<1>4. Append(Append(s, a), b) = (s \o <<a>>) \o <<b>>
  BY <1>3, AppendIsConcat
<1> QED
  BY <1>1, <1>2, <1>3, <1>4, ConcatAssociative

LEMMA SendOne ==
    ASSUME TypeOK, NEW method \in Methods, Send(<<method>>)
    PROVE  /\ msgID' = msgID + 1
           /\ requests' \in Seq(Request)
           /\ requests' = IF alive THEN Append(requests, [id |-> msgID, method |-> method])
                                   ELSE requests
<1> DEFINE new == [k \in 1..Len(<<method>>) |-> [id |-> msgID + k - 1, method |-> <<method>>[k]]]
           first == [id |-> msgID, method |-> method]
<1>1. requests \in Seq(Request) /\ first \in Request
  BY DEF TypeOK, Request
<1>2. new = <<first>>
  <2>1. Len(<<method>>) = 1 /\ msgID + 1 - 1 = msgID
    BY DEF TypeOK
  <2>2. new = [k \in 1..1 |-> first]
    BY <2>1
  <2> QED BY <2>2
<1>3. requests' = IF alive THEN requests \o new ELSE requests
  BY DEF Send
<1>4. msgID' = msgID + 1
  BY DEF Send
<1> HIDE DEF new, first
<1>5. requests \o new = Append(requests, first)
  BY <1>1, <1>2, AppendIsConcat
<1>6. Append(requests, first) \in Seq(Request)
  BY <1>1, AppendProperties
<1> QED
  BY <1>1, <1>3, <1>4, <1>5, <1>6 DEF first

LEMMA SendTwo ==
    ASSUME TypeOK, NEW m1 \in Methods, NEW m2 \in Methods, Send(<<m1, m2>>)
    PROVE  /\ msgID' = msgID + 2
           /\ requests' \in Seq(Request)
           /\ requests' =
                IF alive
                THEN Append(Append(requests, [id |-> msgID, method |-> m1]),
                            [id |-> msgID + 1, method |-> m2])
                ELSE requests
<1> DEFINE new == [k \in 1..Len(<<m1, m2>>) |-> [id |-> msgID + k - 1, method |-> <<m1, m2>>[k]]]
           first == [id |-> msgID, method |-> m1]
           second == [id |-> msgID + 1, method |-> m2]
<1>1. requests \in Seq(Request) /\ first \in Request /\ second \in Request
  BY DEF TypeOK, Request
<1>2. new = <<first, second>>
  <2>1. Len(<<m1, m2>>) = 2 /\ msgID + 1 - 1 = msgID /\ msgID + 2 - 1 = msgID + 1
    BY DEF TypeOK
  <2>2. new = [k \in 1..2 |-> IF k = 1 THEN first ELSE second]
    BY <2>1
  <2> QED BY <2>2
<1>3. requests' = IF alive THEN requests \o new ELSE requests
  BY DEF Send
<1>4. msgID' = msgID + 2
  BY DEF Send
<1> HIDE DEF new, first, second
<1>5. /\ requests \o new = Append(Append(requests, first), second)
      /\ Append(Append(requests, first), second) \in Seq(Request)
  BY <1>1, <1>2, AppendTwo
<1> QED
  BY <1>1, <1>3, <1>4, <1>5 DEF first, second

\* What the client takes: the first line or, of a dead server, the message at
\* the end.
LEMMA Taken ==
    ASSUME TypeOK, TakesFirst
    PROVE  /\ First \in Reply
           /\ lines' \in Seq(Reply \cup Others) /\ tail' \in Seq(Reply) /\ Len(tail') <= 1
           /\ \/ /\ lines # <<>> /\ First = lines[1]
                 /\ lines' = Tail(lines) /\ UNCHANGED tail
              \/ /\ lines = <<>> /\ ~alive /\ First = tail[1] /\ tail # <<>>
                 /\ lines' = <<>> /\ tail' = <<>>
           /\ scanning /\ scanning'
<1> USE DEF TypeOK
<1>0. scanning /\ scanning'
  BY DEF TakesFirst
<1>1. CASE lines # <<>>
  <2>1. Readable # <<>> /\ First = lines[1]
    <3>1. Readable = lines => First = lines[1]
      BY <1>1 DEF First
    <3>2. (lines \o tail)[1] = lines[1]
      <4>1. lines \in Seq(Reply \cup Others) /\ tail \in Seq(Reply \cup Others)
        BY SeqMonotonic
      <4>2. 1 \in 1..Len(lines) + Len(tail) /\ 1 <= Len(lines)
        BY <1>1, <4>1, LenProperties, EmptySeq
      <4> QED BY <4>1, <4>2, ConcatProperties
    <3> QED BY <3>1, <3>2 DEF TakesFirst, First, Readable
  <2>2. lines' = Tail(lines) /\ UNCHANGED tail
    BY <1>1 DEF TakesFirst
  <2>3. Tail(lines) \in Seq(Reply \cup Others)
    BY <1>1, HeadTailProperties
  <2>4. First \in Reply
    <3>1. lines[1] \in Reply \cup Others
      BY <1>1, EmptySeq, ElementOfSeq
    <3>2. \A o \in Others : o.to = "other"
      BY DEF Others, Other
    <3>3. First.to # "other"
      BY DEF TakesFirst
    <3>4. First \notin Others
      BY <3>2, <3>3
    <3> QED BY <2>1, <3>1, <3>4
  <2> QED BY <1>0, <1>1, <2>1, <2>2, <2>3, <2>4
<1>2. CASE lines = <<>>
  <2>1. Readable = lines \o tail /\ lines \o tail = tail
    BY <1>2, ConcatEmptySeq DEF TakesFirst, Readable
  <2>2. tail # <<>> /\ First = tail[1]
    BY <2>1 DEF TakesFirst, First
  <2>4. ~alive
    <3>1. Len(tail) \in Nat /\ Len(tail) # 0 /\ Len(tail) <= 1 /\ DOMAIN tail = 1 .. Len(tail)
      BY <2>2, EmptySeq, LenProperties
    <3>2. DOMAIN tail = {1}
      BY <3>1
    <3>3. ~tail[1].long
      BY <2>2 DEF TakesFirst
    <3>4. \A k \in DOMAIN tail : ~tail[k].long
      BY <3>2, <3>3
    <3>5. Readable # <<>>
      BY DEF TakesFirst
    <3> QED BY <1>2, <3>4, <3>5 DEF Readable
  <2>3. First \in Reply
    BY <2>2, EmptySeq, ElementOfSeq
  <2> QED BY <1>0, <1>2, <2>2, <2>3, <2>4, EmptySeq DEF TakesFirst
<1> QED
  BY <1>0, <1>1, <1>2

\* The exits with an error leave the pipe alone.
LEMMA NothingTaken ==
    ASSUME TypeOK, NothingMore
    PROVE  /\ UNCHANGED <<lines, tail>> /\ scanning' \in BOOLEAN
           /\ ~scanning' \/ (scanning /\ Readable = <<>> /\ ~alive)
           /\ scanning' => scanning
<1>0. scanning \in BOOLEAN
  BY DEF TypeOK
<1>1. CASE EndOfFile
  BY <1>0, <1>1 DEF EndOfFile
<1>2. CASE TooLong
  BY <1>2 DEF TooLong
<1>3. CASE Stopped
  BY <1>0, <1>3 DEF Stopped
<1> QED
  BY <1>1, <1>2, <1>3 DEF NothingMore

LEMMA Said ==
    ASSUME TypeOK, NEW m \in Reply, Says(m)
    PROVE  /\ lines' \in Seq(Reply \cup Others) /\ tail' \in Seq(Reply) /\ Len(tail') <= 1
           /\ style[2] = "lines" => lines' = Append(lines, m) /\ UNCHANGED tail
           /\ style[2] # "lines" =>
                \E a, b \in Others : lines' = Append(Append(lines, a), b)
<1> USE DEF TypeOK
<1>1. CASE style[2] = "lines"
  <2>1. lines' = Append(lines, m) /\ UNCHANGED tail
    BY <1>1 DEF Says
  <2>2. Append(lines, m) \in Seq(Reply \cup Others)
    BY AppendProperties
  <2> QED BY <1>1, <2>1, <2>2
<1>2. CASE style[2] # "lines"
  <2>1. PICK a \in Others, b \in Others : lines' = lines \o <<a, b>> /\ tail' = <<m>>
    BY <1>2 DEF Says, Others
  <2>2. /\ lines \o <<a, b>> = Append(Append(lines, a), b)
        /\ Append(Append(lines, a), b) \in Seq(Reply \cup Others)
    <3> HIDE DEF TypeOK
    <3>1. lines \in Seq(Reply \cup Others) /\ a \in Reply \cup Others /\ b \in Reply \cup Others
      BY DEF TypeOK
    <3> QED BY <3>1, AppendTwo
  <2>3. <<m>> \in Seq(Reply) /\ Len(<<m>>) <= 1
    OBVIOUS
  <2> QED BY <1>2, <2>1, <2>2, <2>3
<1> QED
  BY <1>1, <1>2

\* A note of the server.
Note(long) == [id |-> 0, to |-> "nothing", error |-> FALSE, long |-> long]

\* The answer to the first request is a message.
LEMMA ServedIsReply ==
    ASSUME TypeOK, requests # <<>>, NEW error \in BOOLEAN, NEW long \in BOOLEAN
    PROVE  /\ Head(requests) = requests[1] /\ requests[1] \in Request
           /\ Tail(requests) \in Seq(Request)
           /\ [id |-> requests[1].id, to |-> requests[1].method, error |-> error,
            long |-> long] \in Reply
<1>1. requests \in Seq(Request)
  BY DEF TypeOK, Request
<1>2. Tail(requests) \in Seq(Request) /\ Head(requests) = requests[1] /\ Head(requests) \in Request
  BY <1>1, HeadTailProperties
<1> QED
  BY <1>2 DEF Request, Reply

LEMMA InitTyped == Init => TypeOK
<1> SUFFICES ASSUME Init PROVE TypeOK
  OBVIOUS
<1>1. <<>> \in Seq([asked: Nat, got: Nat]) /\ <<>> \in Seq([id: Nat, method: Methods])
  BY EmptySeq
<1>2. <<>> \in Seq(Reply \cup Others) /\ <<>> \in Seq(Reply) /\ Len(<<>>) <= 1
  BY EmptySeq
<1> QED
  BY <1>1, <1>2, ServerAssumption DEF Init, TypeOK

LEMMA NextTyped == TypeOK /\ [Next]_vars => TypeOK'
<1> SUFFICES ASSUME TypeOK, [Next]_vars PROVE TypeOK'
  OBVIOUS
<1> USE DEF server, client
<1>0. CASE CannotStart
  BY <1>0 DEF CannotStart, TypeOK
<1>1. CASE StartLocal
  <2>1. msgID' = msgID + 1 /\ requests' \in Seq(Request)
    BY <1>1, SendOne DEF StartLocal, Methods
  <2> QED BY <1>1, <2>1 DEF StartLocal, TypeOK, Request
<1>2. CASE StartRemote
  BY <1>2 DEF StartRemote, TypeOK
<1>3. CASE Skip
  <2>1. Tail(lines) \in Seq(Reply \cup Others)
    BY <1>3, HeadTailProperties DEF Skip, TypeOK
  <2> QED BY <1>3, <2>1 DEF Skip, TypeOK
<1>4. CASE HandshakeFails
  <2>1. lines' \in Seq(Reply \cup Others) /\ tail' \in Seq(Reply) /\ Len(tail') <= 1
    BY <1>4, Taken, NothingTaken DEF HandshakeFails, TypeOK
  <2>2. scanning' \in BOOLEAN
    BY <1>4, Taken, NothingTaken DEF HandshakeFails
  <2> QED BY <1>4, <2>1, <2>2 DEF HandshakeFails, KillServer, TypeOK
<1>5. CASE Initialized
  <2>1. msgID' = msgID + 2 /\ requests' \in Seq(Request)
    BY <1>5, SendTwo DEF Initialized, Methods
  <2>2. lines' \in Seq(Reply \cup Others) /\ tail' \in Seq(Reply) /\ Len(tail') <= 1
    BY <1>5, Taken DEF Initialized
  <2>3. scanning'
    BY <1>5, Taken DEF Initialized
  <2> QED BY <1>5, <2>1, <2>2, <2>3 DEF Initialized, TypeOK, Request
<1>6. CASE Listed
  <2>1. /\ lines' \in Seq(Reply \cup Others) /\ tail' \in Seq(Reply) /\ Len(tail') <= 1
        /\ First \in Reply
    BY <1>6, Taken DEF Listed
  <2>2. First.to \in Methods
    BY <1>6, <2>1 DEF Listed, Reply
  <2> QED BY <1>6, <2>1, <2>2, Taken DEF Listed, TypeOK
<1>7. CASE Call
  <2>1. msgID' = msgID + 1 /\ requests' \in Seq(Request)
    BY <1>7, SendOne DEF Call, Methods
  <2> QED BY <1>7, <2>1 DEF Call, TypeOK, Request
<1>8. CASE CallReturns
  <2>1. lines' \in Seq(Reply \cup Others) /\ tail' \in Seq(Reply) /\ Len(tail') <= 1
    BY <1>8, Taken, NothingTaken DEF CallReturns, TypeOK
  <2>2. PICK id \in Nat : Returns(id)
    BY <1>8, Taken DEF CallReturns, Reply
  <2>3. answered' \in Seq([asked: Nat, got: Nat])
    <3>1. [asked |-> msgID - 1, got |-> id] \in [asked: Nat, got: Nat]
      BY DEF TypeOK
    <3>2. answered' = Append(answered, [asked |-> msgID - 1, got |-> id])
      BY <2>2 DEF Returns
    <3>3. answered \in Seq([asked: Nat, got: Nat])
      BY DEF TypeOK
    <3> QED BY <3>1, <3>2, <3>3, AppendProperties
  <2>4. scanning' \in BOOLEAN
    BY <1>8, Taken, NothingTaken DEF CallReturns
  <2> QED BY <1>8, <2>1, <2>3, <2>4 DEF CallReturns, TypeOK
<1>9. CASE Serve
  <2>1. requests' \in Seq(Request)
    BY <1>9, ServedIsReply DEF Serve
  <2>2. lines' \in Seq(Reply \cup Others) /\ tail' \in Seq(Reply) /\ Len(tail') <= 1
    <3>1. CASE UNCHANGED <<lines, tail>>
      BY <3>1 DEF TypeOK
    <3>2. CASE \E error, long \in BOOLEAN :
                 Says([id |-> Head(requests).id, to |-> Head(requests).method,
                       error |-> error, long |-> long])
      BY <1>9, <3>2, ServedIsReply, Said DEF Serve
    <3> QED BY <1>9, <3>1, <3>2 DEF Serve
  <2> QED BY <1>9, <2>1, <2>2 DEF Serve, TypeOK, Request
<1>10. CASE Notify
  <2>1. PICK long \in BOOLEAN : Note(long) \in Reply /\ Says(Note(long))
    BY <1>10 DEF Notify, Note, Reply
  <2>2. lines' \in Seq(Reply \cup Others) /\ tail' \in Seq(Reply) /\ Len(tail') <= 1
    BY <2>1, Said
  <2> QED BY <1>10, <2>2, ServerAssumption DEF Notify, TypeOK
<1>11. CASE Die
  BY <1>11 DEF Die, TypeOK
<1>12. CASE UNCHANGED vars
  BY <1>12 DEF vars, TypeOK
<1> QED
  BY <1>0, <1>1, <1>2, <1>3, <1>4, <1>5, <1>6, <1>7, <1>8, <1>9, <1>10, <1>11, <1>12
  DEF Next, Receive

-----------------------------------------------------------------------------
(* Every move on the pipes keeps their order.                               *)

Lines == Seq(Reply \cup Others)

Answers == Seq([asked: Nat, got: Nat])

LEMMA TakeOrdered ==
    ASSUME NEW rq \in Seq(Request), NEW ls \in Lines, NEW an \in Answers,
           NEW next \in Nat, NEW unasked \in Nat,
           ls # <<>>, Ordered(rq, ls, an, next, unasked)
    PROVE  Ordered(rq, Tail(ls), an, next, unasked)
<1>1. /\ Len(ls) \in Nat \ {0} /\ Len(Tail(ls)) = Len(ls) - 1
      /\ \A i \in 1..Len(Tail(ls)) : Tail(ls)[i] = ls[i + 1]
  BY HeadTailProperties, EmptySeq DEF Lines
<1>2. LinesNamed(Tail(ls), next, unasked)
  BY <1>1 DEF Ordered, LinesNamed
<1>3. LinesOrdered(Tail(ls))
  BY <1>1 DEF Ordered, LinesOrdered
<1>4. ServedInOrder(rq, Tail(ls))
  BY <1>1 DEF Ordered, ServedInOrder
<1>5. AnswersOrdered(rq, Tail(ls), an, next)
  BY <1>1 DEF Ordered, AnswersOrdered
<1> QED
  BY <1>2, <1>3, <1>4, <1>5 DEF Ordered

LEMMA AnswerOrdered ==
    ASSUME NEW rq \in Seq(Request), NEW ls \in Lines, NEW an \in Answers,
           NEW next \in Nat, NEW unasked \in Nat,
           Ordered(rq, ls, an, next, unasked),
           NEW a \in Nat, NEW g \in Nat, g < next,
           \A k \in 1..Len(ls) : ls[k].id # 0 => g < ls[k].id,
           \A k \in 1..Len(rq) : g < rq[k].id,
           g # 0 => \A i \in 1..Len(an) : an[i].got < g
    PROVE  Ordered(rq, ls, Append(an, [asked |-> a, got |-> g]), next, unasked)
<1> DEFINE e == [asked |-> a, got |-> g]
           more == Append(an, e)
<1>1. e \in [asked: Nat, got: Nat] /\ e.got = g
  OBVIOUS
<1> HIDE DEF e
<1>2. /\ Len(an) \in Nat /\ Len(more) = Len(an) + 1
      /\ \A i \in 1..Len(an) : more[i] = an[i]
      /\ more[Len(an) + 1] = e
  BY <1>1, AppendProperties, LenProperties DEF Answers
<1> HIDE DEF more
<1>3. ASSUME NEW i \in 1..Len(more)
      PROVE  /\ more[i].got < next
             /\ \A k \in 1..Len(ls) : ls[k].id # 0 => more[i].got < ls[k].id
             /\ \A k \in 1..Len(rq) : more[i].got < rq[k].id
             /\ more[i].got # 0 => \A j \in 1 .. i - 1 : more[j].got < more[i].got
  <2>1. CASE i \in 1..Len(an)
    <3>1. more[i] = an[i] /\ \A j \in 1 .. i - 1 : more[j] = an[j]
      BY <1>2, <2>1
    <3> QED BY <2>1, <3>1 DEF Ordered, AnswersOrdered
  <2>2. CASE i = Len(an) + 1
    <3>1. \A j \in 1 .. i - 1 : more[j] = an[j] /\ j \in 1..Len(an)
      BY <1>2, <2>2
    <3> QED BY <1>1, <1>2, <2>2, <3>1
  <2> QED BY <1>2, <2>1, <2>2
<1>4. AnswersOrdered(rq, ls, more, next)
  BY <1>3 DEF AnswersOrdered
<1> QED
  BY <1>4 DEF Ordered, more, e

\* Numbers that nothing is sent under change nothing.
LEMMA CountOrdered ==
    ASSUME NEW rq \in Seq(Request), NEW ls \in Lines, NEW an \in Answers,
           NEW next \in Nat, NEW unasked \in Nat,
           Ordered(rq, ls, an, next, unasked), NEW more \in Nat, next <= more
    PROVE  Ordered(rq, ls, an, more, unasked)
<1>1. \A k \in 1..Len(rq) : rq[k].id \in 1 .. more - 1
  BY DEF Ordered, RequestsNamed
<1>2. \A k \in 1..Len(ls) : ls[k].id < more
  <2>1. \A k \in 1..Len(ls) : ls[k].id < next /\ ls[k].id \in Nat
    BY ElementOfSeq DEF Ordered, LinesNamed, Lines, Reply, Others, Other
  <2> QED BY <2>1
<1>3. \A i \in 1..Len(an) : an[i].got < more
  <2>1. \A i \in 1..Len(an) : an[i] \in [asked: Nat, got: Nat]
    BY ElementOfSeq DEF Answers
  <2>2. \A i \in 1..Len(an) : an[i].got < next
    BY DEF Ordered, AnswersOrdered
  <2> QED BY <2>1, <2>2
<1> QED
  BY <1>1, <1>2, <1>3 DEF Ordered, RequestsNamed, LinesNamed, AnswersOrdered

LEMMA SendOrdered ==
    ASSUME NEW rq \in Seq(Request), NEW ls \in Lines, NEW an \in Answers,
           NEW next \in Nat \ {0}, NEW unasked \in Nat,
           Ordered(rq, ls, an, next, unasked), NEW m \in Methods,
           m = "notifications/initialized" <=> next = 2,
           m = "tools/list" <=> next = 3
    PROVE  Ordered(Append(rq, [id |-> next, method |-> m]), ls, an, next + 1, unasked)
<1> DEFINE r == [id |-> next, method |-> m]
           more == Append(rq, r)
<1>0. Ordered(rq, ls, an, next + 1, unasked)
  BY CountOrdered
<1>1. r \in Request /\ r.id = next /\ r.method = m
  BY DEF Request
<1> HIDE DEF r
<1>2. /\ Len(rq) \in Nat /\ Len(more) = Len(rq) + 1
      /\ \A i \in 1..Len(rq) : more[i] = rq[i]
      /\ more[Len(rq) + 1] = r
  BY <1>1, AppendProperties, LenProperties
<1> HIDE DEF more
<1>3. \A k \in 1..Len(more) : k = Len(rq) + 1 \/ k \in 1..Len(rq)
  BY <1>2
<1>4. \A k \in 1..Len(more) : (k \in 1..Len(rq) /\ more[k] = rq[k]) \/ (k = Len(rq) + 1 /\ more[k] = r)
  BY <1>2, <1>3
<1>5. RequestsNamed(more, next + 1)
  BY <1>0, <1>1, <1>4 DEF Ordered, RequestsNamed
<1>6. RequestsOrdered(more)
  <2>1. ASSUME NEW j \in 1..Len(more), NEW k \in 1..Len(more), j < k
        PROVE  more[j].id < more[k].id
    <3>1. j \in 1..Len(rq) /\ more[j] = rq[j] /\ rq[j].id < next
      BY <1>2, <2>1 DEF Ordered, RequestsNamed
    <3> QED BY <1>1, <1>4, <2>1, <3>1 DEF Ordered, RequestsOrdered
  <2> QED BY <2>1 DEF RequestsOrdered
<1>7. ServedInOrder(more, ls)
  <2>1. \A j \in 1..Len(ls) : ls[j].id < next
    BY DEF Ordered, LinesNamed
  <2> QED BY <1>1, <1>4, <2>1 DEF Ordered, ServedInOrder
<1>8. AnswersOrdered(more, ls, an, next + 1)
  <2>1. \A i \in 1..Len(an) : an[i].got < next
    BY DEF Ordered, AnswersOrdered
  <2> QED BY <1>0, <1>1, <1>4, <2>1 DEF Ordered, AnswersOrdered
<1> QED
  BY <1>0, <1>5, <1>6, <1>7, <1>8 DEF Ordered, more, r

LEMMA DropOrdered ==
    ASSUME NEW rq \in Seq(Request), NEW ls \in Lines, NEW an \in Answers,
           NEW next \in Nat, NEW unasked \in Nat,
           rq # <<>>, Ordered(rq, ls, an, next, unasked)
    PROVE  /\ Ordered(Tail(rq), ls, an, next, unasked)
           /\ \A k \in 1..Len(Tail(rq)) : rq[1].id < Tail(rq)[k].id
<1>1. /\ Len(rq) \in Nat \ {0} /\ Len(Tail(rq)) = Len(rq) - 1
      /\ \A i \in 1..Len(Tail(rq)) : Tail(rq)[i] = rq[i + 1]
  BY HeadTailProperties, EmptySeq
<1>2. RequestsNamed(Tail(rq), next)
  BY <1>1 DEF Ordered, RequestsNamed
<1>3. RequestsOrdered(Tail(rq))
  BY <1>1 DEF Ordered, RequestsOrdered
<1>4. ServedInOrder(Tail(rq), ls)
  BY <1>1 DEF Ordered, ServedInOrder
<1>5. AnswersOrdered(Tail(rq), ls, an, next)
  BY <1>1 DEF Ordered, AnswersOrdered
<1>6. \A k \in 1..Len(Tail(rq)) : rq[1].id < Tail(rq)[k].id
  BY <1>1 DEF Ordered, RequestsOrdered
<1> QED
  BY <1>2, <1>3, <1>4, <1>5, <1>6 DEF Ordered

LEMMA SayOrdered ==
    ASSUME NEW rq \in Seq(Request), NEW ls \in Lines, NEW an \in Answers,
           NEW next \in Nat, NEW unasked \in Nat, NEW m \in Reply,
           Ordered(rq, ls, an, next, unasked),
           NEW later \in Nat, unasked <= later,
           LinesNamed(<<m>>, next, later),
           \A k \in 1..Len(rq) : m.id < rq[k].id,
           m.id # 0 => /\ \A j \in 1..Len(ls) : ls[j].id < m.id
                       /\ \A i \in 1..Len(an) : an[i].got < m.id
    PROVE  Ordered(rq, Append(ls, m), an, next, later)
<1> DEFINE more == Append(ls, m)
<1>1. /\ Len(ls) \in Nat /\ Len(more) = Len(ls) + 1
      /\ \A i \in 1..Len(ls) : more[i] = ls[i]
      /\ more[Len(ls) + 1] = m
  BY AppendProperties, LenProperties DEF Lines
<1> HIDE DEF more
<1>2. \A k \in 1..Len(more) : (k \in 1..Len(ls) /\ more[k] = ls[k]) \/ (k = Len(ls) + 1 /\ more[k] = m)
  BY <1>1
<1>3. LinesNamed(more, next, later)
  <2>1. /\ m.to # "other" /\ m.id < next /\ (m.to = "nothing" <=> m.id = 0)
        /\ m.to = "tools/list" <=> m.id = 3
        /\ m.id = 0 => later # 0
        /\ m.id = 2 => AnswersInitialized
    <3>1. Len(<<m>>) = 1 /\ <<m>>[1] = m
      OBVIOUS
    <3> QED BY <3>1 DEF LinesNamed
  <2>2. unasked # 0 => later # 0
    OBVIOUS
  <2> QED BY <1>2, <2>1, <2>2 DEF Ordered, LinesNamed
<1>4. LinesOrdered(more)
  <2>1. ASSUME NEW j \in 1..Len(more), NEW k \in 1..Len(more), j < k, more[k].id # 0
        PROVE  more[j].id < more[k].id
    <3>1. j \in 1..Len(ls) /\ more[j] = ls[j]
      BY <1>1, <2>1
    <3> QED BY <1>2, <2>1, <3>1 DEF Ordered, LinesOrdered
  <2> QED BY <2>1 DEF LinesOrdered
<1>5. ServedInOrder(rq, more)
  BY <1>2 DEF Ordered, ServedInOrder
<1>6. AnswersOrdered(rq, more, an, next)
  BY <1>2 DEF Ordered, AnswersOrdered
<1> QED
  BY <1>3, <1>4, <1>5, <1>6 DEF Ordered, more

-----------------------------------------------------------------------------
(* Servers that write lines.                                                *)

LEMMA PipesTyped ==
    ASSUME TypeOK
    PROVE  /\ requests \in Seq(Request) /\ lines \in Lines /\ answered \in Answers
           /\ msgID \in Nat \ {0} /\ notes \in Nat
           /\ Len(requests) \in Nat /\ Len(lines) \in Nat /\ Len(answered) \in Nat
           /\ \A k \in 1..Len(requests) : requests[k].id \in Nat
           /\ \A k \in 1..Len(lines) : lines[k].id \in Nat
           /\ \A k \in 1..Len(answered) : answered[k].got \in Nat /\ answered[k].asked \in Nat
<1>1. /\ requests \in Seq(Request) /\ lines \in Lines /\ answered \in Answers
      /\ msgID \in Nat \ {0} /\ notes \in Nat
  BY ServerAssumption DEF TypeOK, Request, Lines, Answers
<1>2. Len(requests) \in Nat /\ Len(lines) \in Nat /\ Len(answered) \in Nat
  BY <1>1, LenProperties DEF Lines, Answers
<1>3. \A k \in 1..Len(requests) : requests[k] \in Request
  BY <1>1, ElementOfSeq
<1>4. \A k \in 1..Len(lines) : lines[k] \in Reply \cup Others
  BY <1>1, ElementOfSeq DEF Lines
<1>5. \A k \in 1..Len(answered) : answered[k] \in [asked: Nat, got: Nat]
  BY <1>1, ElementOfSeq DEF Answers
<1> QED
  BY <1>1, <1>2, <1>3, <1>4, <1>5 DEF Request, Reply, Others, Other

\* Taking moves every line to the place in front of it.
LEMMA TakenLine ==
    ASSUME TypeOK, LinesInv, TakesFirst
    PROVE  /\ lines # <<>> /\ First = lines[1] /\ lines[1] \in Reply /\ 1 \in 1..Len(lines)
           /\ lines' = Tail(lines) /\ tail' = <<>>
           /\ Len(lines') = Len(lines) - 1
           /\ \A i \in 1..Len(lines') : lines'[i] = lines[i + 1] /\ i + 1 \in 1..Len(lines)
           /\ \A i \in 1..Len(lines') : lines'[i].id # 0 => lines[1].id < lines'[i].id
           /\ Ordered(requests, lines', answered, msgID, notes)
           /\ scanning /\ scanning'
<1>1. /\ lines # <<>> /\ First = lines[1] /\ First \in Reply /\ lines' = Tail(lines) /\ tail' = <<>>
      /\ scanning /\ scanning'
  BY Taken DEF LinesInv
<1>2. /\ Len(lines) \in Nat \ {0} /\ Len(lines') = Len(lines) - 1
      /\ \A i \in 1..Len(lines') : lines'[i] = lines[i + 1]
  BY <1>1, PipesTyped, HeadTailProperties, EmptySeq DEF Lines
<1>3. Ordered(requests, lines', answered, msgID, notes)
  BY <1>1, PipesTyped, TakeOrdered DEF LinesInv, InOrder
<1>4. \A i \in 1..Len(lines') : i + 1 \in 1..Len(lines)
  BY <1>2
<1>5. \A i \in 1..Len(lines') : lines'[i].id # 0 => lines[1].id < lines'[i].id
  BY <1>2 DEF LinesInv, InOrder, Ordered, LinesOrdered
<1> QED
  BY <1>1, <1>2, <1>3, <1>4, <1>5

LEMMA CannotStartLines ==
    ASSUME LinesInv, CannotStart
    PROVE  LinesInv'
  BY DEF CannotStart, LinesInv, InOrder

LEMMA StartLocalLines ==
    ASSUME TypeOK, LinesInv, StartLocal
    PROVE  LinesInv'
<1>1. /\ pc = "new" /\ pc' = "initializing" /\ UNCHANGED <<tools, answered, scanning, lines, tail, notes, style, alive>>
      /\ requests = <<>> /\ msgID = 1 /\ Len(lines) <= notes
  BY DEF StartLocal, server, LinesInv, BeforeStart
<1> DEFINE r == [id |-> msgID, method |-> "initialize"]
<1>2. msgID' = 2 /\ requests' = IF alive THEN Append(requests, r) ELSE requests
  BY <1>1, SendOne DEF StartLocal, Methods
<1>3. /\ Ordered(Append(requests, r), lines, answered, msgID + 1, notes)
      /\ Ordered(requests, lines, answered, msgID + 1, notes)
  <2>1. /\ requests \in Seq(Request) /\ lines \in Lines /\ answered \in Answers
        /\ msgID \in Nat \ {0} /\ notes \in Nat /\ msgID + 1 \in Nat /\ msgID <= msgID + 1
        /\ Ordered(requests, lines, answered, msgID, notes)
    BY PipesTyped DEF LinesInv, InOrder
  <2>2. Ordered(requests, lines, answered, msgID + 1, notes)
    BY <2>1, CountOrdered
  <2>3. /\ "initialize" \in Methods
        /\ "initialize" = "notifications/initialized" <=> msgID = 2
        /\ "initialize" = "tools/list" <=> msgID = 3
    BY <1>1 DEF Methods
  <2>4. Ordered(Append(requests, r), lines, answered, msgID + 1, notes)
    BY <1>1, <2>1, <2>3, SendOrdered
  <2> QED BY <2>2, <2>4
<1>4. InOrder'
  BY <1>1, <1>2, <1>3 DEF InOrder
<1>5. Len(requests') <= 1
  <2>1. Len(requests) = 0 /\ Len(Append(requests, r)) = 1
    <3>1. r \in Request
      BY PipesTyped DEF Request, Methods
    <3> HIDE DEF r
    <3> QED BY <1>1, <3>1, PipesTyped, AppendProperties, EmptySeq
  <2> QED BY <1>2, <2>1
<1>6. Len(requests') \in Nat
  <2>1. TypeOK'
    BY NextTyped DEF Next
  <2>2. requests' \in Seq([id: Nat, method: Methods])
    BY <2>1 DEF TypeOK
  <2> QED BY <2>2, LenProperties
<1>7. Initializing'
  BY <1>1, <1>2, <1>5, <1>6, PipesTyped DEF Initializing
<1> QED
  BY <1>1, <1>4, <1>7 DEF LinesInv

LEMMA StartRemoteLines ==
    ASSUME TypeOK, LinesInv, Phases, StartRemote
    PROVE  LinesInv'
<1>1. /\ pc = "new" /\ pc' \in {"ready", "failed"} /\ msgID' = msgID + 1
      /\ UNCHANGED <<tools, answered, requests, lines, tail, notes>>
      /\ requests = <<>> /\ Len(lines) <= notes /\ tools = "none"
  BY DEF StartRemote, server, LinesInv, BeforeStart, Phases
<1>2. InOrder'
  <2>1. /\ requests \in Seq(Request) /\ lines \in Lines /\ answered \in Answers
        /\ msgID \in Nat \ {0} /\ notes \in Nat /\ msgID + 1 \in Nat /\ msgID <= msgID + 1
        /\ Ordered(requests, lines, answered, msgID, notes)
    BY PipesTyped DEF LinesInv, InOrder
  <2>2. Ordered(requests, lines, answered, msgID + 1, notes)
    BY <2>1, CountOrdered
  <2> QED BY <1>1, <2>2 DEF InOrder
<1>3. BeforeStart'
  BY <1>1 DEF BeforeStart
<1> QED
  BY <1>1, <1>2, <1>3 DEF LinesInv

LEMMA SkipLines == LinesInv /\ Skip /\ TypeOK => FALSE
<1> SUFFICES ASSUME LinesInv, Skip, TypeOK PROVE FALSE
  OBVIOUS
<1>1. lines # <<>> /\ lines \o tail = lines
  BY PipesTyped, ConcatEmptySeq DEF Skip, LinesInv, Lines
<1>2. 1 \in 1..Len(lines) /\ lines[1].to = "other"
  BY <1>1, PipesTyped, EmptySeq DEF Lines, Skip, First, Readable
<1> QED
  BY <1>1, <1>2 DEF LinesInv, InOrder, Ordered, LinesNamed

LEMMA HandshakeFailsLines ==
    ASSUME TypeOK, LinesInv, HandshakeFails
    PROVE  LinesInv'
<1>1. pc' = "failed" /\ UNCHANGED <<msgID, tools, answered, requests, notes>>
  BY DEF HandshakeFails, KillServer
<1>2. CASE NothingMore
  BY <1>1, <1>2, NothingTaken DEF LinesInv, InOrder
<1>3. CASE TakesFirst
  BY <1>1, <1>3, TakenLine DEF LinesInv, InOrder
<1> QED
  BY <1>2, <1>3 DEF HandshakeFails

LEMMA InitializedLines ==
    ASSUME TypeOK, LinesInv, Phases, Initialized
    PROVE  LinesInv'
<1>1. /\ pc = "initializing" /\ pc' = "listing" /\ tools = "none"
      /\ UNCHANGED <<tools, answered, style, alive, notes>>
      /\ msgID = 2 /\ Len(lines) + Len(requests) <= notes + 1
  BY DEF Initialized, server, LinesInv, Initializing, Phases
<1>2. /\ lines # <<>> /\ lines[1] \in Reply /\ 1 \in 1..Len(lines) /\ tail' = <<>>
      /\ Len(lines') = Len(lines) - 1
      /\ \A i \in 1..Len(lines') : lines'[i] = lines[i + 1] /\ i + 1 \in 1..Len(lines)
      /\ \A i \in 1..Len(lines') : lines'[i].id # 0 => lines[1].id < lines'[i].id
      /\ Ordered(requests, lines', answered, msgID, notes)
  BY TakenLine DEF Initialized
<1> DEFINE r == [id |-> msgID, method |-> "notifications/initialized"]
           q == [id |-> msgID + 1, method |-> "tools/list"]
           more == Append(requests, r)
           most == Append(more, q)
<1>3. msgID' = msgID + 2 /\ requests' = IF alive THEN most ELSE requests
  BY SendTwo DEF Initialized, Methods
<1>4. r \in Request /\ r.id = 2 /\ q \in Request /\ q.id = 3
  BY <1>1, PipesTyped DEF Request, Methods
<1>5. /\ lines' \in Lines /\ requests \in Seq(Request) /\ answered \in Answers /\ notes \in Nat
      /\ msgID \in Nat \ {0} /\ msgID + 1 \in Nat \ {0} /\ msgID + 1 + 1 \in Nat
  <2>1. TypeOK'
    BY NextTyped DEF Next, Receive
  <2> QED BY <2>1, PipesTyped DEF TypeOK, Lines
<1>6. more \in Seq(Request) /\ Ordered(more, lines', answered, msgID + 1, notes)
  <2>1. /\ "notifications/initialized" \in Methods
        /\ "notifications/initialized" = "notifications/initialized" <=> msgID = 2
        /\ "notifications/initialized" = "tools/list" <=> msgID = 3
    BY <1>1 DEF Methods
  <2>2. more \in Seq(Request)
    BY <1>4, <1>5, AppendProperties
  <2> QED BY <1>2, <1>5, <2>1, <2>2, SendOrdered
<1>7. Ordered(most, lines', answered, msgID + 1 + 1, notes)
  <2>1. /\ "tools/list" \in Methods
        /\ "tools/list" = "notifications/initialized" <=> msgID + 1 = 2
        /\ "tools/list" = "tools/list" <=> msgID + 1 = 3
    BY <1>1 DEF Methods
  <2> HIDE DEF more
  <2> QED BY <1>5, <1>6, <2>1, SendOrdered
<1>8. msgID + 1 + 1 = msgID'
  BY <1>3, <1>5
<1>9. Ordered(requests, lines', answered, msgID + 1 + 1, notes)
  <2>1. msgID <= msgID + 1 + 1
    BY <1>5
  <2> QED BY <1>2, <1>5, <2>1, CountOrdered
<1>10. InOrder'
  BY <1>1, <1>3, <1>7, <1>8, <1>9 DEF InOrder
<1>11. /\ Len(requests) \in Nat /\ Len(lines) \in Nat
       /\ Len(most) = Len(requests) + 2
       /\ \A k \in 1..Len(requests) : most[k] = requests[k]
       /\ most[Len(requests) + 1] = r /\ most[Len(requests) + 2] = q
  <2>1. /\ Len(more) = Len(requests) + 1 /\ Len(requests) \in Nat
        /\ \A k \in 1..Len(requests) : more[k] = requests[k]
        /\ more[Len(requests) + 1] = r
    BY <1>4, <1>5, AppendProperties, LenProperties
  <2> HIDE DEF more
  <2>2. /\ Len(most) = Len(more) + 1
        /\ \A k \in 1..Len(more) : most[k] = more[k]
        /\ most[Len(more) + 1] = q
    BY <1>4, <1>6, AppendProperties
  <2> QED BY <2>1, <2>2, PipesTyped
<1>12. \A k \in 1..Len(requests) : requests[k].id = 1
  BY <1>1 DEF LinesInv, InOrder, Ordered, RequestsNamed
<1>13. lines[1].id \in Nat /\ lines[1].id < 2 /\ (lines[1].id = 0 => notes # 0)
  BY <1>1, <1>2 DEF LinesInv, InOrder, Ordered, LinesNamed, Reply
<1> HIDE DEF r, q, more, most
<1>14. \A k \in 1..Len(lines') : lines'[k].id = 1 => notes # 0
  BY <1>2, <1>13
<1>15. \A k \in 1..Len(requests) : notes # 0
  <2>1. \A k \in 1..Len(requests) : lines[1].id < 1
    BY <1>2, <1>12 DEF LinesInv, InOrder, Ordered, ServedInOrder
  <2> QED BY <1>13, <2>1
<1>16. \A k \in 1..Len(lines') : lines'[k].id # 3
  BY <1>1, <1>2 DEF Ordered, LinesNamed
<1>17. CASE alive
  <2>1. requests' = most
    BY <1>3, <1>17
  <2>2. \A k \in 1..Len(most) :
          \/ k \in 1..Len(requests) /\ most[k].id = 1
          \/ k = Len(requests) + 1 /\ most[k].id = 2
          \/ k = Len(requests) + 2 /\ most[k].id = 3
    BY <1>4, <1>11, <1>12
  <2>3. \A k \in 1..Len(most) : most[k].id = 1 => notes # 0
    BY <1>15, <2>2
  <2>4. \A k \in 1..Len(most) : most[k].id = 3 => \E j \in 1 .. k - 1 : most[j].id = 2
    BY <1>4, <1>11, <2>2
  <2>5. \E k \in 1..Len(most) : most[k].id = 2
    BY <1>4, <1>11
  <2>6. Len(lines') + Len(most) <= notes + 2
    BY <1>1, <1>2, <1>5, <1>11
  <2>7. msgID' = 4 /\ notes' = notes
    BY <1>1, <1>3, <2>1
  <2>8. (IF \E k \in 1..Len(most) : most[k].id = 2 THEN 2 ELSE 1) = 2
    BY <2>5
  <2>9. Len(lines') + Len(most) <=
          notes + (IF \E k \in 1..Len(most) : most[k].id = 2 THEN 2 ELSE 1)
    BY <2>6, <2>8
  <2>10. Listing'
    BY <1>14, <1>16, <2>1, <2>3, <2>4, <2>7, <2>9 DEF Listing
  <2> QED BY <1>1, <1>2, <1>10, <2>10 DEF LinesInv
<1>18. CASE ~alive
  <2>1. requests' = requests
    BY <1>3, <1>18
  <2>2. Len(lines') + Len(requests) <= notes + 1
    BY <1>1, <1>2, <1>5, <1>11
  <2>3. Listing'
    BY <1>1, <1>3, <1>5, <1>12, <1>14, <1>15, <1>16, <2>1, <2>2 DEF Listing
  <2> QED BY <1>1, <1>2, <1>10, <2>3 DEF LinesInv
<1> QED
  BY <1>17, <1>18 DEF TypeOK

\* The list of tools is read as the second message by a client whose server
\* does not answer the notification, and then nothing asked for is left.
LEMMA ListedLines ==
    ASSUME TypeOK, LinesInv, Phases, Listed
    PROVE  LinesInv'
<1>1. /\ pc = "listing" /\ pc' = "ready" /\ tools' = lines[1].to
      /\ lines[1].to # "nothing" /\ tools' # "none"
      /\ UNCHANGED <<msgID, answered, style, alive, notes, requests>>
      /\ Listing
  BY TakenLine DEF Listed, server, LinesInv, Reply, Methods
<1>2. /\ lines # <<>> /\ lines[1] \in Reply /\ 1 \in 1..Len(lines) /\ tail' = <<>>
      /\ Len(lines') = Len(lines) - 1
      /\ \A i \in 1..Len(lines') : lines'[i] = lines[i + 1] /\ i + 1 \in 1..Len(lines)
      /\ \A i \in 1..Len(lines') : lines'[i].id # 0 => lines[1].id < lines'[i].id
      /\ Ordered(requests, lines', answered, msgID, notes)
  BY TakenLine DEF Listed
<1>3. InOrder'
  BY <1>1, <1>2 DEF InOrder
<1>4. /\ msgID = 4 /\ lines[1].id \in 1..3
      /\ lines[1].to = "tools/list" <=> lines[1].id = 3
      /\ lines[1].id = 2 => AnswersInitialized
      /\ lines[1].id = 1 => notes # 0
  <2>1. /\ lines[1].id \in Nat /\ lines[1].id < msgID /\ lines[1].id # 0
        /\ lines[1].to = "tools/list" <=> lines[1].id = 3
        /\ lines[1].id = 2 => AnswersInitialized
    BY <1>1, <1>2 DEF LinesInv, InOrder, Ordered, LinesNamed, Reply
  <2>2. msgID = 4 /\ (lines[1].id = 1 => notes # 0)
    BY <1>1, <1>2 DEF Listing
  <2> QED BY <2>1, <2>2
<1>5. notes = 0 /\ ~AnswersInitialized => tools' = "tools/list"
  BY <1>1, <1>4
<1>6. ASSUME tools' = "tools/list" PROVE Calling'
  <2>1. lines[1].id = 3
    BY <1>1, <1>4, <1>6
  <2>2. ~AnswersInitialized
    <3>1. ~\E j \in 1 .. 1 - 1 : lines[j].id = 2
      OBVIOUS
    <3> QED BY <1>1, <1>2, <2>1, <3>1 DEF Listing
  <2>3. \A k \in 1..Len(requests) : FALSE
    <3>1. \A k \in 1..Len(requests) : 3 < requests[k].id /\ requests[k].id \in 1 .. 4 - 1
      BY <1>2, <1>4, <2>1 DEF LinesInv, InOrder, Ordered, RequestsNamed, ServedInOrder
    <3> QED BY <3>1
  <2>4. Len(requests) = 0
    BY <2>3, PipesTyped
  <2>5. Len(lines) <= notes + 1
    <3>1. (IF \E k \in 1..Len(requests) : requests[k].id = 2 THEN 2 ELSE 1) = 1
      BY <2>3
    <3>2. Len(lines) + Len(requests) <= notes + 1
      BY <1>1, <2>2, <3>1 DEF Listing
    <3> QED BY <2>4, <3>2, PipesTyped
  <2>6. \A k \in 1..Len(lines') : lines'[k].id = 0
    <3>1. \A k \in 1..Len(lines') : lines'[k].id \in Nat /\ lines'[k].id < 4
      BY <1>2, <1>4, PipesTyped DEF Ordered, LinesNamed
    <3> QED BY <1>2, <2>1, <3>1
  <2>7. Len(lines') <= notes /\ Len(lines') + Len(requests) <= notes
    BY <1>2, <2>4, <2>5, PipesTyped
  <2>8. Due' = 0 /\ msgID' > 3 /\ notes + 0 = notes
    BY <1>1, <1>4, PipesTyped DEF Due
  <2> QED BY <1>1, <2>3, <2>6, <2>7, <2>8 DEF Calling
<1>7. msgID' > 3
  BY <1>1, <1>4
<1> QED
  BY <1>1, <1>2, <1>3, <1>5, <1>6, <1>7 DEF LinesInv

LEMMA CallLines ==
    ASSUME TypeOK, LinesInv, Phases, Call
    PROVE  LinesInv'
<1>1. /\ pc = "ready" /\ pc' = "calling" /\ tools = "tools/list"
      /\ UNCHANGED <<tools, answered, scanning, style, alive, notes, lines, tail>>
      /\ tail = <<>> /\ (scanning => Calling)
  BY DEF Call, server, LinesInv
<1> DEFINE r == [id |-> msgID, method |-> "tools/call"]
           more == Append(requests, r)
<1>2. msgID' = msgID + 1 /\ requests' = IF alive THEN more ELSE requests
  BY SendOne DEF Call, Methods
<1>3. /\ lines \in Lines /\ requests \in Seq(Request) /\ answered \in Answers /\ notes \in Nat
      /\ msgID \in Nat \ {0} /\ msgID > 3 /\ msgID + 1 \in Nat /\ msgID <= msgID + 1
      /\ Ordered(requests, lines, answered, msgID, notes)
      /\ Len(requests) \in Nat /\ Len(lines) \in Nat
  BY <1>1, PipesTyped DEF LinesInv, InOrder
<1>4. r \in Request /\ r.id = msgID
  BY <1>3 DEF Request, Methods
<1>5. Ordered(more, lines, answered, msgID + 1, notes)
  <2>1. /\ "tools/call" \in Methods
        /\ "tools/call" = "notifications/initialized" <=> msgID = 2
        /\ "tools/call" = "tools/list" <=> msgID = 3
    BY <1>3 DEF Methods
  <2> QED BY <1>3, <2>1, SendOrdered
<1>6. Ordered(requests, lines, answered, msgID + 1, notes)
  BY <1>3, CountOrdered
<1>7. InOrder'
  BY <1>1, <1>2, <1>5, <1>6 DEF InOrder
<1> HIDE DEF r
<1>8. /\ Len(more) = Len(requests) + 1 /\ more[Len(requests) + 1] = r
      /\ \A k \in 1..Len(requests) : more[k] = requests[k]
  BY <1>3, <1>4, AppendProperties
<1> HIDE DEF more
<1>9. /\ Due = 0 /\ Due' = 1 /\ NextReader = msgID /\ NextReader' = msgID
  BY <1>1, <1>2, <1>3 DEF Due, NextReader
<1>10. scanning =>
       /\ Len(lines) <= notes
       /\ \A k \in 1..Len(lines) : lines[k].id # 0 => msgID + k - 1 <= lines[k].id + notes
       /\ alive => /\ Len(lines) + Len(requests) <= notes
                   /\ \A k \in 1..Len(requests) :
                        msgID + Len(lines) + k - 1 <= requests[k].id + notes
  BY <1>1, <1>3, <1>9 DEF Calling
<1>11. scanning /\ alive => /\ Len(lines) + Len(more) <= notes + 1
                /\ \A k \in 1..Len(more) : msgID + Len(lines) + k - 1 <= more[k].id + notes
  <2> SUFFICES ASSUME scanning, alive
               PROVE  /\ Len(lines) + Len(more) <= notes + 1
                      /\ \A k \in 1..Len(more) : msgID + Len(lines) + k - 1 <= more[k].id + notes
    OBVIOUS
  <2>1. \A k \in 1..Len(more) : k \in 1..Len(requests) \/ k = Len(requests) + 1
    BY <1>3, <1>8
  <2>2. msgID + Len(lines) + (Len(requests) + 1) - 1 <= r.id + notes
    BY <1>3, <1>4, <1>10
  <2>3. Len(lines) + Len(more) <= notes + 1
    BY <1>3, <1>8, <1>10
  <2>4. ASSUME NEW k \in 1..Len(more)
        PROVE  msgID + Len(lines) + k - 1 <= more[k].id + notes
    <3>1. CASE k \in 1..Len(requests)
      BY <1>8, <1>10, <3>1
    <3>2. CASE k = Len(requests) + 1
      BY <1>8, <2>2, <3>2
    <3> QED BY <2>1, <3>1, <3>2
  <2> QED BY <2>3, <2>4
<1>12. ASSUME scanning PROVE Calling'
  <2>1. msgID' > 3 /\ Len(lines) <= notes + 1
    BY <1>2, <1>3, <1>10, <1>12
  <2>2. alive => requests' = more
    BY <1>2
  <2> QED BY <1>1, <1>9, <1>10, <1>11, <1>12, <2>1, <2>2 DEF Calling
<1>13. msgID' > 3
  BY <1>2, <1>3
<1> QED
  BY <1>1, <1>7, <1>12, <1>13 DEF LinesInv

\* The answer of a call is the next line, at most notes requests old.
LEMMA CallReturnsLines ==
    ASSUME TypeOK, LinesInv, Phases, Lagging, CallReturns
    PROVE  LinesInv' /\ Lagging'
<1>1. /\ pc = "calling" /\ pc' = "ready" /\ tools = "tools/list"
      /\ UNCHANGED <<msgID, tools, style, alive, notes, requests>>
      /\ tail = <<>> /\ (scanning => Calling)
  BY DEF CallReturns, server, LinesInv, Phases
<1>2. /\ lines \in Lines /\ requests \in Seq(Request) /\ answered \in Answers /\ notes \in Nat
      /\ msgID \in Nat \ {0} /\ msgID > 3
      /\ Ordered(requests, lines, answered, msgID, notes)
      /\ Len(requests) \in Nat /\ Len(lines) \in Nat /\ Len(answered) \in Nat
  BY <1>1, PipesTyped DEF LinesInv, InOrder
<1>3. /\ Due = 1 /\ Due' = 0 /\ NextReader = msgID - 1 /\ NextReader' = msgID
  BY <1>1 DEF Due, NextReader
<1>4. scanning =>
      /\ Len(lines) <= notes + 1
      /\ \A k \in 1..Len(lines) : lines[k].id # 0 => (msgID - 1) + k - 1 <= lines[k].id + notes
      /\ alive => /\ Len(lines) + Len(requests) <= notes + 1
                  /\ \A k \in 1..Len(requests) :
                       (msgID - 1) + Len(lines) + k - 1 <= requests[k].id + notes
  BY <1>1, <1>3 DEF Calling
<1>5. ASSUME NEW g \in Nat, Returns(g), g # 0 => msgID - 1 \in g .. g + notes
      PROVE  Lagging'
  <2> DEFINE e == [asked |-> msgID - 1, got |-> g]
  <2>1. e \in [asked: Nat, got: Nat] /\ e.asked = msgID - 1 /\ e.got = g
    BY <1>2
  <2>2. answered' = Append(answered, e)
    BY <1>5 DEF Returns
  <2> HIDE DEF e
  <2>3. /\ Len(answered') = Len(answered) + 1
        /\ \A i \in 1..Len(answered) : answered'[i] = answered[i]
        /\ answered'[Len(answered) + 1] = e
    BY <1>2, <2>1, <2>2, AppendProperties DEF Answers
  <2>4. \A i \in 1..Len(answered') :
          (i \in 1..Len(answered) /\ answered'[i] = answered[i]) \/ answered'[i] = e
    BY <1>2, <2>3
  <2> QED BY <1>1, <1>5, <2>1, <2>4 DEF Lagging
<1>6. CASE TakesFirst /\ Returns(First.id)
  <2>1. /\ First = lines[1] /\ lines[1] \in Reply /\ 1 \in 1..Len(lines) /\ tail' = <<>>
        /\ Len(lines') = Len(lines) - 1
        /\ \A i \in 1..Len(lines') : lines'[i] = lines[i + 1] /\ i + 1 \in 1..Len(lines)
        /\ \A i \in 1..Len(lines') : lines'[i].id # 0 => lines[1].id < lines'[i].id
        /\ Ordered(requests, lines', answered, msgID, notes)
        /\ scanning /\ scanning'
    BY <1>6, TakenLine
  <2> DEFINE g == lines[1].id
  <2>2. g \in Nat /\ g < msgID /\ (g # 0 => (msgID - 1) + 1 - 1 <= g + notes) /\ Returns(g)
    BY <1>2, <1>4, <1>6, <2>1 DEF Ordered, LinesNamed, Reply
  <2>3. \A k \in 1..Len(requests) : g < requests[k].id
    BY <1>2, <2>1 DEF Ordered, ServedInOrder
  <2>4. g # 0 => \A i \in 1..Len(answered) : answered[i].got < g
    BY <1>2, <2>1 DEF Ordered, AnswersOrdered
  <2>5. \A k \in 1..Len(lines') : lines'[k].id # 0 => g < lines'[k].id
    BY <2>1
  <2> HIDE DEF g
  <2>6. InOrder'
    <3>1. lines' \in Lines /\ msgID - 1 \in Nat
      <4>1. TypeOK'
        BY NextTyped DEF Next, Receive
      <4> QED BY <1>2, <4>1 DEF TypeOK, Lines
    <3>2. Ordered(requests, lines', Append(answered, [asked |-> msgID - 1, got |-> g]), msgID, notes)
      BY <1>2, <2>1, <2>2, <2>3, <2>4, <2>5, <3>1, AnswerOrdered
    <3> QED BY <1>1, <2>2, <3>2 DEF InOrder, Returns
  <2>7. Lagging'
    <3>1. g # 0 => msgID - 1 \in g .. g + notes
      BY <1>2, <2>2
    <3> QED BY <1>5, <2>2, <3>1
  <2>8. Calling'
    <3>1. \A k \in 1..Len(lines') : lines'[k].id # 0 => msgID + k - 1 <= lines'[k].id + notes
      <4>1. \A k \in 1..Len(lines') :
              lines'[k].id # 0 => (msgID - 1) + (k + 1) - 1 <= lines'[k].id + notes
        BY <1>4, <2>1
      <4> QED BY <1>2, <4>1
    <3>2. Len(lines') <= notes + 0
      BY <1>2, <1>4, <2>1
    <3>3. alive => /\ Len(lines') + Len(requests) <= notes + 0
                   /\ \A k \in 1..Len(requests) : msgID + Len(lines') + k - 1 <= requests[k].id + notes
      <4>1. \A k \in 1..Len(requests) :
              msgID + Len(lines') + k - 1 = (msgID - 1) + Len(lines) + k - 1
        BY <1>2, <2>1
      <4> QED BY <1>2, <1>4, <2>1, <4>1
    <3> QED BY <1>1, <1>2, <1>3, <3>1, <3>2, <3>3 DEF Calling
  <2> QED BY <1>1, <2>1, <2>6, <2>7, <2>8 DEF LinesInv
<1>7. CASE NothingMore /\ Returns(0)
  <2>1. UNCHANGED <<lines, tail>> /\ (scanning' => scanning /\ ~alive /\ Len(lines) = 0)
    <3>1. UNCHANGED <<lines, tail>> /\ (scanning' => scanning /\ ~alive /\ lines \o tail = <<>>)
      BY <1>7, NothingTaken DEF Readable
    <3>2. lines \o tail = lines
      BY <1>1, <1>2, ConcatEmptySeq DEF Lines
    <3> QED BY <3>1, <3>2, EmptySeq
  <2>2. InOrder'
    <3>1. /\ 0 < msgID /\ \A k \in 1..Len(requests) : 0 < requests[k].id
          /\ \A k \in 1..Len(lines) : lines[k].id # 0 => 0 < lines[k].id
      BY <1>2, PipesTyped DEF Ordered, RequestsNamed
    <3>2. Ordered(requests, lines, Append(answered, [asked |-> msgID - 1, got |-> 0]), msgID, notes)
      <4>1. msgID - 1 \in Nat
        BY <1>2
      <4> QED BY <1>2, <3>1, <4>1, AnswerOrdered
    <3> QED BY <1>1, <1>7, <2>1, <3>2 DEF InOrder, Returns
  <2>3. Lagging'
    BY <1>5, <1>7
  <2>4. ASSUME scanning' PROVE Calling'
    <3>1. msgID > 3 /\ ~alive /\ ~alive' /\ Len(lines') = 0
      BY <1>1, <2>1, <2>4 DEF Calling
    <3>2. \A k \in 1..Len(lines') : FALSE
      BY <3>1
    <3> QED BY <1>1, <1>2, <1>3, <3>1, <3>2 DEF Calling
  <2> QED BY <1>1, <2>1, <2>2, <2>3, <2>4 DEF LinesInv
<1> QED
  BY <1>6, <1>7 DEF CallReturns

\* What a server says, asked or not, goes behind all it has said.
LEMMA SaidLine ==
    ASSUME TypeOK, style[2] = "lines", NEW m \in Reply, Says(m)
    PROVE  /\ lines' = Append(lines, m) /\ UNCHANGED tail
           /\ Len(lines') = Len(lines) + 1
           /\ \A k \in 1..Len(lines) : k \in 1..Len(lines') /\ lines'[k] = lines[k]
           /\ \A k \in 1..Len(lines') :
                (k \in 1..Len(lines) /\ lines'[k] = lines[k]) \/ (k = Len(lines) + 1 /\ lines'[k] = m)
           /\ lines'[Len(lines) + 1] = m /\ Len(lines) + 1 \in 1..Len(lines')
<1>1. lines \in Seq(Reply \cup Others) /\ Len(lines) \in Nat
  BY PipesTyped DEF Lines
<1>2. lines' = Append(lines, m) /\ UNCHANGED tail
  BY Said
<1>3. /\ Len(lines') = Len(lines) + 1
      /\ \A k \in 1..Len(lines) : lines'[k] = lines[k]
      /\ lines'[Len(lines) + 1] = m
  BY <1>1, <1>2, AppendProperties
<1> QED
  BY <1>1, <1>2, <1>3

LEMMA NotifyLines ==
    ASSUME TypeOK, style[2] = "lines", LinesInv, Notify
    PROVE  LinesInv'
<1>1. /\ UNCHANGED <<pc, msgID, tools, answered, scanning, style, alive, requests>>
      /\ notes' = notes + 1
  BY DEF Notify, client
<1>0. PICK long \in BOOLEAN : Says(Note(long))
  BY DEF Notify, Note
<1> DEFINE note == Note(long)
<1>2. note \in Reply /\ note.id = 0 /\ note.to = "nothing" /\ Says(note)
  BY <1>0 DEF Note, Reply
<1> HIDE DEF note
<1>3. /\ lines' = Append(lines, note) /\ UNCHANGED tail
      /\ Len(lines') = Len(lines) + 1
      /\ \A k \in 1..Len(lines) : k \in 1..Len(lines') /\ lines'[k] = lines[k]
      /\ \A k \in 1..Len(lines') :
           (k \in 1..Len(lines) /\ lines'[k] = lines[k]) \/ (k = Len(lines) + 1 /\ lines'[k] = note)
  BY <1>2, SaidLine
<1>4. /\ lines \in Lines /\ requests \in Seq(Request) /\ answered \in Answers /\ notes \in Nat
      /\ msgID \in Nat \ {0} /\ notes + 1 \in Nat /\ notes <= notes + 1 /\ notes + 1 # 0
      /\ Ordered(requests, lines, answered, msgID, notes)
      /\ Len(requests) \in Nat /\ Len(lines) \in Nat
      /\ \A k \in 1..Len(lines) : lines[k].id \in Nat
      /\ \A k \in 1..Len(requests) : requests[k].id \in Nat
  BY PipesTyped DEF LinesInv, InOrder
<1>5. InOrder'
  <2>1. LinesNamed(<<note>>, msgID, notes + 1)
    <3>1. Len(<<note>>) = 1 /\ <<note>>[1] = note
      OBVIOUS
    <3> QED BY <1>2, <1>4, <3>1 DEF LinesNamed
  <2>2. \A k \in 1..Len(requests) : note.id < requests[k].id
    BY <1>2, <1>4 DEF Ordered, RequestsNamed
  <2>3. Ordered(requests, Append(lines, note), answered, msgID, notes + 1)
    BY <1>2, <1>4, <2>1, <2>2, SayOrdered
  <2> QED BY <1>1, <1>3, <2>3 DEF InOrder
<1>6. BeforeStart => BeforeStart'
  BY <1>1, <1>3, <1>4 DEF BeforeStart
<1>7. Initializing => Initializing'
  BY <1>1, <1>3, <1>4 DEF Initializing
<1>8. Listing => Listing'
  <2> SUFFICES ASSUME Listing PROVE Listing'
    OBVIOUS
  <2>1. AnswersInitialized =>
          /\ \A k \in 1..Len(lines') : lines'[k].id = 3 => \E j \in 1 .. k - 1 : lines'[j].id = 2
          /\ \A k \in 1..Len(requests) : requests[k].id = 3 =>
               \/ \E j \in 1 .. k - 1 : requests[j].id = 2
               \/ \E j \in 1..Len(lines') : lines'[j].id = 2
    <3>1. \A k \in 1..Len(lines) : \A j \in 1 .. k - 1 : lines'[j] = lines[j]
      BY <1>3, <1>4
    <3>2. note.id # 3 /\ note.id # 2
      BY <1>2
    <3> QED BY <1>3, <1>4, <3>1, <3>2 DEF Listing
  <2>2. ASSUME ~AnswersInitialized
        PROVE  Len(lines') + Len(requests) <=
                 notes + 1 + (IF \E k \in 1..Len(requests) : requests[k].id = 2 THEN 2 ELSE 1)
    <3> DEFINE spare == IF \E k \in 1..Len(requests) : requests[k].id = 2 THEN 2 ELSE 1
    <3>1. spare \in Nat /\ Len(lines) + Len(requests) <= notes + spare
      BY <2>2 DEF Listing
    <3> HIDE DEF spare
    <3>2. Len(lines') + Len(requests) <= notes + 1 + spare
      BY <1>3, <1>4, <3>1
    <3> QED BY <3>2 DEF spare
  <2> QED BY <1>1, <1>4, <2>1, <2>2 DEF Listing
<1>9. Calling => Calling'
  <2> SUFFICES ASSUME Calling PROVE Calling'
    OBVIOUS
  <2>1. Due' = Due /\ NextReader' = NextReader /\ Due \in Nat /\ NextReader \in Nat
    BY <1>1, <1>4 DEF Due, NextReader
  <2>2. Len(lines') <= notes + 1 + Due
    BY <1>3, <1>4, <2>1 DEF Calling
  <2>3. \A k \in 1..Len(lines') : lines'[k].id # 0 => NextReader + k - 1 <= lines'[k].id + (notes + 1)
    <3>1. \A k \in 1..Len(lines) : lines[k].id # 0 => NextReader + k - 1 <= lines[k].id + notes
      BY DEF Calling
    <3> QED BY <1>2, <1>3, <1>4, <2>1, <3>1
  <2>4. alive => /\ Len(lines') + Len(requests) <= notes + 1 + Due
                 /\ \A k \in 1..Len(requests) :
                      NextReader + Len(lines') + k - 1 <= requests[k].id + (notes + 1)
    BY <1>3, <1>4, <2>1 DEF Calling
  <2> QED BY <1>1, <2>1, <2>2, <2>3, <2>4 DEF Calling
<1>10. notes' # 0
  BY <1>1, <1>4
<1> QED
  BY <1>1, <1>3, <1>5, <1>6, <1>7, <1>8, <1>9, <1>10 DEF LinesInv

LEMMA DieLines ==
    ASSUME LinesInv, Die
    PROVE  LinesInv'
<1>1. /\ alive' = FALSE
      /\ UNCHANGED <<pc, msgID, tools, answered, scanning, style, notes, requests, lines, tail>>
  BY DEF Die, client
<1>2. InOrder' /\ (BeforeStart => BeforeStart') /\ (Initializing => Initializing') /\ (Listing => Listing')
  BY <1>1 DEF LinesInv, InOrder, BeforeStart, Initializing, Listing
<1>3. Calling => Calling'
  BY <1>1 DEF Calling, NextReader, Due
<1> QED
  BY <1>1, <1>2, <1>3 DEF LinesInv

LEMMA ServeLines ==
    ASSUME TypeOK, style[2] = "lines", LinesInv, Serve
    PROVE  LinesInv'
<1>1. /\ UNCHANGED <<pc, msgID, tools, answered, scanning, style, alive, notes>>
      /\ alive /\ requests # <<>> /\ requests' = Tail(requests)
  BY DEF Serve, client, server
<1> DEFINE r == requests[1]
           n == Len(requests)
<1>2. r \in Request /\ Head(requests) = r
  BY <1>1, ServedIsReply
<1>3. /\ lines \in Lines /\ requests \in Seq(Request) /\ answered \in Answers /\ notes \in Nat
      /\ msgID \in Nat \ {0}
      /\ Ordered(requests, lines, answered, msgID, notes)
      /\ n \in Nat \ {0} /\ Len(lines) \in Nat /\ 1 \in 1..n
      /\ \A k \in 1..Len(lines) : lines[k].id \in Nat
      /\ \A k \in 1..n : requests[k].id \in Nat
  BY <1>1, PipesTyped, EmptySeq DEF LinesInv, InOrder
<1>4. /\ Len(requests') = n - 1
      /\ \A k \in 1..Len(requests') : requests'[k] = requests[k + 1] /\ k + 1 \in 1..n
      /\ requests' \in Seq(Request)
  BY <1>1, <1>3, HeadTailProperties
<1>5. /\ Ordered(requests', lines, answered, msgID, notes)
      /\ \A k \in 1..Len(requests') : r.id < requests'[k].id
  BY <1>1, <1>3, DropOrdered
<1>6. /\ r.id \in 1 .. msgID - 1
      /\ r.method = "notifications/initialized" <=> r.id = 2
      /\ r.method = "tools/list" <=> r.id = 3
      /\ \A j \in 1..Len(lines) : lines[j].id < r.id
      /\ \A i \in 1..Len(answered) : answered[i].got < r.id
  BY <1>3 DEF Ordered, RequestsNamed, ServedInOrder, AnswersOrdered
<1>7. requests # <<>> /\ ~BeforeStart
  BY <1>1 DEF BeforeStart
<1> HIDE DEF r, n
<1>8. CASE r.id = 2 /\ ~AnswersInitialized
  <2>1. UNCHANGED <<lines, tail>>
    BY <1>2, <1>6, <1>8 DEF Serve
  <2>2. InOrder'
    BY <1>1, <1>5, <2>1 DEF InOrder
  <2>3. Initializing => Initializing'
    BY <1>1, <1>3, <1>4, <2>1 DEF Initializing, n
  <2>4. Listing => Listing'
    <3> SUFFICES ASSUME Listing PROVE Listing'
      OBVIOUS
    <3>1. \E k \in 1..n : requests[k].id = 2
      BY <1>3, <1>8 DEF r
    <3>2. Len(lines) + n <= notes + 2
      <4>1. (IF \E k \in 1..Len(requests) : requests[k].id = 2 THEN 2 ELSE 1) = 2
        BY <3>1 DEF n
      <4> QED BY <1>8, <4>1 DEF Listing, n
    <3>3. ~\E k \in 1..Len(requests') : requests'[k].id = 2
      BY <1>4, <1>3, <1>5, <1>8
    <3>4. Len(lines) + Len(requests') <=
            notes + (IF \E k \in 1..Len(requests') : requests'[k].id = 2 THEN 2 ELSE 1)
      BY <1>3, <1>4, <3>2, <3>3
    <3>5. \A k \in 1..Len(requests') : requests'[k].id = 1 => notes # 0
      BY <1>4 DEF Listing, n
    <3> QED BY <1>1, <1>8, <2>1, <3>4, <3>5 DEF Listing
  <2>5. Calling => Calling'
    <3> SUFFICES ASSUME Calling PROVE Calling'
      OBVIOUS
    <3>1. Due' = Due /\ NextReader' = NextReader /\ Due \in Nat /\ NextReader \in Nat
      BY <1>1, <1>3 DEF Due, NextReader
    <3>2. \A k \in 1..Len(requests') : NextReader + Len(lines) + k - 1 <= requests'[k].id + notes
      <4>1. \A k \in 1..Len(requests') :
              NextReader + Len(lines) + (k + 1) - 1 <= requests'[k].id + notes /\ requests'[k].id \in Nat
        BY <1>1, <1>3, <1>4 DEF Calling, n
      <4> QED BY <1>3, <3>1, <4>1
    <3>3. Len(lines) + Len(requests') <= notes + Due
      BY <1>1, <1>3, <1>4, <3>1 DEF Calling, n
    <3> QED BY <1>1, <2>1, <3>1, <3>2, <3>3 DEF Calling
  <2> QED BY <1>1, <1>7, <2>1, <2>2, <2>3, <2>4, <2>5 DEF LinesInv
<1>9. CASE ~(r.id = 2 /\ ~AnswersInitialized)
  <2>1. PICK error \in BOOLEAN, long \in BOOLEAN :
          Says([id |-> r.id, to |-> r.method, error |-> error, long |-> long])
    BY <1>2, <1>6, <1>9 DEF Serve
  <2> DEFINE m == [id |-> r.id, to |-> r.method, error |-> error, long |-> long]
  <2>2. m \in Reply /\ m.id = r.id /\ m.to = r.method
    BY <1>1, ServedIsReply DEF r
  <2>3. r.method \in Methods /\ r.id \in Nat
    BY <1>2 DEF Request
  <2> HIDE DEF m
  <2>4. /\ lines' = Append(lines, m) /\ UNCHANGED tail
        /\ Len(lines') = Len(lines) + 1
        /\ \A k \in 1..Len(lines) : k \in 1..Len(lines') /\ lines'[k] = lines[k]
        /\ \A k \in 1..Len(lines') :
             (k \in 1..Len(lines) /\ lines'[k] = lines[k]) \/ (k = Len(lines) + 1 /\ lines'[k] = m)
        /\ lines'[Len(lines) + 1] = m /\ Len(lines) + 1 \in 1..Len(lines')
    BY <2>1, <2>2, SaidLine DEF m
  <2>5. InOrder'
    <3>1. LinesNamed(<<m>>, msgID, notes)
      <4>1. Len(<<m>>) = 1 /\ <<m>>[1] = m
        OBVIOUS
      <4>2. m.to # "other" /\ m.id < msgID /\ m.id # 0 /\ m.to # "nothing"
        BY <1>3, <1>6, <2>2, <2>3 DEF Methods
      <4> QED BY <1>6, <1>9, <2>2, <4>1, <4>2 DEF LinesNamed
    <3>2. /\ \A k \in 1..Len(requests') : m.id < requests'[k].id
          /\ \A j \in 1..Len(lines) : lines[j].id < m.id
          /\ \A i \in 1..Len(answered) : answered[i].got < m.id
      BY <1>5, <1>6, <2>2
    <3>3. notes <= notes
      BY <1>3
    <3>4. Ordered(requests', Append(lines, m), answered, msgID, notes)
      BY <1>3, <1>4, <1>5, <2>2, <3>1, <3>2, <3>3, SayOrdered
    <3> QED BY <1>1, <2>4, <3>4 DEF InOrder
  <2>6. Initializing => Initializing'
    BY <1>1, <1>3, <1>4, <2>4 DEF Initializing, n
  <2>7. Listing => Listing'
    <3> SUFFICES ASSUME Listing PROVE Listing'
      OBVIOUS
    <3>1. \A k \in 1..Len(lines') : lines'[k].id = 1 => notes # 0
      BY <1>3, <2>2, <2>4 DEF Listing, n, r
    <3>2. \A k \in 1..Len(requests') : requests'[k].id = 1 => notes # 0
      BY <1>4 DEF Listing, n
    <3>3. ASSUME AnswersInitialized
          PROVE  /\ \A k \in 1..Len(lines') : lines'[k].id = 3 => \E j \in 1 .. k - 1 : lines'[j].id = 2
                 /\ \A k \in 1..Len(requests') : requests'[k].id = 3 =>
                      \/ \E j \in 1 .. k - 1 : requests'[j].id = 2
                      \/ \E j \in 1..Len(lines') : lines'[j].id = 2
      <4>1. ASSUME NEW k \in 1..Len(lines'), lines'[k].id = 3
            PROVE  \E j \in 1 .. k - 1 : lines'[j].id = 2
        <5>1. CASE k \in 1..Len(lines)
          <6>1. PICK j \in 1 .. k - 1 : lines[j].id = 2
            BY <2>4, <3>3, <4>1, <5>1 DEF Listing
          <6>2. j \in 1..Len(lines)
            BY <1>3, <5>1
          <6> QED BY <2>4, <6>1, <6>2
        <5>2. CASE k = Len(lines) + 1 /\ lines'[k] = m
          <6>1. requests[1].id = 3
            BY <2>2, <4>1, <5>2 DEF r
          <6>2. ~\E j \in 1 .. 1 - 1 : requests[j].id = 2
            OBVIOUS
          <6>3. PICK j \in 1..Len(lines) : lines[j].id = 2
            BY <1>3, <3>3, <6>1, <6>2 DEF Listing, n
          <6>4. j \in 1 .. k - 1
            BY <1>3, <5>2
          <6> QED BY <2>4, <6>3, <6>4
        <5> QED BY <2>4, <5>1, <5>2
      <4>2. ASSUME NEW k \in 1..Len(requests'), requests'[k].id = 3
            PROVE  \/ \E j \in 1 .. k - 1 : requests'[j].id = 2
                   \/ \E j \in 1..Len(lines') : lines'[j].id = 2
        <5>1. k + 1 \in 1..n /\ requests[k + 1].id = 3
          BY <1>4, <4>2
        <5>2. \/ \E j \in 1 .. (k + 1) - 1 : requests[j].id = 2
              \/ \E j \in 1..Len(lines) : lines[j].id = 2
          BY <3>3, <5>1 DEF Listing, n
        <5>3. CASE \E j \in 1..Len(lines) : lines[j].id = 2
          BY <2>4, <5>3
        <5>4. ASSUME NEW j \in 1 .. (k + 1) - 1, requests[j].id = 2
              PROVE  \/ \E i \in 1 .. k - 1 : requests'[i].id = 2
                     \/ \E i \in 1..Len(lines') : lines'[i].id = 2
          <6>1. CASE j = 1
            BY <2>2, <2>4, <5>4, <6>1 DEF r
          <6>2. CASE j # 1
            <7>1. j - 1 \in 1 .. k - 1 /\ j - 1 \in 1..Len(requests') /\ (j - 1) + 1 = j
              BY <1>3, <1>4, <5>1, <6>2
            <7>2. requests'[j - 1] = requests[j]
              BY <1>4, <7>1
            <7> QED BY <5>4, <7>1, <7>2
          <6> QED BY <6>1, <6>2
        <5> QED BY <5>2, <5>3, <5>4
      <4> QED BY <4>1, <4>2
    <3>4. ASSUME ~AnswersInitialized
          PROVE  Len(lines') + Len(requests') <=
                   notes + (IF \E k \in 1..Len(requests') : requests'[k].id = 2 THEN 2 ELSE 1)
      <4>1. (\E k \in 1..n : requests[k].id = 2) => (\E k \in 1..Len(requests') : requests'[k].id = 2)
        <5>1. ASSUME NEW k \in 1..n, requests[k].id = 2
              PROVE  \E i \in 1..Len(requests') : requests'[i].id = 2
          <6>1. k # 1
            BY <1>9, <3>4, <5>1 DEF r
          <6>2. k - 1 \in 1..Len(requests') /\ (k - 1) + 1 = k
            BY <1>3, <1>4, <6>1
          <6>3. requests'[k - 1] = requests[k]
            BY <1>4, <6>2
          <6> QED BY <5>1, <6>2, <6>3
        <5> QED BY <5>1
      <4>2. Len(lines') + Len(requests') = Len(lines) + n
        BY <1>3, <1>4, <2>4
      <4>3. Len(lines) + n <= notes + (IF \E k \in 1..n : requests[k].id = 2 THEN 2 ELSE 1)
        BY <3>4 DEF Listing, n
      <4>4. CASE \E k \in 1..n : requests[k].id = 2
        BY <4>1, <4>2, <4>3, <4>4
      <4>5. CASE ~\E k \in 1..n : requests[k].id = 2
        <5>1. Len(lines) + n <= notes + 1
          BY <4>3, <4>5
        <5>2. CASE \E k \in 1..Len(requests') : requests'[k].id = 2
          <6>1. Len(lines) + n <= notes + 2
            BY <1>3, <5>1
          <6> QED BY <4>2, <5>2, <6>1
        <5>3. CASE ~\E k \in 1..Len(requests') : requests'[k].id = 2
          BY <4>2, <5>1, <5>3
        <5> QED BY <5>2, <5>3
      <4> QED BY <4>4, <4>5
    <3>5. msgID' = 4
      BY <1>1 DEF Listing
    <3> QED BY <1>1, <3>1, <3>2, <3>3, <3>4, <3>5 DEF Listing
  <2>8. Calling => Calling'
    <3> SUFFICES ASSUME Calling PROVE Calling'
      OBVIOUS
    <3>1. Due' = Due /\ NextReader' = NextReader /\ Due \in Nat /\ NextReader \in Nat
      BY <1>1, <1>3 DEF Due, NextReader
    <3>2. \A k \in 1..Len(lines') : lines'[k].id # 0 => NextReader + k - 1 <= lines'[k].id + notes
      <4>1. NextReader + Len(lines) + 1 - 1 <= m.id + notes
        BY <1>1, <1>3, <2>2 DEF Calling, n, r
      <4>2. NextReader + (Len(lines) + 1) - 1 <= m.id + notes
        BY <1>3, <3>1, <4>1
      <4>3. \A k \in 1..Len(lines) : lines[k].id # 0 => NextReader + k - 1 <= lines[k].id + notes
        BY DEF Calling
      <4> QED BY <2>4, <4>2, <4>3
    <3>3. \A k \in 1..Len(requests') : NextReader + Len(lines') + k - 1 <= requests'[k].id + notes
      <4>1. \A k \in 1..Len(requests') :
              NextReader + Len(lines) + (k + 1) - 1 <= requests'[k].id + notes
        BY <1>1, <1>4 DEF Calling, n
      <4>2. \A k \in 1..Len(requests') :
              NextReader + Len(lines') + k - 1 = NextReader + Len(lines) + (k + 1) - 1
        BY <1>3, <2>4, <3>1
      <4> QED BY <4>1, <4>2
    <3>4. Len(lines') + Len(requests') <= notes + Due
      BY <1>1, <1>3, <1>4, <2>4, <3>1 DEF Calling, n
    <3>5. Len(lines') <= notes + Due
      BY <1>3, <1>4, <2>4, <3>1, <3>4
    <3> QED BY <1>1, <3>1, <3>2, <3>3, <3>4, <3>5 DEF Calling
  <2> QED BY <1>1, <1>7, <2>4, <2>5, <2>6, <2>7, <2>8 DEF LinesInv
<1> QED
  BY <1>8, <1>9

-----------------------------------------------------------------------------
(* Servers that write headers.                                              *)

\* Nothing but the message at the end is ever taken, from a dead server.
LEMMA TakenTail ==
    ASSUME TypeOK, HeadersInv, TakesFirst
    PROVE  ~alive /\ tail # <<>> /\ lines' = <<>> /\ tail' = <<>>
<1>1. First \in Reply /\ \/ lines # <<>> /\ First = lines[1]
                         \/ ~alive /\ tail # <<>> /\ lines' = <<>> /\ tail' = <<>>
  BY Taken
<1>2. lines # <<>> => lines[1] \in Others
  <2>1. lines # <<>> => 1 \in 1..Len(lines)
    BY PipesTyped, EmptySeq DEF Lines
  <2> QED BY <2>1 DEF HeadersInv
<1>3. \A o \in Others : o \notin Reply
  BY DEF Others, Other, Reply, Methods
<1> QED
  BY <1>1, <1>2, <1>3

LEMMA SaidHeaders ==
    ASSUME TypeOK, style[2] # "lines", HeadersInv, NEW m \in Reply, Says(m)
    PROVE  \A k \in 1..Len(lines') : lines'[k] \in Others
<1>1. PICK a \in Others, b \in Others : lines' = Append(Append(lines, a), b)
  BY Said
<1> DEFINE more == Append(lines, a)
<1>2. /\ lines \in Seq(Reply \cup Others) /\ Len(lines) \in Nat
      /\ a \in Reply \cup Others /\ b \in Reply \cup Others
  BY PipesTyped DEF Lines
<1>3. \A k \in 1..Len(lines) : lines[k] \in Others
  BY DEF HeadersInv
<1>4. /\ more \in Seq(Reply \cup Others) /\ Len(more) = Len(lines) + 1
      /\ \A k \in 1..Len(lines) : more[k] = lines[k]
      /\ more[Len(lines) + 1] = a
  BY <1>2, AppendProperties
<1>0. lines' = Append(more, b)
  BY <1>1
<1> HIDE DEF more
<1>5. /\ Len(lines') = Len(more) + 1
      /\ \A k \in 1..Len(more) : lines'[k] = more[k]
      /\ lines'[Len(more) + 1] = b
  BY <1>0, <1>2, <1>4, AppendProperties
<1>6. \A k \in 1..Len(more) : more[k] \in Others
  BY <1>2, <1>3, <1>4
<1>7. \A k \in 1..Len(lines') : k \in 1..Len(more) \/ k = Len(more) + 1
  BY <1>2, <1>4, <1>5
<1> QED
  BY <1>5, <1>6, <1>7

LEMMA NoLinesNoOthers == lines' = <<>> => \A k \in 1..Len(lines') : lines'[k] \in Others
  BY EmptySeq

LEMMA HeadersKept ==
    ASSUME TypeOK, Phases, style[2] = "headers", HeadersInv, Next
    PROVE  HeadersInv'
<1> USE DEF client, server
<1>0. CASE CannotStart
  BY <1>0 DEF CannotStart, HeadersInv
<1>1. CASE StartLocal
  BY <1>1 DEF StartLocal, HeadersInv
<1>2. CASE StartRemote
  BY <1>2 DEF StartRemote, HeadersInv, Phases
<1>3. CASE Skip
  <2>1. /\ lines \in Lines /\ lines # <<>> /\ lines' = Tail(lines)
        /\ UNCHANGED <<pc, msgID, tools, answered, style, alive, notes, requests, tail>>
    BY <1>3, PipesTyped DEF Skip
  <2>2. Len(lines) \in Nat \ {0}
    BY <2>1, EmptySeq DEF Lines
  <2>3. Len(lines') = Len(lines) - 1 /\ \A i \in 1..Len(lines') : lines'[i] = lines[i + 1]
    BY <2>1, HeadTailProperties DEF Lines
  <2>4. \A k \in 1..Len(lines') : lines'[k] \in Others
    BY <2>2, <2>3 DEF HeadersInv
  <2>5. pc = "initializing"
    BY <1>3, <2>1 DEF Skip, HeadersInv
  <2> QED BY <2>1, <2>4, <2>5 DEF HeadersInv
<1>4. CASE HandshakeFails
  <2>1. \A k \in 1..Len(lines') : lines'[k] \in Others
    <3>1. CASE NothingMore
      BY <3>1, NothingTaken DEF HeadersInv
    <3>2. CASE TakesFirst
      BY <3>2, TakenTail, NoLinesNoOthers
    <3> QED BY <1>4, <3>1, <3>2 DEF HandshakeFails
  <2> QED BY <1>4, <2>1 DEF HandshakeFails, HeadersInv
<1>5. CASE Initialized
  <2>1. /\ pc' = "listing" /\ ~alive /\ lines' = <<>> /\ tail' = <<>> /\ UNCHANGED alive
    BY <1>5, TakenTail DEF Initialized
  <2> QED BY <2>1, NoLinesNoOthers DEF HeadersInv
<1>6. CASE Listed
  <2>1. tail # <<>> /\ tail = <<>>
    BY <1>6, TakenTail DEF Listed, HeadersInv
  <2> QED BY <2>1
<1>7. CASE Call
  BY <1>7 DEF Call, HeadersInv
<1>8. CASE CallReturns
  BY <1>8 DEF CallReturns, HeadersInv
<1>9. CASE Serve
  <2>1. /\ alive /\ requests # <<>>
        /\ UNCHANGED <<pc, msgID, tools, answered, style, alive, notes>>
    BY <1>9 DEF Serve
  <2>2. pc # "new" /\ pc # "ready" /\ pc # "listing"
    BY <2>1 DEF HeadersInv
  <2>3. \A k \in 1..Len(lines') : lines'[k] \in Others
    <3>1. CASE UNCHANGED <<lines, tail>>
      BY <3>1 DEF HeadersInv
    <3>2. CASE \E error, long \in BOOLEAN :
                 Says([id |-> Head(requests).id, to |-> Head(requests).method,
                       error |-> error, long |-> long])
      <4>1. style[2] # "lines"
        OBVIOUS
      <4> QED BY <2>1, <3>2, <4>1, ServedIsReply, SaidHeaders
    <3> QED BY <1>9, <3>1, <3>2 DEF Serve
  <2> QED BY <2>1, <2>2, <2>3 DEF HeadersInv
<1>10. CASE Notify
  <2>1. /\ alive /\ UNCHANGED <<pc, msgID, tools, answered, style, alive, requests>>
        /\ notes' = notes + 1 /\ notes' # 0
    BY <1>10, PipesTyped DEF Notify
  <2>2. \A k \in 1..Len(lines') : lines'[k] \in Others
    <3>1. PICK long \in BOOLEAN : Says(Note(long))
      BY <1>10 DEF Notify, Note
    <3>2. Note(long) \in Reply /\ style[2] # "lines"
      BY DEF Note, Reply
    <3> QED BY <3>1, <3>2, SaidHeaders
  <2> QED BY <2>1, <2>2 DEF HeadersInv
<1>11. CASE Die
  BY <1>11 DEF Die, HeadersInv
<1> QED
  BY <1>0, <1>1, <1>2, <1>3, <1>4, <1>5, <1>6, <1>7, <1>8, <1>9, <1>10, <1>11 DEF Next, Receive

-----------------------------------------------------------------------------
(* The theorems.                                                            *)

LEMMA PhasesKept == TypeOK /\ Phases /\ Next => Phases'
<1> SUFFICES ASSUME TypeOK, Phases, Next PROVE Phases'
  OBVIOUS
<1> USE DEF client, server, Phases
<1>1. CASE CannotStart \/ StartLocal \/ StartRemote
  BY <1>1 DEF CannotStart, StartLocal, StartRemote
<1>2. CASE Skip \/ HandshakeFails \/ Initialized
  BY <1>2, Taken DEF Skip, HandshakeFails, Initialized
<1>3. CASE Listed
  BY <1>3, Taken DEF Listed
<1>4. CASE Call
  BY <1>4 DEF Call
<1>6. CASE CallReturns
  <2>1. pc = "calling" /\ pc' = "ready" /\ tools = "tools/list" /\ UNCHANGED tools
    BY <1>6 DEF CallReturns
  <2>2. ASSUME ~scanning' PROVE answered' # <<>> /\ answered'[Len(answered')].got = 0
    <3>1. Returns(0)
      BY <1>6, <2>2, Taken DEF CallReturns
    <3>2. answered \in Seq([asked: Nat, got: Nat]) /\ [asked |-> msgID - 1, got |-> 0] \in [asked: Nat, got: Nat]
      BY DEF TypeOK
    <3>3. /\ Len(answered') = Len(answered) + 1 /\ Len(answered) \in Nat
          /\ answered'[Len(answered) + 1] = [asked |-> msgID - 1, got |-> 0]
      BY <3>1, <3>2, AppendProperties, LenProperties DEF Returns
    <3> QED BY <3>3, EmptySeq
  <2> QED BY <2>1, <2>2
<1>5. CASE Serve \/ Notify \/ Die
  BY <1>5 DEF Serve, Notify, Die
<1> QED
  BY <1>1, <1>2, <1>3, <1>4, <1>5, <1>6 DEF Next, Receive

LEMMA LinesKept ==
    ASSUME TypeOK, Phases, Lagging, style[2] = "lines", LinesInv, Next
    PROVE  LinesInv'
  BY CannotStartLines, StartLocalLines, StartRemoteLines, SkipLines, HandshakeFailsLines, InitializedLines,
     ListedLines, CallLines, CallReturnsLines, ServeLines, NotifyLines, DieLines
  DEF Next, Receive

LEMMA LaggingKept == ClientInv /\ Next => Lagging'
<1> SUFFICES ASSUME ClientInv, Next PROVE Lagging'
  OBVIOUS
<1> USE DEF client, server
<1>1. style[2] \in Framing
  BY StylesAssumption DEF ClientInv, TypeOK
<1>2. CASE CallReturns
  <2>1. style[2] # "headers"
    BY <1>2 DEF CallReturns, ClientInv, HeadersInv
  <2> QED BY <1>1, <1>2, <2>1, CallReturnsLines DEF ClientInv, Framing
<1>3. ASSUME UNCHANGED answered, notes' = notes \/ notes' = notes + 1
      PROVE  Lagging'
  <2>1. \A i \in 1..Len(answered) : answered[i].got \in Nat /\ answered[i].asked \in Nat /\ notes \in Nat
    BY PipesTyped DEF ClientInv
  <2>2. \A i \in 1..Len(answered) : answered[i].got # 0 =>
          answered[i].asked \in answered[i].got .. answered[i].got + notes
    BY DEF ClientInv, Lagging
  <2>3. \A i \in 1..Len(answered) : answered[i].got # 0 =>
          answered[i].asked \in answered[i].got .. answered[i].got + notes'
    BY <1>3, <2>1, <2>2
  <2> QED BY <1>3, <2>3 DEF Lagging
<1>4. CASE \/ CannotStart \/ StartLocal \/ StartRemote \/ Skip
           \/ HandshakeFails \/ Initialized \/ Listed \/ Call
  BY <1>3, <1>4 DEF CannotStart, StartLocal, StartRemote, Skip, HandshakeFails, KillServer, Initialized, Listed, Call
<1>5. CASE Serve \/ Notify \/ Die
  BY <1>3, <1>5 DEF Serve, Notify, Die
<1> QED
  BY <1>2, <1>4, <1>5 DEF Next, Receive

LEMMA InitClient == Init => ClientInv
<1> SUFFICES ASSUME Init PROVE ClientInv
  OBVIOUS
<1>1. TypeOK
  BY InitTyped
<1>2. Len(lines) = 0 /\ Len(requests) = 0 /\ Len(answered) = 0 /\ notes = 0 /\ tail = <<>>
  BY EmptySeq DEF Init
<1>3. InOrder
  BY <1>2 DEF InOrder, Ordered, RequestsNamed, LinesNamed, RequestsOrdered, LinesOrdered,
              ServedInOrder, AnswersOrdered
<1>4. LinesInv
  BY <1>2, <1>3 DEF Init, LinesInv, BeforeStart
<1>5. HeadersInv
  BY <1>2 DEF Init, HeadersInv
<1>6. Phases /\ Lagging
  BY <1>2 DEF Init, Phases, Lagging
<1> QED
  BY <1>1, <1>4, <1>5, <1>6 DEF ClientInv

LEMMA StyleKept == Next => UNCHANGED style
  BY DEF Next, Receive, client, server, CannotStart, StartLocal, StartRemote, Skip, HandshakeFails, KillServer,
         Initialized, Listed, Call, CallReturns, Serve, Notify, Die

LEMMA NextClient == ClientInv /\ [Next]_vars => ClientInv'
<1> SUFFICES ASSUME ClientInv, [Next]_vars PROVE ClientInv'
  OBVIOUS
<1>1. TypeOK'
  BY NextTyped DEF ClientInv
<1>2. CASE Next
  <2>1. UNCHANGED style
    BY <1>2, StyleKept
  <2>2. style[2] = "lines" => LinesInv'
    BY <1>2, LinesKept DEF ClientInv
  <2>3. style[2] = "headers" => HeadersInv'
    BY <1>2, HeadersKept DEF ClientInv
  <2>4. Phases' /\ Lagging'
    BY <1>2, PhasesKept, LaggingKept DEF ClientInv
  <2> QED BY <1>1, <2>1, <2>2, <2>3, <2>4 DEF ClientInv
<1>3. CASE UNCHANGED vars
  <2>1. UNCHANGED <<pc, msgID, tools, answered, scanning, style, alive, notes, requests, lines, tail>>
    BY <1>3 DEF vars, client, server
  <2>2. LinesInv => LinesInv'
    BY <2>1 DEF LinesInv, InOrder, BeforeStart, Initializing, Listing, Calling, NextReader, Due
  <2>3. HeadersInv => HeadersInv'
    BY <2>1 DEF HeadersInv
  <2>4. Phases' /\ Lagging'
    BY <2>1 DEF ClientInv, Phases, Lagging
  <2> QED BY <1>1, <2>1, <2>2, <2>3, <2>4 DEF ClientInv
<1> QED
  BY <1>2, <1>3

LEMMA ClientKept == Spec => []ClientInv
  BY InitClient, NextClient, PTL DEF Spec

\* Client, server and pipes keep their types, whatever the server writes.
THEOREM ClientTyped == Spec => []TypeOK
<1>1. ClientInv => TypeOK
  BY DEF ClientInv
<1> QED
  BY <1>1, ClientKept, PTL

\* Client.Call takes whatever comes next. For any number of calls and of
\* messages said unasked, what it gets is never older than there were such
\* messages, never from the future, and never got twice.
THEOREM AnswersAlwaysLag == Spec => []AnswersLag
<1>1. ClientInv => AnswersLag
  <2> SUFFICES ASSUME ClientInv, NEW i \in DOMAIN answered, answered[i].got # 0
               PROVE  /\ answered[i].asked \in answered[i].got .. answered[i].got + notes
                      /\ \A j \in 1 .. i - 1 : answered[j].got < answered[i].got
    BY DEF AnswersLag
  <2>1. DOMAIN answered = 1..Len(answered)
    BY PipesTyped, LenProperties DEF ClientInv, Answers
  <2>2. answered # <<>>
    BY <2>1, EmptySeq
  <2>3. style[2] = "lines" \/ style[2] = "headers"
    BY StylesAssumption DEF ClientInv, TypeOK, Framing
  <2>4. CASE style[2] = "lines"
    BY <2>1, <2>4 DEF ClientInv, Lagging, LinesInv, InOrder, Ordered, AnswersOrdered
  <2>5. CASE style[2] = "headers"
    <3>1. tools = "none"
      BY <2>5 DEF ClientInv, TypeOK, Phases, HeadersInv
    <3> QED BY <2>2, <3>1 DEF ClientInv, Phases
  <2> QED BY <2>3, <2>4, <2>5
<1> QED
  BY <1>1, ClientKept, PTL

\* An idle client of a server that does not answer the notification, and has
\* said nothing unasked, has read everything: replies that were errors, and
\* the server's death at any moment, leave nothing for the next call. A line
\* that was too long leaves the rest unread, and no call gets any of it.
THEOREM NothingEverLeftOver ==
    ASSUME ~AnswersInitialized
    PROVE  Spec => []NothingLeftOver
<1>1. ClientInv => NothingLeftOver
  <2>4. ASSUME ClientInv, pc = "ready", ~scanning
        PROVE  answered # <<>> /\ answered[Len(answered)].got = 0
    BY <2>4 DEF ClientInv, Phases
  <2> SUFFICES ASSUME ClientInv, pc = "ready", notes = 0, scanning
               PROVE  lines = <<>> /\ tail = <<>> /\ (alive => requests = <<>>)
    BY <2>4 DEF NothingLeftOver
  <2>1. style[2] = "lines" \/ style[2] = "headers"
    BY StylesAssumption DEF ClientInv, TypeOK, Framing
  <2>2. CASE style[2] = "headers"
    BY <2>2 DEF ClientInv, HeadersInv
  <2>3. CASE style[2] = "lines"
    <3>1. LinesInv /\ tools \in {"none", "tools/list"}
      BY <2>3 DEF ClientInv, LinesInv
    <3>2. /\ Len(lines) \in Nat /\ Len(requests) \in Nat
          /\ lines \in Lines /\ requests \in Seq(Request)
      BY PipesTyped DEF ClientInv
    <3>3. Len(lines) = 0 /\ (alive => Len(requests) = 0)
      <4>1. CASE tools = "none"
        BY <3>1, <3>2, <4>1, EmptySeq DEF LinesInv, BeforeStart
      <4>2. CASE tools = "tools/list"
        <5>1. Calling /\ Due = 0
          BY <3>1, <4>2 DEF LinesInv, Due
        <5> QED BY <3>2, <5>1 DEF Calling
      <4> QED BY <3>1, <4>1, <4>2
    <3>4. lines = <<>> /\ (alive => requests = <<>>)
      BY <3>2, <3>3, EmptySeq DEF Lines
    <3> QED BY <3>1, <3>4 DEF LinesInv
  <2> QED BY <2>1, <2>2, <2>3
<1> QED
  BY <1>1, ClientKept, PTL
===============================================================================
