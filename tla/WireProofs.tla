------------------------------ MODULE WireProofs -------------------------------
(***************************************************************************)
(* What holds of ProviderWire and ChatStream for every number of replies    *)
(* and of pieces in a reply: requests show what has happened, and streamed  *)
(* replies arrive in order and whole.                                       *)
(*                                                                          *)
(* WireInv relates the messages, one by one, to what has happened.          *)
(* StreamInv says of a stream that is open what is still to come: what has  *)
(* arrived and what the lines that are left bring make up the reply.        *)
(***************************************************************************)
EXTENDS ChatStream, RecursionTheorems

-----------------------------------------------------------------------------
(* What messages are made of.                                               *)

Functions == {Function(id) : id \in Names}
Contents  == Texts \cup Calls \cup Results \cup Functions
Roles     == {"system", "user", "assistant", "tool"}
Messages  == [role: Roles, content: Seq(Contents)]

\* What a user or a model says.
Sayable == (Texts \cup Calls) \ {Text(System), Text(Summary)}

\* Texts, calls, results and functions are different things.
LEMMA KindsApart ==
    /\ Texts \cap Calls = {} /\ Texts \cap Results = {} /\ Calls \cap Results = {}
    /\ Functions \cap (Texts \cup Calls \cup Results) = {}
    /\ \A c \in Contents : c.type = "call" <=> c \in Calls
    /\ \A c \in Calls : Function(c.id) \in Functions
  BY DEF Texts, Calls, Results, Functions, Contents, Text, Call, Function

\* The texts that have a name are texts, and different ones.
LEMMA TextsKnown ==
    ASSUME WireBounds
    PROVE  /\ {Text(Empty), Text(Prompt), Text(Summary), Text(System)} \subseteq Texts
           /\ Text(Prompt) \notin {Text(Empty), Text(Summary), Text(System)}
           /\ Text(Summary) \notin {Text(Empty), Text(System)} /\ Text(Empty) # Text(System)
<1>1. 0 \in 0..MaxReplies /\ {0, 1, 2, 3} \subseteq 0..MaxBlocks + 3
  BY DEF WireBounds
<1>2. {Empty, Prompt, Summary, System} \subseteq Names
  BY <1>1 DEF Names, Empty, Prompt, Summary, System
<1>3. Prompt \notin {Empty, Summary, System} /\ Summary \notin {Empty, System} /\ Empty # System
  BY DEF Empty, Prompt, Summary, System
<1>4. \A s, t : Text(s) = Text(t) => s = t
  BY DEF Text
<1> QED
  BY <1>2, <1>3, <1>4 DEF Texts

\* A result stays one with its id when it is shown, and is never missing.
LEMMA ResultsKept ==
    ASSUME NEW r \in Results
    PROVE  /\ AsShown(r) \in Results /\ AsShown(r).id = r.id
           /\ r \in Readable /\ AsShown(r) \in Readable /\ r \notin MayMiss
<1>1. AsShown(r) \in Results /\ AsShown(r).id = r.id
  BY DEF AsShown, Results
<1>2. \A x \in Results : x \in Readable /\ x # Text(Summary)
  BY DEF Readable, Results, Text
<1> QED
  BY <1>1, <1>2, KindsApart DEF MayMiss

\* A message and what happened: a summary; an answer, one result; or what a
\* user or a model said, up to empty texts.
Pair(m, h) ==
    /\ m \in Messages /\ h \in Seq(Contents)
    /\ \/ /\ m.role = "system"
          /\ m.content = <<Text(Summary)>> /\ h = <<Text(Summary)>>
       \/ /\ m.role = "tool"
          /\ h \in Seq(Results) /\ Len(h) = 1 /\ m.content = h
       \/ /\ m.role \in {"user", "assistant"}
          /\ m.content \in Seq(Sayable) /\ h \in Seq(Sayable)
          /\ Within(m.content, Readable) = Within(h, Readable)

\* Nothing is done to what is no result.
LEMMA ShownAsIs ==
    ASSUME NEW h \in Seq(Contents), NEW S, \A x \in S : AsShown(x) = x,
           h \in Seq(S)
    PROVE  ToShow(h) = Within(h, Readable \ MayMiss)
<1> DEFINE seen == Within(h, Readable \ MayMiss)
           f == [k \in DOMAIN seen |-> AsShown(seen[k])]
<1>1. seen \in Seq(S)
  BY WithinIsPart
<1>3. ToShow(h) = f
  BY DEF ToShow
<1>4. Len(seen) \in Nat /\ DOMAIN seen = 1..Len(seen) /\ \A k \in 1..Len(seen) : seen[k] \in S
  BY <1>1, LenProperties, ElementOfSeq
<1>5. seen = [k \in 1..Len(seen) |-> seen[k]]
  BY <1>1, LenProperties
<1> HIDE DEF seen
<1>6. f = [k \in 1..Len(seen) |-> seen[k]]
  BY <1>4
<1> QED
  BY <1>3, <1>5, <1>6 DEF seen

\* An answer is shown as one result.
LEMMA AnswerShown ==
    ASSUME NEW h \in Seq(Results), Len(h) = 1
    PROVE  ToShow(h) = <<AsShown(h[1])>> /\ h[1] \in Results
<1>1. h[1] \in Results
  BY ElementOfSeq
<1>2. Within(h, Readable \ MayMiss) = h
  <2>1. Results \subseteq Readable \ MayMiss
    BY ResultsKept
  <2> QED BY <2>1, WithinAll
<1>3. DOMAIN h = 1..1
  BY LenProperties
<1>4. ToShow(h) = [k \in 1..1 |-> AsShown(h[k])]
  BY <1>2, <1>3 DEF ToShow
<1>5. [k \in 1..1 |-> AsShown(h[k])] = <<AsShown(h[1])>>
  <2> DEFINE f == [k \in 1..1 |-> AsShown(h[k])]
             g == <<AsShown(h[1])>>
  <2>1. DOMAIN f = 1..1 /\ DOMAIN g = 1..1 /\ \A k \in 1..1 : f[k] = g[k]
    OBVIOUS
  <2> QED OBVIOUS
<1> QED
  BY <1>1, <1>4, <1>5

\* What can be read of two lists is the same, and so is any part of it.
LEMMA SameRead ==
    ASSUME NEW c \in Seq(Contents), NEW h \in Seq(Contents), NEW S,
           Within(c, Readable) = Within(h, Readable)
    PROVE  Within(c, Readable \ S) = Within(h, Readable \ S)
<1> DEFINE B == Readable \ S
<1>1. Readable \cap B = B
  OBVIOUS
<1> HIDE DEF B
<1>2. Within(Within(c, Readable), B) = Within(c, Readable \cap B)
  BY WithinWithin
<1>3. Within(Within(h, Readable), B) = Within(h, Readable \cap B)
  BY WithinWithin
<1>4. Within(c, B) = Within(h, B)
  BY <1>1, <1>2, <1>3
<1> QED
  BY <1>4 DEF B

\* A message that is no answer is made of texts and calls.
LEMMA NoAnswer ==
    ASSUME WireBounds, NEW m, NEW h, Pair(m, h), m.role # "tool"
    PROVE  /\ m.content \in Seq(Texts \cup Calls) /\ h \in Seq(Texts \cup Calls)
           /\ m.content \in Seq(Contents) /\ h \in Seq(Contents)
           /\ Within(m.content, Readable) = Within(h, Readable)
<1>1. m.content \in Seq(Contents) /\ h \in Seq(Contents)
  BY DEF Pair, Messages
<1>2. CASE m.role = "system"
  <2>1. m.content = <<Text(Summary)>> /\ h = <<Text(Summary)>>
    BY <1>2 DEF Pair
  <2>2. Text(Summary) \in Texts \cup Calls
    BY TextsKnown
  <2>3. \A x \in Texts \cup Calls : <<x>> \in Seq(Texts \cup Calls)
    OBVIOUS
  <2>4. <<Text(Summary)>> \in Seq(Texts \cup Calls)
    BY <2>2, <2>3, Zenon
  <2> QED BY <1>1, <2>1, <2>4, Zenon
<1>3. CASE m.role # "system"
  <2>1. /\ m.content \in Seq(Sayable) /\ h \in Seq(Sayable)
        /\ Within(m.content, Readable) = Within(h, Readable)
    BY <1>3 DEF Pair
  <2>2. Sayable \subseteq Texts \cup Calls
    BY DEF Sayable
  <2>3. m.content \in Seq(Texts \cup Calls) /\ h \in Seq(Texts \cup Calls)
    BY <2>1, <2>2, SeqMonotonic
  <2> QED BY <1>1, <2>1, <2>3
<1> QED
  BY <1>2, <1>3

\* openai.go, toOpenAIMessage: all but the calls is in the message.
LEMMA OpenAIShows ==
    ASSUME WireBounds, provider = "openai", NEW m, NEW h, Pair(m, h)
    PROVE  /\ toOpenAIMessage(m) \in Messages
           /\ Within(toOpenAIMessage(m).content, Readable) = ToShow(h)
<1>0. MayMiss = Calls
  BY DEF MayMiss
<1> DEFINE it == toOpenAIMessage(m)
<1>3. ASSUME NEW r \in Roles, NEW c \in Seq(Contents), it = Say(r, c) PROVE it \in Messages
  BY <1>3 DEF Say, Messages
<1> HIDE DEF it
<1>1. CASE m.role = "tool"
  <2>1. h \in Seq(Results) /\ Len(h) = 1 /\ m.content = h
    BY <1>1 DEF Pair
  <2>2. Within(m.content, Results) = h
    BY <2>1, WithinAll
  <2>3. ToShow(h) = <<AsShown(h[1])>> /\ h[1] \in Results /\ h # <<>>
    BY <2>1, AnswerShown
  <2>4. toOpenAIMessage(m).content = <<AsShown(h[1])>>
    <3>1. AsShown(h[1]) = IF h[1].error THEN [h[1] EXCEPT !.data = FALSE] ELSE h[1]
      BY <2>3 DEF AsShown
    <3> DEFINE x == IF h[1].error THEN [h[1] EXCEPT !.data = FALSE] ELSE h[1]
    <3>2. toOpenAIMessage(m) = Say("tool", <<x>>)
      BY <2>2, <2>3, Zenon DEF toOpenAIMessage
    <3> HIDE DEF x
    <3>3. Say("tool", <<x>>).content = <<x>>
      BY DEF Say
    <3>4. AsShown(h[1]) = x
      BY <3>1 DEF x
    <3> QED BY <3>2, <3>3, <3>4, Zenon
  <2>9. toOpenAIMessage(m) = Say("tool", <<AsShown(h[1])>>)
    <3>1. AsShown(h[1]) = IF h[1].error THEN [h[1] EXCEPT !.data = FALSE] ELSE h[1]
      BY <2>3 DEF AsShown
    <3> QED BY <2>2, <2>3, <3>1, Zenon DEF toOpenAIMessage
  <2>5. AsShown(h[1]) \in Contents /\ AsShown(h[1]) \in Readable
    BY <2>3, ResultsKept DEF Contents
  <2>6. \A x \in Contents : <<x>> \in Seq(Contents)
    OBVIOUS
  <2>7. Within(<<AsShown(h[1])>>, Readable) = <<AsShown(h[1])>>
    BY <2>5, WithinOne, Zenon
  <2>8. <<AsShown(h[1])>> \in Seq(Contents)
    BY <2>5, <2>6, Zenon
  <2>10. "tool" \in Roles
    BY DEF Roles
  <2>11. it \in Messages
    BY <1>3, <2>8, <2>9, <2>10, Zenon DEF it
  <2> QED BY <2>3, <2>4, <2>7, <2>11, Zenon DEF it
<1>2. CASE m.role # "tool"
  <2> DEFINE c == m.content
             f == [k \in DOMAIN c |-> IF c[k].type = "call" THEN Function(c[k].id) ELSE c[k]]
  <2>1. /\ c \in Seq(Texts \cup Calls) /\ h \in Seq(Texts \cup Calls)
        /\ c \in Seq(Contents) /\ h \in Seq(Contents)
        /\ Within(c, Readable) = Within(h, Readable)
    BY <1>2, NoAnswer
  <2>2. (Texts \cup Calls) \cap Results = {}
    BY KindsApart
  <2>3. Within(c, Results) = <<>>
    BY <2>1, <2>2, WithinNone
  <2>4. toOpenAIMessage(m).content = f
    BY <2>3 DEF toOpenAIMessage, Say
  <2>5. Len(c) \in Nat /\ DOMAIN c = 1..Len(c) /\ \A k \in 1..Len(c) : c[k] \in Texts \cup Calls
    BY <2>1, LenProperties, ElementOfSeq
  <2> HIDE DEF c
  <2>6. ASSUME NEW k \in 1..Len(c)
        PROVE  /\ f[k] \in Contents
               /\ f[k] \in Readable <=> c[k] \in Readable \ Calls
               /\ f[k] \in Readable => f[k] = c[k]
    <3>1. c[k] \in Texts \cup Calls /\ c[k] \in Contents
      BY <2>5 DEF Contents
    <3>2. c[k].type = "call" <=> c[k] \in Calls
      BY <3>1, KindsApart
    <3>3. f[k] = IF c[k].type = "call" THEN Function(c[k].id) ELSE c[k]
      BY <2>5
    <3> HIDE DEF f
    <3>4. CASE c[k] \in Calls
      <4>1. f[k] = Function(c[k].id)
        BY <3>2, <3>3, <3>4
      <4>2. f[k] \in Functions
        BY <3>4, <4>1, KindsApart
      <4>3. f[k] \notin Readable
        BY <4>2, KindsApart DEF Readable
      <4> QED BY <3>4, <4>2, <4>3 DEF Contents
    <3>5. CASE c[k] \notin Calls
      <4>1. f[k] = c[k]
        BY <3>2, <3>3, <3>5
      <4> QED BY <3>1, <3>5, <4>1
    <3> QED BY <3>4, <3>5
  <2>7. f \in Seq(Contents) /\ Len(f) = Len(c)
    <3>1. f = [k \in 1..Len(c) |-> f[k]]
      BY <2>5
    <3> HIDE DEF f
    <3>2. f \in [1..Len(c) -> Contents]
      BY <2>6, <3>1
    <3>3. f \in Seq(Contents)
      BY <2>5, <3>2, SeqDef
    <3>4. DOMAIN f = 1..Len(f) /\ DOMAIN f = 1..Len(c) /\ Len(f) \in Nat
      BY <3>2, <3>3, LenProperties
    <3> QED BY <2>5, <3>3, <3>4, SameLength
  <2>11. toOpenAIMessage(m) = Say(m.role, f)
    BY <2>3 DEF toOpenAIMessage, c
  <2> HIDE DEF f
  <2>12. it \in Messages
    <3>1. m.role \in Roles
      BY DEF Pair, Messages
    <3> QED BY <1>3, <2>7, <2>11, <3>1, Zenon DEF it
  <2>8. Within(f, Readable) = Within(c, Readable \ Calls)
    <3> DEFINE B == Readable \ Calls
    <3>1. \A k \in 1..Len(f) : (f[k] \in Readable <=> c[k] \in B) /\ (f[k] \in Readable => f[k] = c[k])
      BY <2>6, <2>7
    <3> HIDE DEF B
    <3>2. Within(f, Readable) = Within(c, B)
      BY <2>1, <2>7, <3>1, WithinSame DEF c
    <3> QED BY <3>2 DEF B
  <2>9. Within(c, Readable \ Calls) = Within(h, Readable \ Calls)
    BY <2>1, SameRead
  <2>10. ToShow(h) = Within(h, Readable \ MayMiss)
    <3>1. \A x \in Texts \cup Calls : AsShown(x) = x
      BY <2>2 DEF AsShown
    <3> QED BY <2>1, <3>1, ShownAsIs
  <2> QED BY <1>0, <2>4, <2>8, <2>9, <2>10, <2>12, Zenon DEF it
<1> QED
  BY <1>1, <1>2

\* To Anthropic everything but a summary is shown.
LEMMA AnthropicToShow ==
    ASSUME provider # "openai", NEW h \in Seq(Contents)
    PROVE  ToShow(h) = Within(h, Readable \ {Text(Summary)})
<1>1. \A x \in Contents : AsShown(x) = x
  BY DEF AsShown
<1>2. ToShow(h) = Within(h, Readable \ MayMiss)
  BY <1>1, ShownAsIs
<1> QED
  BY <1>2 DEF MayMiss

\* anthropic.go, toAnthropicMessage: everything is in the message.
LEMMA AnthropicShows ==
    ASSUME WireBounds, provider # "openai", NEW m, NEW h, Pair(m, h), m.role # "system"
    PROVE  /\ toAnthropicMessage(m) \in Messages
           /\ Within(toAnthropicMessage(m).content, Readable) = ToShow(h)
<1> DEFINE c == m.content
           B == Readable \ {Text(Summary)}
<1>1. c \in Seq(Contents) /\ h \in Seq(Contents) /\ m.role \in Roles
  BY DEF Pair, Messages
<1>2. ToShow(h) = Within(h, B)
  BY <1>1, AnthropicToShow
<1>3. Within(c, Readable) = Within(h, Readable)
  <2>1. CASE m.role = "tool"
    BY <2>1 DEF Pair
  <2>2. CASE m.role # "tool"
    BY <2>2, NoAnswer
  <2> QED BY <2>1, <2>2
<1>4. Within(h, Readable) = Within(h, B)
  <2>1. PICK S \in {Results, Sayable} : h \in Seq(S)
    BY DEF Pair
  <2>2. Text(Summary) \notin S
    BY <2>1, TextsKnown, KindsApart DEF Sayable
  <2> HIDE DEF B
  <2>3. \A k \in 1..Len(h) : h[k] \in Readable <=> h[k] \in B
    <3>1. \A k \in 1..Len(h) : h[k] # Text(Summary)
      BY <2>1, <2>2, ElementOfSeq
    <3> QED BY <3>1 DEF B
  <2> QED BY <1>1, <2>3, WithinSame
<1>5. CASE c # <<>>
  <2>1. toAnthropicMessage(m) = Say(m.role, c)
    BY <1>5 DEF toAnthropicMessage
  <2> HIDE DEF c, B
  <2>2. toAnthropicMessage(m).content = c /\ toAnthropicMessage(m) \in Messages
    BY <1>1, <2>1 DEF Say, Messages
  <2> QED BY <1>2, <1>3, <1>4, <2>2
<1>6. CASE c = <<>>
  <2> DEFINE e == <<Text(Empty)>>
  <2>1. toAnthropicMessage(m) = Say(m.role, e)
    BY <1>6 DEF toAnthropicMessage
  <2>2. Text(Empty) \in Contents /\ Text(Empty) \notin Readable
    BY TextsKnown DEF Contents, Readable
  <2>3. e \in Seq(Contents)
    <3>1. \A x \in Contents : <<x>> \in Seq(Contents)
      OBVIOUS
    <3> QED BY <2>2, <3>1, Zenon
  <2>4. Within(e, Readable) = <<>>
    BY <2>2, WithinOne, Zenon
  <2> HIDE DEF e
  <2>5. toAnthropicMessage(m).content = e /\ toAnthropicMessage(m) \in Messages
    BY <1>1, <2>1, <2>3 DEF Say, Messages
  <2>6. Within(c, Readable) = <<>>
    BY <1>6, WithinEmpty
  <2> HIDE DEF B, c
  <2>7. Within(e, Readable) = ToShow(h)
    BY <1>2, <1>3, <1>4, <2>4, <2>6, Zenon
  <2> QED BY <2>5, <2>7
<1> QED
  BY <1>5, <1>6

\* To Anthropic a summary need not be shown.
LEMMA SummaryNotShown ==
    ASSUME WireBounds, provider # "openai", NEW m, NEW h, Pair(m, h), m.role = "system"
    PROVE  ToShow(h) = <<>>
<1>1. h = <<Text(Summary)>> /\ h \in Seq(Contents)
  BY DEF Pair
<1>2. ToShow(h) = Within(h, Readable \ {Text(Summary)})
  BY <1>1, AnthropicToShow
<1>3. Text(Summary) \in Contents /\ Text(Summary) \notin Readable \ {Text(Summary)}
  BY TextsKnown DEF Contents
<1>4. Within(<<Text(Summary)>>, Readable \ {Text(Summary)}) = <<>>
  BY <1>3, WithinOne, Zenon
<1> QED
  BY <1>1, <1>2, <1>4, Zenon

-----------------------------------------------------------------------------
(* A request.                                                               *)

Read(w) == [k \in DOMAIN w |-> Within(w[k].content, Readable)]

\* What is read of messages, given what is read of each.
LEMMA ReadIs ==
    ASSUME NEW w \in Seq(Messages), NEW g \in Seq(Seq(Contents)), Len(g) = Len(w),
           \A k \in 1..Len(w) : Within(w[k].content, Readable) = g[k]
    PROVE  Read(w) = g
<1>1. DOMAIN w = 1..Len(w)
  BY LenProperties
<1>2. g = [k \in 1..Len(g) |-> g[k]]
  BY LenProperties
<1>3. Read(w) = [k \in 1..Len(w) |-> g[k]]
  BY <1>1 DEF Read
<1> QED
  BY <1>2, <1>3

\* A message in front of which nothing can be read.
LEMMA SilentFront ==
    ASSUME NEW x \in Messages, Within(x.content, Readable) = <<>>,
           NEW w \in Seq(Messages), NEW g \in Seq(Seq(Contents)), Len(g) = Len(w),
           \A k \in 1..Len(w) : Within(w[k].content, Readable) = g[k]
    PROVE  Joined(Read(<<x>> \o w)) = Joined(g)
<1> DEFINE y == <<x>> \o w
           V == Seq(Contents)
           no == <<<<>>>>
           h == no \o g
           n == Len(w)
<1>1. /\ y \in Seq(Messages) /\ Len(y) = n + 1 /\ n \in Nat
      /\ \A k \in 1..n + 1 : y[k] = IF k = 1 THEN x ELSE w[k - 1]
  <2>1. <<x>> \in Seq(Messages) /\ Len(<<x>>) = 1 /\ <<x>>[1] = x
    OBVIOUS
  <2> DEFINE o == <<x>>
  <2>2. o \in Seq(Messages) /\ Len(o) = 1 /\ o[1] = x
    BY <2>1
  <2> HIDE DEF o
  <2>3. o \o w \in Seq(Messages) /\ Len(o \o w) = Len(o) + Len(w) /\ Len(w) \in Nat
        /\ \A i \in 1..Len(o) + Len(w) : (o \o w)[i] = IF i <= Len(o) THEN o[i] ELSE w[i - Len(o)]
    BY <2>2, ConcatProperties, LenProperties
  <2> DEFINE z == o \o w
  <2>4. z \in Seq(Messages) /\ Len(z) = 1 + n /\ n \in Nat
        /\ \A i \in 1..1 + n : z[i] = IF i <= 1 THEN o[i] ELSE w[i - 1]
    BY <2>2, <2>3
  <2> HIDE DEF z, n
  <2>5. z \in Seq(Messages) /\ Len(z) = n + 1
        /\ \A k \in 1..n + 1 : z[k] = IF k = 1 THEN x ELSE w[k - 1]
    BY <2>2, <2>4
  <2> QED BY <2>4, <2>5 DEF z, o
<1>2. /\ h \in Seq(V) /\ Len(h) = n + 1
      /\ \A k \in 1..n + 1 : h[k] = IF k = 1 THEN <<>> ELSE g[k - 1]
  <2>1. no \in Seq(V) /\ Len(no) = 1 /\ no[1] = <<>>
    <3>1. <<>> \in V
      BY EmptySeq
    <3> HIDE DEF V
    <3>2. \A e \in V : <<e>> \in Seq(V) /\ Len(<<e>>) = 1 /\ <<e>>[1] = e
      OBVIOUS
    <3> QED BY <3>1, <3>2, Zenon
  <2> HIDE DEF no, V
  <2>2. g \in Seq(V)
    BY DEF V
  <2>3. /\ h \in Seq(V) /\ Len(h) = Len(no) + Len(g) /\ Len(g) \in Nat
        /\ \A i \in 1..Len(no) + Len(g) : h[i] = IF i <= Len(no) THEN no[i] ELSE g[i - Len(no)]
    BY <2>1, <2>2, ConcatProperties, LenProperties
  <2> HIDE DEF h
  <2> QED BY <1>1, <2>1, <2>3
<1> HIDE DEF y, h, n
<1>3. ASSUME NEW k \in 1..Len(y) PROVE Within(y[k].content, Readable) = h[k]
  <2>1. CASE k = 1
    BY <1>1, <1>2, <2>1
  <2>2. CASE k # 1
    <3>1. k - 1 \in 1..n /\ y[k] = w[k - 1] /\ h[k] = g[k - 1]
      BY <1>1, <1>2, <2>2
    <3>2. k - 1 \in 1..Len(w)
      BY <3>1 DEF n
    <3>3. Within(w[k - 1].content, Readable) = g[k - 1]
      BY <3>2
    <3> QED BY <3>1, <3>3
  <2> QED BY <2>1, <2>2
<1>4. Read(y) = h
  BY <1>1, <1>2, <1>3, ReadIs
<1>5. Joined(h) = Joined(no) \o Joined(g)
  <2>1. no \in Seq(V)
    <3>1. <<>> \in V
      BY EmptySeq
    <3> HIDE DEF V
    <3>2. \A e \in V : <<e>> \in Seq(V)
      OBVIOUS
    <3> QED BY <3>1, <3>2, Zenon
  <2> HIDE DEF no
  <2>2. Joined(no \o g) = Joined(no) \o Joined(g)
    BY <2>1, JoinedConcat
  <2> QED BY <2>2 DEF h
<1>6. Joined(no) = <<>>
  <2>1. <<>> \in Seq(Contents)
    BY EmptySeq
  <2> QED BY <2>1, JoinedOne
<1>7. Joined(g) \in Seq(Contents)
  BY JoinedIsSeq
<1>8. <<>> \o Joined(g) = Joined(g)
  BY <1>7, ConcatEmptySeq
<1> HIDE DEF no
<1>9. Joined(h) = Joined(g)
  BY <1>5, <1>6, <1>8
<1> QED
  BY <1>4, <1>9 DEF y

\* What is known of the messages and of what has happened: there is one of
\* these for each of those, and a summary stands in front.
Talk(ms, hs) ==
    /\ ms \in Seq(Messages) /\ hs \in Seq(Seq(Contents)) /\ Len(ms) = Len(hs)
    /\ \A k \in 1..Len(ms) : Pair(ms[k], hs[k]) /\ (k # 1 => ms[k].role # "system")

ShownOf(hs) == [k \in DOMAIN hs |-> ToShow(hs[k])]

\* What has to be shown is made of contents.
LEMMA ToShowIsSeq ==
    ASSUME NEW m, NEW h, Pair(m, h)
    PROVE  ToShow(h) \in Seq(Contents)
<1> DEFINE seen == Within(h, Readable \ MayMiss)
           f == [k \in DOMAIN seen |-> AsShown(seen[k])]
<1>1. h \in Seq(Contents)
  BY DEF Pair
<1>2. seen \in Seq(Contents)
  BY <1>1, WithinIsPart
<1>3. \A c \in Contents : AsShown(c) \in Contents
  BY ResultsKept DEF AsShown, Contents
<1>4. Len(seen) \in Nat /\ DOMAIN seen = 1..Len(seen) /\ \A k \in 1..Len(seen) : seen[k] \in Contents
  BY <1>2, LenProperties, ElementOfSeq
<1> HIDE DEF seen
<1>5. f \in [1..Len(seen) -> Contents]
  BY <1>3, <1>4
<1>6. f \in Seq(Contents)
  BY <1>4, <1>5, SeqDef
<1> QED
  BY <1>6 DEF ToShow, seen

\* What has to be shown of each thing that happened.
LEMMA ShownOfIsSeq ==
    ASSUME NEW ms, NEW hs, Talk(ms, hs)
    PROVE  /\ ShownOf(hs) \in Seq(Seq(Contents)) /\ Len(ShownOf(hs)) = Len(hs)
           /\ \A k \in 1..Len(hs) : ShownOf(hs)[k] = ToShow(hs[k])
<1> DEFINE n == Len(hs)
           V == Seq(Contents)
<1>1. n \in Nat /\ DOMAIN hs = 1..n
  BY LenProperties DEF Talk
<1>2. \A k \in 1..n : ToShow(hs[k]) \in V
  BY ToShowIsSeq DEF Talk
<1>3. ShownOf(hs) = [k \in 1..n |-> ToShow(hs[k])]
  BY <1>1 DEF ShownOf
<1> HIDE DEF n, V
<1>4. ShownOf(hs) \in [1..n -> V]
  BY <1>2, <1>3
<1>5. ShownOf(hs) \in Seq(V)
  BY <1>1, <1>4, SeqDef
<1>6. Len(ShownOf(hs)) \in Nat /\ DOMAIN ShownOf(hs) = 1..Len(ShownOf(hs)) /\ DOMAIN ShownOf(hs) = 1..n
  BY <1>3, <1>5, LenProperties
<1>7. Len(ShownOf(hs)) = n
  BY <1>1, <1>6, SameLength
<1> QED
  BY <1>3, <1>5, <1>7 DEF n, V

\* As many messages are made of messages.
LEMMA Mapped ==
    ASSUME NEW ms \in Seq(Messages), NEW f, DOMAIN f = DOMAIN ms,
           \A k \in 1..Len(ms) : f[k] \in Messages, f = [k \in DOMAIN ms |-> f[k]]
    PROVE  f \in Seq(Messages) /\ Len(f) = Len(ms)
<1>1. Len(ms) \in Nat /\ DOMAIN ms = 1..Len(ms)
  BY LenProperties
<1> HIDE DEF Messages
<1>2. f \in [1..Len(ms) -> Messages]
  BY <1>1
<1>3. f \in Seq(Messages)
  BY <1>1, <1>2, SeqDef
<1>4. DOMAIN f = 1..Len(f) /\ Len(f) \in Nat
  BY <1>3, LenProperties
<1> QED
  BY <1>1, <1>3, <1>4, SameLength

\* The system prompt is nothing to be read.
LEMMA SystemSilent ==
    ASSUME WireBounds
    PROVE  /\ <<Text(System)>> \in Seq(Contents) /\ Within(<<Text(System)>>, Readable) = <<>>
           /\ <<>> \in Seq(Contents) /\ Within(<<>>, Readable) = <<>>
           /\ \A c \in Seq(Contents) : Say("system", c) \in Messages /\ Say("system", c).content = c
<1>1. Text(System) \in Contents /\ Text(System) \notin Readable
  BY TextsKnown DEF Contents, Readable
<1>2. \A x \in Contents : <<x>> \in Seq(Contents)
  OBVIOUS
<1>3. <<Text(System)>> \in Seq(Contents)
  BY <1>1, <1>2, Zenon
<1>4. Within(<<Text(System)>>, Readable) = <<>>
  BY <1>1, WithinOne, Zenon
<1>5. \A c \in Seq(Contents) : Say("system", c) \in Messages /\ Say("system", c).content = c
  BY DEF Say, Messages, Roles
<1>6. <<>> \in Seq(Contents) /\ Within(<<>>, Readable) = <<>>
  BY EmptySeq, WithinEmpty
<1> QED
  BY <1>3, <1>4, <1>5, <1>6

\* openai.go, toOpenAIRequest.
LEMMA OpenAIRequestShows ==
    ASSUME WireBounds, provider = "openai", NEW ms, NEW hs, Talk(ms, hs)
    PROVE  Joined(Read(OpenAIRequest(ms))) = Joined(ShownOf(hs))
<1> DEFINE f == [k \in DOMAIN ms |-> toOpenAIMessage(ms[k])]
           g == ShownOf(hs)
<1>1. /\ ms \in Seq(Messages) /\ Len(ms) = Len(hs) /\ Len(ms) \in Nat /\ DOMAIN ms = 1..Len(ms)
      /\ \A k \in 1..Len(ms) : Pair(ms[k], hs[k])
  BY LenProperties DEF Talk
<1>2. \A k \in 1..Len(ms) : f[k] = toOpenAIMessage(ms[k])
  BY <1>1
<1>3. \A k \in 1..Len(ms) : f[k] \in Messages /\ Within(f[k].content, Readable) = ToShow(hs[k])
  BY <1>1, <1>2, OpenAIShows
<1>4. f \in Seq(Messages) /\ Len(f) = Len(ms)
  <2>1. DOMAIN f = DOMAIN ms /\ f = [k \in DOMAIN ms |-> f[k]]
    OBVIOUS
  <2> HIDE DEF f
  <2> QED BY <1>1, <1>3, <2>1, Mapped
<1>5. /\ g \in Seq(Seq(Contents)) /\ Len(g) = Len(f)
      /\ \A k \in 1..Len(f) : Within(f[k].content, Readable) = g[k]
  BY <1>1, <1>3, <1>4, ShownOfIsSeq
<1>6. CASE system
  <2> DEFINE x == Say("system", <<Text(System)>>)
  <2>1. OpenAIRequest(ms) = <<x>> \o f
    BY <1>6 DEF OpenAIRequest
  <2>2. x \in Messages /\ Within(x.content, Readable) = <<>>
    BY SystemSilent, Zenon
  <2> HIDE DEF x, f, g
  <2>3. Joined(Read(<<x>> \o f)) = Joined(g)
    BY <1>4, <1>5, <2>2, SilentFront
  <2> QED BY <2>1, <2>3, Zenon DEF g
<1>7. CASE ~system
  <2>1. OpenAIRequest(ms) = <<>> \o f
    BY <1>7 DEF OpenAIRequest
  <2>2. <<>> \o f = f
    BY <1>4, ConcatEmptySeq
  <2> HIDE DEF f, g
  <2>3. Read(f) = g
    BY <1>4, <1>5, ReadIs
  <2> QED BY <2>1, <2>2, <2>3 DEF g
<1> QED
  BY <1>6, <1>7

\* anthropic.go, toAnthropicRequest: the messages but for a summary in front.
LEMMA WithoutSummary ==
    ASSUME NEW ms, NEW hs, Talk(ms, hs)
    PROVE  /\ AnthropicMessages(ms) =
                IF ms # <<>> /\ ms[1].role = "system" THEN Tail(ms) ELSE ms
           /\ AnthropicSystem(ms) \in {<<>>, <<Text(System)>>}
<1> DEFINE S == {m \in Range(ms) : ~IsSystem(m)}
           R == {m \in Range(ms) : IsSystem(m)}
<1>1. /\ ms \in Seq(Messages) /\ Len(ms) \in Nat /\ DOMAIN ms = 1..Len(ms)
      /\ \A k \in 1..Len(ms) : k # 1 => ~IsSystem(ms[k])
  BY LenProperties DEF Talk, IsSystem
<1>2. \A k \in 1..Len(ms) : ms[k] \in Range(ms)
  BY <1>1 DEF Range
<1>3. S \cap R = {}
  OBVIOUS
<1>4. \A k \in 1..Len(ms) : (ms[k] \in S <=> ~IsSystem(ms[k])) /\ (ms[k] \in R <=> IsSystem(ms[k]))
  BY <1>2
<1> HIDE DEF S, R
<1>5. AnthropicMessages(ms) = Within(ms, S)
  BY DEF AnthropicMessages, S
<1>6. Len(Within(ms, R)) <= 1 => AnthropicSystem(ms) \in {<<>>, <<Text(System)>>}
  <2> DEFINE w == Within(ms, R)
  <2>1. ASSUME Len(w) <= 1, w \in Seq(Messages)
        PROVE  AnthropicSystem(ms) = IF system THEN <<Text(System)>> ELSE <<>>
    <3>1. ~(Len(w) > 1)
      <4>1. Len(w) \in Nat
        BY <2>1, LenProperties
      <4> QED BY <2>1, <4>1
    <3> QED BY <3>1, Zenon DEF AnthropicSystem, R
  <2>2. w \in Seq(Messages)
    BY <1>1, WithinIsPart
  <2> QED BY <2>1, <2>2
<1>7. CASE ms # <<>> /\ ms[1].role = "system"
  <2> DEFINE t == Tail(ms)
             o == <<ms[1]>>
  <2>1. /\ t \in Seq(Messages) /\ Len(t) = Len(ms) - 1 /\ Len(t) \in Nat
        /\ \A k \in 1..Len(t) : t[k] = ms[k + 1]
    BY <1>1, <1>7, HeadTailProperties, LenProperties
  <2>2. ms[1] \in Messages /\ ms[1] \notin S /\ ms[1] \in R /\ o \in Seq(Messages) /\ Len(o) = 1
    <3>1. 1 \in 1..Len(ms)
      BY <1>1, <1>7, EmptySeq
    <3>2. ms[1] \in Messages
      BY <1>1, <3>1, ElementOfSeq
    <3>3. \A x \in Messages : <<x>> \in Seq(Messages) /\ Len(<<x>>) = 1
      OBVIOUS
    <3>4. o \in Seq(Messages) /\ Len(o) = 1
      BY <3>2, <3>3, Zenon
    <3> QED BY <1>4, <1>7, <3>1, <3>2, <3>4 DEF IsSystem
  <2>3. ms = o \o t
    <3>1. Len(ms) \in Nat \ {0}
      BY <1>1, <1>7, EmptySeq
    <3>2. 1 \in 1..Len(ms) /\ Len(ms) \in 1..Len(ms)
      BY <3>1
    <3>3. SubSeq(ms, 1, Len(ms)) = <<ms[1]>> \o SubSeq(ms, 1 + 1, Len(ms))
      BY <1>1, <3>2, SubSeqRecursiveFirst
    <3>4. SubSeq(ms, 1, Len(ms)) = ms /\ Tail(ms) = SubSeq(ms, 2, Len(ms)) /\ 1 + 1 = 2
      BY <1>1, <1>7, SubSeqFull, TailIsSubSeq
    <3> QED BY <3>3, <3>4, Zenon
  <2>4. \A k \in 1..Len(t) : t[k] \in S
    <3>1. ASSUME NEW k \in 1..Len(t) PROVE t[k] \in S
      <4>1. k + 1 \in 1..Len(ms) /\ k + 1 # 1 /\ t[k] = ms[k + 1]
        BY <1>1, <2>1
      <4> QED BY <1>1, <1>4, <4>1
    <3> QED BY <3>1
  <2> HIDE DEF o, t, Messages
  <2>5. t \in Seq(S)
    BY <2>1, <2>4, InSeq
  <2>6. Within(t, S) = t /\ Within(t, R) = <<>>
    BY <1>3, <2>5, WithinAll, WithinNone
  <2>7. Within(o, S) = <<>>
    BY <2>2, WithinOne, Zenon DEF o
  <2>8. Within(ms, S) = Within(o, S) \o Within(t, S) /\ Within(ms, R) = Within(o, R) \o Within(t, R)
    BY <2>1, <2>2, <2>3, WithinConcat
  <2>9. Within(ms, S) = t
    <3>1. <<>> \o t = t
      BY <2>1, ConcatEmptySeq
    <3> QED BY <2>6, <2>7, <2>8, <3>1, Zenon
  <2>10. Within(o, R) = o
    BY <2>2, WithinOne, Zenon DEF o
  <2>11. Within(ms, R) = o
    <3>1. o \o <<>> = o
      BY <2>2, ConcatEmptySeq
    <3> QED BY <2>6, <2>8, <2>10, <3>1, Zenon
  <2>12. AnthropicSystem(ms) \in {<<>>, <<Text(System)>>}
    <3>1. Len(Within(ms, R)) <= 1
      <4>1. Len(Within(ms, R)) = 1
        BY <2>2, <2>11, Zenon
      <4> QED BY <4>1
    <3> QED BY <1>6, <3>1, Zenon
  <2>13. AnthropicMessages(ms) = Tail(ms)
    BY <1>5, <2>9, Zenon DEF t
  <2> QED BY <1>7, <2>12, <2>13, Zenon
<1>8. CASE ~(ms # <<>> /\ ms[1].role = "system")
  <2>1. \A k \in 1..Len(ms) : ms[k] \in S
    <3>1. ms = <<>> => Len(ms) = 0
      BY EmptySeq
    <3>2. 1 \in 1..Len(ms) => ~IsSystem(ms[1])
      BY <1>1, <1>8, <3>1 DEF IsSystem
    <3> QED BY <1>1, <1>4, <3>2
  <2>2. ms \in Seq(S)
    BY <1>1, <2>1, InSeq
  <2>3. Within(ms, S) = ms /\ Within(ms, R) = <<>>
    BY <1>3, <2>2, WithinAll, WithinNone
  <2>4. AnthropicSystem(ms) \in {<<>>, <<Text(System)>>}
    <3>1. Len(Within(ms, R)) <= 1
      BY <2>3, EmptySeq
    <3> QED BY <1>6, <3>1, Zenon
  <2> QED BY <1>5, <1>8, <2>3, <2>4, Zenon
<1> QED
  BY <1>7, <1>8

\* What Anthropic reads in a request is what has to be shown.
LEMMA AnthropicRequestShows ==
    ASSUME WireBounds, provider # "openai", NEW ms, NEW hs, Talk(ms, hs)
    PROVE  Joined(Read(AnthropicRequest(ms))) = Joined(ShownOf(hs))
<1> DEFINE rest == AnthropicMessages(ms)
           f == [k \in DOMAIN rest |-> toAnthropicMessage(rest[k])]
           x == Say("system", AnthropicSystem(ms))
           g == ShownOf(hs)
           n == Len(ms)
<1>1. /\ ms \in Seq(Messages) /\ n = Len(hs) /\ n \in Nat
      /\ \A k \in 1..n : Pair(ms[k], hs[k]) /\ (k # 1 => ms[k].role # "system")
  BY LenProperties DEF Talk
<1>2. x \in Messages /\ Within(x.content, Readable) = <<>>
  BY WithoutSummary, SystemSilent, Zenon
<1>3. AnthropicRequest(ms) = <<x>> \o f
  BY DEF AnthropicRequest
<1>4. g \in Seq(Seq(Contents)) /\ Len(g) = n /\ \A k \in 1..n : g[k] = ToShow(hs[k])
  BY <1>1, ShownOfIsSeq
<1>5. CASE ms # <<>> /\ ms[1].role = "system"
  <2>1. rest = Tail(ms)
    BY <1>5, WithoutSummary, Zenon
  <2>2. /\ rest \in Seq(Messages) /\ Len(rest) = n - 1 /\ n - 1 \in Nat /\ DOMAIN rest = 1..n - 1
        /\ \A k \in 1..n - 1 : rest[k] = ms[k + 1]
    BY <1>1, <1>5, <2>1, HeadTailProperties, LenProperties
  <2> HIDE DEF rest, n, x, g
  <2>3. ASSUME NEW k \in 1..n - 1
        PROVE  f[k] \in Messages /\ Within(f[k].content, Readable) = g[k + 1]
    <3>1. f[k] = toAnthropicMessage(rest[k]) /\ rest[k] = ms[k + 1] /\ k + 1 \in 1..n /\ k + 1 # 1
      BY <1>1, <2>2
    <3>2. Pair(ms[k + 1], hs[k + 1]) /\ ms[k + 1].role # "system" /\ g[k + 1] = ToShow(hs[k + 1])
      BY <1>1, <1>4, <3>1
    <3> DEFINE m == ms[k + 1]
               h == hs[k + 1]
    <3>3. Pair(m, h) /\ m.role # "system"
      BY <3>2
    <3> HIDE DEF m, h
    <3>4. toAnthropicMessage(m) \in Messages /\ Within(toAnthropicMessage(m).content, Readable) = ToShow(h)
      BY <3>3, AnthropicShows
    <3> QED BY <3>1, <3>2, <3>4, Zenon DEF m, h
  <2>4. f \in Seq(Messages) /\ Len(f) = n - 1
    <3>1. DOMAIN f = DOMAIN rest /\ f = [k \in DOMAIN rest |-> f[k]]
      OBVIOUS
    <3>2. \A k \in 1..Len(rest) : f[k] \in Messages
      BY <2>2, <2>3
    <3> HIDE DEF f
    <3> QED BY <2>2, <3>1, <3>2, Mapped
  <2> HIDE DEF f
  <2> DEFINE o == <<x>>
             y == o \o f
  <2>5. o \in Seq(Messages) /\ Len(o) = 1 /\ o[1] = x
    <3>1. \A e \in Messages : <<e>> \in Seq(Messages) /\ Len(<<e>>) = 1 /\ <<e>>[1] = e
      OBVIOUS
    <3> QED BY <1>2, <3>1, Zenon
  <2> HIDE DEF o, Messages
  <2>6. /\ y \in Seq(Messages) /\ Len(y) = 1 + (n - 1)
        /\ \A k \in 1..1 + (n - 1) : y[k] = IF k <= 1 THEN o[k] ELSE f[k - 1]
    <3>1. /\ y \in Seq(Messages) /\ Len(y) = Len(o) + Len(f)
          /\ \A k \in 1..Len(o) + Len(f) : y[k] = IF k <= Len(o) THEN o[k] ELSE f[k - Len(o)]
      BY <2>4, <2>5, ConcatProperties
    <3> HIDE DEF y
    <3> QED BY <2>4, <2>5, <3>1
  <2> HIDE DEF y
  <2>7. ASSUME NEW k \in 1..n PROVE Within(y[k].content, Readable) = g[k]
    <3>1. CASE k = 1
      <4>1. y[k] = x
        BY <2>2, <2>5, <2>6, <3>1
      <4>2. g[k] = <<>>
        <5>1. n # 0 /\ 1 \in 1..n
          BY <3>1
        <5>2. Pair(ms[1], hs[1])
          BY <1>1, <5>1
        <5>3. provider # "openai"
          OBVIOUS
        <5>4. ToShow(hs[1]) = <<>>
          BY <1>5, <5>2, <5>3, SummaryNotShown
        <5> QED BY <1>4, <3>1, <5>1, <5>4
      <4> QED BY <1>2, <4>1, <4>2
    <3>2. CASE k # 1
      <4>1. k - 1 \in 1..n - 1 /\ y[k] = f[k - 1] /\ (k - 1) + 1 = k
        BY <1>1, <2>2, <2>6, <3>2
      <4>2. Within(f[k - 1].content, Readable) = g[(k - 1) + 1]
        BY <2>3, <4>1
      <4> QED BY <4>1, <4>2
    <3> QED BY <3>1, <3>2
  <2>8. Len(y) = n
    BY <1>1, <2>6
  <2>9. Read(y) = g
    BY <1>4, <2>6, <2>7, <2>8, ReadIs
  <2>10. AnthropicRequest(ms) = y
    BY <1>3 DEF y, o
  <2> QED BY <2>9, <2>10, Zenon DEF g
<1>6. CASE ~(ms # <<>> /\ ms[1].role = "system")
  <2>1. rest = ms
    BY <1>6, WithoutSummary, Zenon
  <2>2. DOMAIN ms = 1..n
    BY <1>1, LenProperties
  <2> HIDE DEF rest, x, g, n
  <2>3. ASSUME NEW k \in 1..n
        PROVE  f[k] \in Messages /\ Within(f[k].content, Readable) = g[k]
    <3>1. f[k] = toAnthropicMessage(ms[k])
      BY <2>1, <2>2
    <3>2. ms[k].role # "system"
      <4>1. ms = <<>> => n = 0
        BY EmptySeq DEF n
      <4>2. k = 1 => ms[k].role # "system"
        BY <1>6, <4>1
      <4> QED BY <1>1, <4>2
    <3>3. Pair(ms[k], hs[k]) /\ g[k] = ToShow(hs[k])
      BY <1>1, <1>4
    <3>4. toAnthropicMessage(ms[k]) \in Messages
          /\ Within(toAnthropicMessage(ms[k]).content, Readable) = ToShow(hs[k])
      BY <3>2, <3>3, AnthropicShows
    <3> QED BY <3>1, <3>3, <3>4, Zenon
  <2>4. f \in Seq(Messages) /\ Len(f) = n
    <3>1. DOMAIN f = DOMAIN ms /\ f = [k \in DOMAIN ms |-> f[k]]
      BY <2>1
    <3>2. \A k \in 1..Len(ms) : f[k] \in Messages
      BY <2>3 DEF n
    <3> HIDE DEF f
    <3> QED BY <1>1, <3>1, <3>2, Mapped DEF n
  <2> HIDE DEF f
  <2>5. Joined(Read(<<x>> \o f)) = Joined(g)
    BY <1>2, <1>4, <2>3, <2>4, SilentFront
  <2> QED BY <1>3, <2>5, Zenon DEF g
<1> QED
  BY <1>5, <1>6

\* A request shows what has happened.
LEMMA RequestShows ==
    ASSUME WireBounds, NEW ms, NEW hs, Talk(ms, hs)
    PROVE  Joined(Read(OnTheWire(ms))) = Joined(ShownOf(hs))
<1>1. CASE provider = "openai"
  BY <1>1, OpenAIRequestShows DEF OnTheWire
<1>2. CASE provider # "openai"
  BY <1>2, AnthropicRequestShows DEF OnTheWire
<1> QED
  BY <1>1, <1>2

-----------------------------------------------------------------------------
(* The order of the answers.                                                *)

Earlier(a, b) == a[1] < b[1] \/ (a[1] = b[1] /\ a[2] < b[2])

\* Two contents of which, if both are answers, the first is to be first.
InTurn == {p \in Contents \X Contents :
             {p[1], p[2]} \subseteq Results => Earlier(p[1].id, p[2].id)}

IsAnswer(h) == h \in Seq(Results) /\ Len(h) = 1

Answers(hs) ==
    \A i, j \in 1..Len(hs) : i < j /\ IsAnswer(hs[i]) /\ IsAnswer(hs[j]) =>
      Earlier(hs[i][1].id, hs[j][1].id)

\* An answer is shown as one result with its id, anything else as no result.
LEMMA ShownKinds ==
    ASSUME WireBounds, NEW m, NEW h, Pair(m, h)
    PROVE  \/ /\ IsAnswer(h) /\ Len(ToShow(h)) = 1
              /\ ToShow(h)[1] \in Results /\ ToShow(h)[1].id = h[1].id
           \/ \A i \in 1..Len(ToShow(h)) : ToShow(h)[i] \notin Results
<1>1. CASE m.role = "tool"
  <2>1. h \in Seq(Results) /\ Len(h) = 1
    BY <1>1 DEF Pair
  <2>2. ToShow(h) = <<AsShown(h[1])>> /\ h[1] \in Results
    BY <2>1, AnswerShown
  <2>3. AsShown(h[1]) \in Results /\ AsShown(h[1]).id = h[1].id
    BY <2>2, ResultsKept
  <2>4. \A x : Len(<<x>>) = 1 /\ <<x>>[1] = x
    OBVIOUS
  <2>5. Len(ToShow(h)) = 1 /\ ToShow(h)[1] = AsShown(h[1])
    BY <2>2, <2>4, Zenon
  <2> QED BY <2>1, <2>3, <2>5 DEF IsAnswer
<1>2. CASE m.role # "tool"
  <2>1. h \in Seq(Texts \cup Calls) /\ h \in Seq(Contents)
    BY <1>2, NoAnswer
  <2>2. (Texts \cup Calls) \cap Results = {}
    BY KindsApart
  <2>3. \A x \in Texts \cup Calls : AsShown(x) = x
    BY <2>2 DEF AsShown
  <2>4. ToShow(h) = Within(h, Readable \ MayMiss)
    BY <2>1, <2>3, ShownAsIs
  <2>5. ToShow(h) \in Seq(Texts \cup Calls)
    BY <2>1, <2>4, WithinIsPart
  <2> QED BY <2>2, <2>5, ElementOfSeq
<1> QED
  BY <1>1, <1>2

\* Answers are shown in the order of what happened.
LEMMA ShownInTurn ==
    ASSUME WireBounds, NEW ms, NEW hs, Talk(ms, hs), Answers(hs)
    PROVE  Ordered(Joined(ShownOf(hs)), InTurn)
<1> DEFINE g == ShownOf(hs)
<1>1. g \in Seq(Seq(Contents)) /\ Len(g) = Len(hs) /\ \A k \in 1..Len(hs) : g[k] = ToShow(hs[k])
  BY ShownOfIsSeq
<1>2. \A k \in 1..Len(hs) : Pair(ms[k], hs[k])
  BY DEF Talk
<1> HIDE DEF g
<1>3. \A k \in 1..Len(g) :
        \/ /\ IsAnswer(hs[k]) /\ Len(g[k]) = 1 /\ g[k][1] \in Results /\ g[k][1].id = hs[k][1].id
        \/ \A i \in 1..Len(g[k]) : g[k][i] \notin Results
  BY <1>1, <1>2, ShownKinds
<1>4. \A k \in 1..Len(g) : g[k] \in Seq(Contents) /\ \A i \in 1..Len(g[k]) : g[k][i] \in Contents
  BY <1>1, ElementOfSeq
<1>5. ASSUME NEW a \in Contents, NEW b \in Contents, a \notin Results \/ b \notin Results
      PROVE  <<a, b>> \in InTurn
  BY <1>5 DEF InTurn
<1>6. ASSUME NEW k \in 1..Len(g) PROVE Ordered(g[k], InTurn)
  <2>1. ASSUME NEW i \in 1..Len(g[k]), NEW j \in 1..Len(g[k]), i < j
        PROVE  <<g[k][i], g[k][j]>> \in InTurn
    <3>1. Len(g[k]) # 1
      <4>1. ASSUME Len(g[k]) = 1 PROVE FALSE
        <5>1. i \in 1..1 /\ j \in 1..1
          BY <4>1, Zenon
        <5> QED BY <2>1, <5>1
      <4> QED BY <4>1
    <3>2. g[k][i] \notin Results /\ g[k][i] \in Contents /\ g[k][j] \in Contents
      BY <1>3, <1>4, <3>1
    <3> QED BY <1>5, <3>2, Zenon
  <2> QED BY <2>1 DEF Ordered
<1>7. ASSUME NEW k \in 1..Len(g), NEW l \in 1..Len(g), k < l,
             NEW i \in 1..Len(g[k]), NEW j \in 1..Len(g[l])
      PROVE  <<g[k][i], g[l][j]>> \in InTurn
  <2> DEFINE a == g[k][i]
             b == g[l][j]
  <2>1. a \in Contents /\ b \in Contents
    BY <1>4
  <2>2. CASE a \notin Results \/ b \notin Results
    BY <1>5, <2>1, <2>2, Zenon
  <2>3. CASE a \in Results /\ b \in Results
    <3>1. /\ IsAnswer(hs[k]) /\ Len(g[k]) = 1 /\ g[k][1].id = hs[k][1].id
          /\ IsAnswer(hs[l]) /\ Len(g[l]) = 1 /\ g[l][1].id = hs[l][1].id
      BY <1>3, <2>3
    <3>2. i = 1 /\ j = 1
      BY <3>1
    <3>3. Earlier(hs[k][1].id, hs[l][1].id)
      BY <1>1, <1>7, <3>1 DEF Answers
    <3>4. a.id = hs[k][1].id /\ b.id = hs[l][1].id
      BY <3>1, <3>2
    <3>5. Earlier(a.id, b.id)
      BY <3>3, <3>4
    <3> HIDE DEF a, b
    <3>6. <<a, b>> \in InTurn
      BY <2>1, <3>5 DEF InTurn
    <3> QED BY <3>6 DEF a, b
  <2> QED BY <2>2, <2>3
<1>8. Ordered(Joined(g), InTurn)
  BY <1>1, <1>6, <1>7, JoinedOrdered
<1> QED
  BY <1>8 DEF g

-----------------------------------------------------------------------------
(* The messages get more, and fewer.                                        *)

\* A message more and what it says, unless it is a system message.
LEMMA TalkMore ==
    ASSUME NEW ms, NEW hs, Talk(ms, hs), NEW m, NEW h, Pair(m, h), m.role # "system"
    PROVE  Talk(Append(ms, m), Append(hs, h))
<1> DEFINE n == Len(ms)
           ns == Append(ms, m)
           gs == Append(hs, h)
<1>1. /\ ms \in Seq(Messages) /\ hs \in Seq(Seq(Contents)) /\ Len(hs) = n /\ n \in Nat
      /\ \A k \in 1..n : Pair(ms[k], hs[k]) /\ (k # 1 => ms[k].role # "system")
  BY LenProperties DEF Talk
<1>2. m \in Messages /\ h \in Seq(Contents)
  BY DEF Pair
<1> HIDE DEF n
<1>3. ns \in Seq(Messages) /\ Len(ns) = n + 1 /\ (\A k \in 1..n : ns[k] = ms[k]) /\ ns[n + 1] = m
  BY <1>1, <1>2, AppendProperties DEF n
<1>4. gs \in Seq(Seq(Contents)) /\ Len(gs) = n + 1 /\ (\A k \in 1..n : gs[k] = hs[k]) /\ gs[n + 1] = h
  <2> DEFINE V == Seq(Contents)
  <2>1. hs \in Seq(V) /\ h \in V
    BY <1>1, <1>2
  <2> HIDE DEF V
  <2> QED BY <1>1, <2>1, AppendProperties DEF V
<1> HIDE DEF ns, gs
<1>5. ASSUME NEW k \in 1..n + 1 PROVE Pair(ns[k], gs[k]) /\ (k # 1 => ns[k].role # "system")
  <2>1. CASE k = n + 1
    BY <1>3, <1>4, <2>1
  <2>2. CASE k # n + 1
    <3>1. k \in 1..n
      BY <1>1, <2>2
    <3>2. ns[k] = ms[k] /\ gs[k] = hs[k]
      BY <1>3, <1>4, <3>1
    <3> QED BY <1>1, <3>1, <3>2
  <2> QED BY <2>1, <2>2
<1>6. Talk(ns, gs)
  BY <1>3, <1>4, <1>5 DEF Talk
<1> QED
  BY <1>6 DEF ns, gs

\* What a list is when its tail is kept.
LEMMA ShortenedIs ==
    ASSUME NEW T, NEW s \in Seq(T), NEW tail \in Tails, NEW x \in T, Len(s) > tail
    PROVE  /\ Shortened(s, tail, x) \in Seq(T) /\ Len(Shortened(s, tail, x)) = tail + 1
           /\ Shortened(s, tail, x)[1] = x
           /\ \A k \in 2..tail + 1 :
                Shortened(s, tail, x)[k] = s[Len(s) - tail + (k - 1)]
<1> DEFINE n == Len(s)
           t == LastOf(s, tail)
           o == <<x>>
<1>1. n \in Nat /\ tail \in Nat /\ n > tail /\ tail > 0
  BY LenProperties DEF Tails
<1>2. /\ t \in Seq(T) /\ Len(t) = tail
      /\ \A k \in 1..tail : t[k] = s[n - tail + k]
  <2>1. n - tail + 1 \in Int /\ n \in Int /\ \A i \in n - tail + 1..n : i \in 1..Len(s)
    BY <1>1
  <2>2. \A i \in n - tail + 1..n : s[i] \in T
    BY <2>1, ElementOfSeq
  <2> DEFINE u == SubSeq(s, n - tail + 1, n)
  <2>3. /\ u \in Seq(T) /\ Len(u) = IF n - tail + 1 <= n THEN n - (n - tail + 1) + 1 ELSE 0
        /\ \A i \in 1..n - (n - tail + 1) + 1 : u[i] = s[(n - tail + 1) + i - 1]
    <3> DEFINE a == n - tail + 1
    <3>1. a \in Int /\ n \in Int /\ \A i \in a..n : s[i] \in T
      BY <2>1, <2>2
    <3> HIDE DEF a, n
    <3>2. /\ SubSeq(s, a, n) \in Seq(T) /\ Len(SubSeq(s, a, n)) = IF a <= n THEN n - a + 1 ELSE 0
          /\ \A i \in 1..n - a + 1 : SubSeq(s, a, n)[i] = s[a + i - 1]
      BY <3>1, SubSeqProperties
    <3> QED BY <3>2 DEF a
  <2>4. t = u
    BY DEF LastOf
  <2> HIDE DEF u, t, n
  <2> QED BY <1>1, <2>3, <2>4
<1>3. o \in Seq(T) /\ Len(o) = 1 /\ o[1] = x
  OBVIOUS
<1>4. Shortened(s, tail, x) = o \o t
  BY <1>1 DEF Shortened
<1> HIDE DEF o, t, n
<1> DEFINE y == o \o t
<1>5. /\ y \in Seq(T) /\ Len(y) = Len(o) + Len(t)
      /\ \A k \in 1..Len(o) + Len(t) : y[k] = IF k <= Len(o) THEN o[k] ELSE t[k - Len(o)]
  BY <1>2, <1>3, ConcatProperties
<1> HIDE DEF y
<1>6. /\ y \in Seq(T) /\ Len(y) = 1 + tail
      /\ \A k \in 1..1 + tail : y[k] = IF k <= 1 THEN o[k] ELSE t[k - 1]
  BY <1>2, <1>3, <1>5
<1>7. Len(y) = tail + 1 /\ y[1] = x /\ \A k \in 2..tail + 1 : y[k] = t[k - 1]
  BY <1>1, <1>3, <1>6
<1>8. \A k \in 2..tail + 1 : t[k - 1] = s[n - tail + (k - 1)]
  BY <1>1, <1>2
<1> QED
  BY <1>4, <1>6, <1>7, <1>8 DEF y, n

\* Messages and what happened stay pairs when both are cut (ctxmgr/manager.go).
LEMMA TalkCut ==
    ASSUME WireBounds, NEW ms, NEW hs, Talk(ms, hs), Answers(hs), NEW tail \in Tails
    PROVE  /\ Talk(Shortened(ms, tail, Say("system", <<Text(Summary)>>)),
                   Shortened(hs, tail, <<Text(Summary)>>))
           /\ Answers(Shortened(hs, tail, <<Text(Summary)>>))
           /\ \A i \in 1..Len(Shortened(hs, tail, <<Text(Summary)>>)) :
                IsAnswer(Shortened(hs, tail, <<Text(Summary)>>)[i]) =>
                  \E j \in 1..Len(hs) : Shortened(hs, tail, <<Text(Summary)>>)[i] = hs[j]
<1> DEFINE h == <<Text(Summary)>>
           m == Say("system", h)
           ns == Shortened(ms, tail, m)
           gs == Shortened(hs, tail, h)
           n == Len(ms)
           V == Seq(Contents)
<1>1. /\ ms \in Seq(Messages) /\ hs \in Seq(V) /\ Len(hs) = n /\ n \in Nat
      /\ \A k \in 1..n : Pair(ms[k], hs[k]) /\ (k # 1 => ms[k].role # "system")
  BY LenProperties DEF Talk
<1>2. CASE ~(n > tail)
  <2>1. ns = ms /\ gs = hs
    BY <1>1, <1>2 DEF Shortened
  <2> HIDE DEF ns, gs
  <2> QED BY <2>1 DEF ns, gs
<1>3. CASE n > tail
  <2>1. Text(Summary) \in Contents /\ Text(Summary) \notin Results
    BY TextsKnown, KindsApart DEF Contents
  <2>2. h \in V
    <3>1. \A x \in Contents : <<x>> \in Seq(Contents)
      OBVIOUS
    <3> QED BY <2>1, <3>1, Zenon
  <2>3. ~IsAnswer(h)
    <3>1. h[1] = Text(Summary)
      OBVIOUS
    <3> HIDE DEF h
    <3>2. ASSUME IsAnswer(h) PROVE FALSE
      <4>1. h \in Seq(Results) /\ Len(h) = 1
        BY <3>2 DEF IsAnswer
      <4>2. h[1] \in Results
        BY <4>1, ElementOfSeq
      <4> QED BY <2>1, <3>1, <4>2
    <3> QED BY <3>2
  <2>4. m \in Messages /\ m.role = "system" /\ m.content = h
    <3> HIDE DEF h
    <3> QED BY <2>2 DEF Say, Messages, Roles
  <2>5. Pair(m, h)
    <3> HIDE DEF m
    <3> QED BY <2>2, <2>4 DEF Pair
  <2> HIDE DEF h, m, V, Messages
  <2>6. /\ ns \in Seq(Messages) /\ Len(ns) = tail + 1 /\ ns[1] = m
        /\ \A k \in 2..tail + 1 : ns[k] = ms[n - tail + (k - 1)]
    BY <1>1, <1>3, <2>4, ShortenedIs
  <2>7. /\ gs \in Seq(V) /\ Len(gs) = tail + 1 /\ gs[1] = h
        /\ \A k \in 2..tail + 1 : gs[k] = hs[n - tail + (k - 1)]
    <3>1. Len(hs) > tail
      BY <1>1, <1>3
    <3>2. /\ gs \in Seq(V) /\ Len(gs) = tail + 1 /\ gs[1] = h
          /\ \A k \in 2..tail + 1 : gs[k] = hs[Len(hs) - tail + (k - 1)]
      BY <1>1, <2>2, <3>1, ShortenedIs
    <3> QED BY <1>1, <3>2
  <2> HIDE DEF ns, gs, n
  <2>8. tail \in Nat /\ tail > 0
    BY DEF Tails
  <2>9. \A k \in 2..tail + 1 : n - tail + (k - 1) \in 1..n /\ n - tail + (k - 1) # 1
    BY <1>1, <1>3, <2>8
  <2>10. ASSUME NEW k \in 1..tail + 1 PROVE Pair(ns[k], gs[k]) /\ (k # 1 => ns[k].role # "system")
    <3>1. CASE k = 1
      BY <2>5, <2>6, <2>7, <3>1
    <3>2. CASE k # 1
      <4> DEFINE p == n - tail + (k - 1)
      <4>1. k \in 2..tail + 1
        BY <2>8, <3>2
      <4>2. p \in 1..n /\ p # 1 /\ ns[k] = ms[p] /\ gs[k] = hs[p]
        BY <2>6, <2>7, <2>9, <4>1
      <4> HIDE DEF p
      <4> QED BY <1>1, <4>2
    <3> QED BY <3>1, <3>2
  <2>11. Talk(ns, gs)
    BY <2>6, <2>7, <2>10 DEF Talk, V
  <2>12. ASSUME NEW k \in 1..tail + 1, IsAnswer(gs[k])
         PROVE  k \in 2..tail + 1 /\ n - tail + (k - 1) \in 1..n /\ gs[k] = hs[n - tail + (k - 1)]
    <3>1. k # 1
      BY <2>3, <2>7, <2>12
    <3>2. k \in 2..tail + 1
      BY <2>8, <3>1
    <3> QED BY <2>7, <2>9, <3>2
  <2>13. Answers(gs)
    <3>1. ASSUME NEW i \in 1..tail + 1, NEW j \in 1..tail + 1, i < j, IsAnswer(gs[i]), IsAnswer(gs[j])
          PROVE  Earlier(gs[i][1].id, gs[j][1].id)
      <4> DEFINE p == n - tail + (i - 1)
                 q == n - tail + (j - 1)
      <4>1. p \in 1..n /\ gs[i] = hs[p] /\ q \in 1..n /\ gs[j] = hs[q]
        BY <2>12, <3>1
      <4>2. p < q
        BY <1>1, <2>8, <3>1
      <4> HIDE DEF p, q
      <4>3. Earlier(hs[p][1].id, hs[q][1].id)
        BY <1>1, <3>1, <4>1, <4>2 DEF Answers
      <4> QED BY <4>1, <4>3
    <3> QED BY <2>7, <3>1 DEF Answers
  <2>14. \A i \in 1..Len(gs) : IsAnswer(gs[i]) => \E j \in 1..Len(hs) : gs[i] = hs[j]
    BY <1>1, <2>7, <2>12
  <2> QED BY <2>11, <2>13, <2>14 DEF ns, gs, m, h
<1> QED
  BY <1>1, <1>2, <1>3

-----------------------------------------------------------------------------
(* A reply.                                                                 *)

Uttered(r) == {Text(<<r, k>>) : k \in 1..MaxBlocks} \cup {Call(<<r, k>>) : k \in 1..MaxBlocks}
                \cup {Text(Empty), Other}

\* Two pieces of which, if both are calls, the first comes first.
InRow(r) == {p \in Uttered(r) \X Uttered(r) :
               {p[1], p[2]} \subseteq Calls => Earlier(p[1].id, p[2].id)}

\* Pieces of a reply are sayable or other things; its calls carry its number.
LEMMA UtteredKinds ==
    ASSUME WireBounds, NEW r \in 1..MaxReplies
    PROVE  /\ Uttered(r) \subseteq Sayable \cup {Other}
           /\ Other \notin Texts \cup Calls
           /\ \A c \in Uttered(r) : c \in Calls => c.id[1] = r /\ \E k \in 1..MaxBlocks : c = Call(<<r, k>>)
<1>1. \A k \in 1..MaxBlocks : <<r, k>> \in Names /\ <<r, k>> \notin {Summary, System}
  BY DEF WireBounds, Names, Summary, System
<1>2. \A s, t : (Text(s) = Text(t) => s = t) /\ (Call(s).id = s) /\ Text(s) # Call(t) /\ Other # Text(s) /\ Other # Call(s)
  BY DEF Text, Call, Other
<1>3. Other \notin Texts \cup Calls
  BY <1>2 DEF Texts, Calls
<1>4. ASSUME NEW k \in 1..MaxBlocks PROVE Text(<<r, k>>) \in Sayable /\ Call(<<r, k>>) \in Sayable
  <2> DEFINE n == <<r, k>>
  <2>1. n \in Names /\ n \notin {Summary, System}
    BY <1>1
  <2> HIDE DEF n
  <2>2. Text(n) \in Sayable /\ Call(n) \in Sayable
    BY <1>2, <2>1 DEF Sayable, Texts, Calls
  <2> QED BY <2>2 DEF n
<1>5. Text(Empty) \in Sayable
  BY TextsKnown DEF Sayable
<1>6. Uttered(r) \subseteq Sayable \cup {Other}
  BY <1>4, <1>5 DEF Uttered
<1>7. ASSUME NEW c \in Uttered(r), c \in Calls PROVE c.id[1] = r /\ \E k \in 1..MaxBlocks : c = Call(<<r, k>>)
  <2>1. c # Other /\ \A s : c # Text(s)
    BY <1>2, <1>7 DEF Calls
  <2>2. PICK k \in 1..MaxBlocks : c = Call(<<r, k>>)
    BY <1>7, <2>1 DEF Uttered
  <2>3. c.id = <<r, k>>
    BY <1>2, <2>2
  <2> QED BY <2>2, <2>3
<1> QED
  BY <1>3, <1>6, <1>7

\* What a server says is a list of such pieces, with its calls in a row.
LEMMA ReplySaid ==
    ASSUME WireBounds, NEW r \in 1..MaxReplies, NEW said \in Said(r)
    PROVE  /\ said.pieces \in Seq(Uttered(r)) /\ Ordered(said.pieces, InRow(r))
           /\ said.pieces \in Pieces(r) /\ said.string \in BOOLEAN
<1>1. said.pieces \in Pieces(r) /\ said.string \in BOOLEAN
  <2>1. CASE provider = "anthropic"
    <3>1. PICK p \in Pieces(r) : said = [string |-> FALSE, pieces |-> p]
      BY <2>1 DEF Said
    <3> QED BY <3>1
  <2>2. CASE provider # "anthropic"
    BY <2>2 DEF Said
  <2> QED BY <2>1, <2>2
<1> DEFINE p == said.pieces
<1>2. PICK n \in 0..MaxBlocks : \E kinds \in [1..n -> {"text", "empty", "call", "other"}] :
         p = [k \in 1..n |-> Piece(r, k, kinds[k])]
  BY <1>1 DEF Pieces
<1>3. PICK kinds \in [1..n -> {"text", "empty", "call", "other"}] :
         p = [k \in 1..n |-> Piece(r, k, kinds[k])]
  BY <1>2
<1> HIDE DEF p
<1>4. n \in Nat /\ \A k \in 1..n : k \in 1..MaxBlocks
  BY DEF WireBounds
<1>5. ASSUME NEW k \in 1..n
      PROVE  p[k] \in Uttered(r) /\ p[k] \in {Text(<<r, k>>), Text(Empty), Call(<<r, k>>), Other}
  <2>1. p[k] = Piece(r, k, kinds[k])
    BY <1>3
  <2>2. Piece(r, k, kinds[k]) \in {Text(<<r, k>>), Text(Empty), Call(<<r, k>>), Other}
    BY DEF Piece
  <2> QED BY <1>4, <2>1, <2>2 DEF Uttered
<1>6. p \in [1..n -> Uttered(r)]
  BY <1>3, <1>5
<1>7. p \in Seq(Uttered(r))
  BY <1>4, <1>6, SeqDef
<1>8. Len(p) = n
  <2>1. Len(p) \in Nat /\ DOMAIN p = 1..Len(p) /\ DOMAIN p = 1..n
    BY <1>6, <1>7, LenProperties
  <2> QED BY <1>4, <2>1, SameLength
<1>9. ASSUME NEW i \in 1..n, NEW j \in 1..n, i < j PROVE <<p[i], p[j]>> \in InRow(r)
  <2> DEFINE a == p[i]
             b == p[j]
  <2>1. /\ a \in Uttered(r) /\ a \in {Text(<<r, i>>), Text(Empty), Call(<<r, i>>), Other}
        /\ b \in Uttered(r) /\ b \in {Text(<<r, j>>), Text(Empty), Call(<<r, j>>), Other}
    BY <1>5
  <2>2. \A s, t : (Call(s).id = s) /\ Text(s) # Call(t) /\ Other # Call(s)
    BY DEF Text, Call, Other
  <2>3. ASSUME a \in Calls, b \in Calls PROVE Earlier(a.id, b.id)
    <3>1. \A c \in Calls : c # Other /\ \A s : c # Text(s)
      BY <2>2 DEF Calls
    <3> HIDE DEF a, b
    <3>2. a = Call(<<r, i>>) /\ b = Call(<<r, j>>)
      BY <2>1, <2>3, <3>1
    <3>3. a.id = <<r, i>> /\ b.id = <<r, j>>
      BY <2>2, <3>2, Zenon
    <3> QED BY <1>9, <3>3 DEF Earlier
  <2> HIDE DEF a, b
  <2>4. <<a, b>> \in InRow(r)
    BY <2>1, <2>3 DEF InRow
  <2> QED BY <2>4 DEF a, b
<1>10. Ordered(p, InRow(r))
  BY <1>8, <1>9 DEF Ordered
<1> QED
  BY <1>1, <1>7, <1>10 DEF p

\* What the client makes of a reply, and the calls in it.
LEMMA ReplyPair ==
    ASSUME WireBounds, NEW r \in 1..MaxReplies, NEW said \in Said(r)
    PROVE  /\ Pair(toChatResponse(said), Within(said.pieces, Texts \cup Calls))
           /\ toChatResponse(said).role = "assistant"
           /\ Within(toChatResponse(said).content, Calls) \in Seq(Uttered(r) \cap Calls)
           /\ Ordered(Within(toChatResponse(said).content, Calls), InRow(r))
<1> DEFINE p == said.pieces
           h == Within(p, Texts \cup Calls)
           m == toChatResponse(said)
<1>1. p \in Seq(Uttered(r)) /\ Ordered(p, InRow(r))
  BY ReplySaid
<1>2. PICK S : /\ m.content = Within(p, S) /\ m.role = "assistant" /\ m = Say("assistant", Within(p, S))
               /\ S \subseteq Texts \cup Calls /\ S \cap Readable = (Texts \cup Calls) \cap Readable
  <2> DEFINE A == Texts \cup Calls
             B == Calls \cup (IF said.string THEN Texts ELSE Texts \ {Text(Empty)})
             S == IF provider = "openai" THEN B ELSE A
  <2>1. m = Say("assistant", Within(p, S))
    BY DEF toChatResponse, fromOpenAIMessage, fromAnthropic
  <2>2. S \subseteq A /\ S \cap Readable = A \cap Readable
    BY DEF Readable
  <2> HIDE DEF S, A, m
  <2>3. m.content = Within(p, S) /\ m.role = "assistant"
    BY <2>1 DEF Say
  <2> QED BY <2>1, <2>2, <2>3 DEF A
<1> HIDE DEF m, p
<1>3. Within(p, S) \in Seq(Uttered(r) \cap S) /\ h \in Seq(Uttered(r) \cap (Texts \cup Calls))
  BY <1>1, WithinIsSeq
<1>4. Uttered(r) \cap S \subseteq Sayable /\ Uttered(r) \cap (Texts \cup Calls) \subseteq Sayable
  BY <1>2, UtteredKinds
<1>5. Within(p, S) \in Seq(Sayable) /\ h \in Seq(Sayable)
  BY <1>3, <1>4, SeqMonotonic
<1>6. Sayable \subseteq Contents
  BY DEF Sayable, Contents
<1>7. Within(p, S) \in Seq(Contents) /\ h \in Seq(Contents)
  BY <1>5, <1>6, SeqMonotonic
<1>8. Within(Within(p, S), Readable) = Within(h, Readable)
  <2>1. Within(Within(p, S), Readable) = Within(p, S \cap Readable)
    BY <1>1, WithinWithin
  <2>2. Within(h, Readable) = Within(p, (Texts \cup Calls) \cap Readable)
    BY <1>1, WithinWithin
  <2> QED BY <1>2, <2>1, <2>2
<1> HIDE DEF h
<1>9. m \in Messages
  BY <1>2, <1>7 DEF Messages, Roles, Say
<1>10. Pair(m, h)
  BY <1>2, <1>5, <1>7, <1>8, <1>9 DEF Pair
<1>11. Within(p, S) \in Seq(Uttered(r)) /\ Ordered(Within(p, S), InRow(r))
  BY <1>1, WithinIsPart, WithinOrdered
<1>12. Within(Within(p, S), Calls) \in Seq(Uttered(r) \cap Calls)
  BY <1>11, WithinIsSeq
<1>13. Ordered(Within(Within(p, S), Calls), InRow(r))
  BY <1>11, WithinOrdered
<1> QED
  BY <1>2, <1>10, <1>12, <1>13, Zenon DEF m, h, p

-----------------------------------------------------------------------------
(* The conversation.                                                        *)

\* Two calls of which the first comes first.
Called == {p \in Calls \X Calls : Earlier(p[1].id, p[2].id)}

\* The calls that are still to be answered come behind all answers.
Unanswered ==
    /\ open \in Seq(Calls) /\ Ordered(open, Called)
    /\ \A k \in 1..Len(open) : open[k].id[1] <= replies
    /\ \A i \in 1..Len(told), k \in 1..Len(open) :
         IsAnswer(told[i]) => Earlier(told[i][1].id, open[k].id)

Happened ==
    /\ replies \in 0..MaxReplies
    /\ Talk(messages, told) /\ Answers(told)
    /\ \A i \in 1..Len(told) : IsAnswer(told[i]) => told[i][1].id[1] <= replies
    /\ pc = "wait" => replies < MaxReplies
    /\ pc = "answer" => Unanswered /\ open # <<>>

WireInv == Happened /\ ShowsWhatHappened /\ AnswersInOrder

\* The conversation begins with the prompt.
LEMMA WireInit ==
    ASSUME WireBounds, Init
    PROVE  WireInv
<1> DEFINE h == <<Text(Prompt)>>
           m == Say("user", h)
           V == Seq(Contents)
<1>1. Text(Prompt) \in Sayable /\ Text(Prompt) \in Contents /\ Text(Prompt) \notin Results
  BY TextsKnown, KindsApart DEF Sayable, Contents
<1>2. h \in Seq(Sayable) /\ h \in V /\ Len(h) = 1 /\ h[1] = Text(Prompt)
  <2>1. \A S : \A x \in S : <<x>> \in Seq(S) /\ Len(<<x>>) = 1 /\ <<x>>[1] = x
    OBVIOUS
  <2> QED BY <1>1, <2>1, Zenon
<1> HIDE DEF h
<1>3. m \in Messages /\ m.role = "user" /\ m.content = h
  BY <1>2 DEF Say, Messages, Roles
<1>4. Pair(m, h)
  <2> HIDE DEF m
  <2> QED BY <1>2, <1>3 DEF Pair
<1>5. ~IsAnswer(h)
  <2>1. ASSUME h \in Seq(Results) PROVE FALSE
    <3>1. h[1] \in Results
      <4>1. 1 \in 1..Len(h)
        BY <1>2
      <4> QED BY <2>1, <4>1, ElementOfSeq
    <3> QED BY <1>1, <1>2, <3>1
  <2> QED BY <2>1 DEF IsAnswer
<1>6. messages = <<m>> /\ told = <<h>>
  BY DEF Init, h
<1> HIDE DEF m, V
<1>7. messages \in Seq(Messages) /\ told \in Seq(V) /\ Len(messages) = 1 /\ Len(told) = 1
      /\ messages[1] = m /\ told[1] = h
  <2>1. \A S : \A x \in S : <<x>> \in Seq(S) /\ Len(<<x>>) = 1 /\ <<x>>[1] = x
    OBVIOUS
  <2> QED BY <1>2, <1>3, <1>6, <2>1, Zenon
<1>8. Talk(messages, told)
  BY <1>4, <1>7 DEF Talk, V
<1>9. Answers(told) /\ \A i \in 1..Len(told) : ~IsAnswer(told[i])
  BY <1>5, <1>7 DEF Answers
<1>10. replies \in 0..MaxReplies /\ pc = "ask" /\ wire = <<>>
  BY DEF Init, WireBounds
<1>11. Happened
  BY <1>8, <1>9, <1>10 DEF Happened
<1>12. Shown = <<>>
  <2>1. [k \in DOMAIN wire |-> Within(wire[k].content, Readable)] = <<>>
    BY <1>10
  <2> QED BY <2>1, JoinedEmpty, Zenon DEF Shown
<1>13. AnswersInOrder
  BY <1>12 DEF AnswersInOrder
<1> QED
  BY <1>10, <1>11, <1>13 DEF WireInv, ShowsWhatHappened

\* What was shown stays what it was as long as nothing is asked.
LEMMA ShownStays ==
    ASSUME ShowsWhatHappened, AnswersInOrder, UNCHANGED <<provider, wire, asked>>
    PROVE  ShowsWhatHappened' /\ AnswersInOrder'
  BY DEF ShowsWhatHappened, AnswersInOrder, Shown, ToShow, MayMiss, AsShown

\* Compaction and a request (Chat and ChatStream, before the server answers).
LEMMA WireAsk ==
    ASSUME WireBounds, WireInv, Ask
    PROVE  WireInv'
<1>1. Talk(messages', told') /\ Answers(told')
      /\ \A i \in 1..Len(told') : IsAnswer(told'[i]) => \E j \in 1..Len(told) : told'[i] = told[j]
  <2>1. CASE UNCHANGED <<messages, told>>
    BY <2>1 DEF WireInv, Happened
  <2>2. ASSUME NEW tail \in Tails,
               messages' = Shortened(messages, tail, Say("system", <<Text(Summary)>>)),
               told' = Shortened(told, tail, <<Text(Summary)>>)
        PROVE  Talk(messages', told') /\ Answers(told')
               /\ \A i \in 1..Len(told') : IsAnswer(told'[i]) => \E j \in 1..Len(told) : told'[i] = told[j]
    <3>1. Talk(messages, told) /\ Answers(told)
      BY DEF WireInv, Happened
    <3>2. /\ Talk(Shortened(messages, tail, Say("system", <<Text(Summary)>>)),
                   Shortened(told, tail, <<Text(Summary)>>))
          /\ Answers(Shortened(told, tail, <<Text(Summary)>>))
          /\ \A i \in 1..Len(Shortened(told, tail, <<Text(Summary)>>)) :
               IsAnswer(Shortened(told, tail, <<Text(Summary)>>)[i]) =>
                 \E j \in 1..Len(told) : Shortened(told, tail, <<Text(Summary)>>)[i] = told[j]
      BY <3>1, TalkCut
    <3> QED BY <2>2, <3>2, Zenon
  <2> QED BY <2>1, <2>2 DEF Ask
<1>2. /\ replies' = replies /\ replies < MaxReplies /\ replies \in 0..MaxReplies
      /\ pc' = "wait" /\ UNCHANGED <<provider, system>>
      /\ wire' = OnTheWire(messages') /\ asked' = told'
  BY DEF Ask, WireInv, Happened
<1>3. \A i \in 1..Len(told') : IsAnswer(told'[i]) => told'[i][1].id[1] <= replies
  BY <1>1 DEF WireInv, Happened
<1>4. Happened'
  BY <1>1, <1>2, <1>3 DEF Happened, Talk, Answers, IsAnswer, Pair
<1>5. Joined(Read(OnTheWire(messages'))) = Joined(ShownOf(told'))
  BY <1>1, RequestShows
<1>6. Ordered(Joined(ShownOf(told')), InTurn) /\ Joined(ShownOf(told')) \in Seq(Contents)
  BY <1>1, ShownInTurn, ShownOfIsSeq, JoinedIsSeq
<1>7. Shown' = Joined(ShownOf(told'))
  BY <1>2, <1>5 DEF Shown, Read
<1>8. ShowsWhatHappened'
  BY <1>2, <1>7 DEF ShowsWhatHappened, ShownOf, ToShow, MayMiss, AsShown
<1>9. AnswersInOrder'
  <2> DEFINE s == Joined(ShownOf(told'))
  <2>1. s \in Seq(Contents) /\ Ordered(s, InTurn) /\ DOMAIN s = 1..Len(s)
    BY <1>6, LenProperties
  <2>2. Shown' = s
    BY <1>7
  <2> HIDE DEF s
  <2>3. ASSUME NEW i \in 1..Len(s), NEW j \in 1..Len(s), i < j, {s[i], s[j]} \subseteq Results
        PROVE  Earlier(s[i].id, s[j].id)
    <3>1. <<s[i], s[j]>> \in InTurn
      BY <2>1, <2>3 DEF Ordered
    <3> DEFINE a == s[i]
               b == s[j]
    <3>2. <<a, b>> \in InTurn /\ {a, b} \subseteq Results
      BY <2>3, <3>1
    <3> HIDE DEF a, b
    <3>3. Earlier(a.id, b.id)
      BY <3>2 DEF InTurn
    <3> QED BY <3>3 DEF a, b
  <2> QED BY <2>1, <2>2, <2>3 DEF AnswersInOrder, Earlier
<1> QED
  BY <1>4, <1>8, <1>9 DEF WireInv

\* One thing more has happened.
LEMMA ToldMore ==
    ASSUME NEW T, NEW hs \in Seq(T), NEW h \in T
    PROVE  /\ Len(Append(hs, h)) = Len(hs) + 1 /\ Append(hs, h)[Len(hs) + 1] = h /\ Len(hs) \in Nat
           /\ \A i \in 1..Len(hs) : Append(hs, h)[i] = hs[i]
  BY AppendProperties, LenProperties

\* Something happens that is no answer.
LEMMA AnswersStay ==
    ASSUME NEW ms, NEW hs, Talk(ms, hs), Answers(hs), NEW h \in Seq(Contents), ~IsAnswer(h)
    PROVE  /\ Answers(Append(hs, h))
           /\ \A i \in 1..Len(Append(hs, h)) : IsAnswer(Append(hs, h)[i]) =>
                i \in 1..Len(hs) /\ Append(hs, h)[i] = hs[i]
<1> DEFINE V == Seq(Contents)
           n == Len(hs)
           gs == Append(hs, h)
<1>1. hs \in Seq(V) /\ h \in V
  BY DEF Talk
<1> HIDE DEF V
<1>2. Len(gs) = n + 1 /\ gs[n + 1] = h /\ n \in Nat /\ \A i \in 1..n : gs[i] = hs[i]
  BY <1>1, ToldMore
<1> HIDE DEF gs
<1>3. Len(hs) = n
  OBVIOUS
<1> HIDE DEF n
<1>4. \A i \in 1..n + 1 : IsAnswer(gs[i]) => i \in 1..n /\ gs[i] = hs[i]
  <2>1. ASSUME NEW i \in 1..n + 1, IsAnswer(gs[i]) PROVE i \in 1..n /\ gs[i] = hs[i]
    <3>1. i # n + 1
      BY <1>2, <2>1
    <3>2. i \in 1..n
      BY <1>2, <3>1
    <3> QED BY <1>2, <3>2
  <2> QED BY <2>1
<1>5. Answers(gs)
  BY <1>2, <1>3, <1>4 DEF Answers
<1> QED
  BY <1>2, <1>3, <1>4, <1>5 DEF gs

\* An answer comes behind all others.
LEMMA AnswersMore ==
    ASSUME NEW ms, NEW hs, Talk(ms, hs), Answers(hs), NEW h \in Seq(Contents),
           \A i \in 1..Len(hs) : IsAnswer(hs[i]) => Earlier(hs[i][1].id, h[1].id)
    PROVE  Answers(Append(hs, h))
<1> DEFINE V == Seq(Contents)
           n == Len(hs)
           gs == Append(hs, h)
<1>1. hs \in Seq(V) /\ h \in V
  BY DEF Talk
<1> HIDE DEF V
<1>2. Len(gs) = n + 1 /\ gs[n + 1] = h /\ n \in Nat /\ \A i \in 1..n : gs[i] = hs[i]
  BY <1>1, ToldMore
<1> HIDE DEF gs
<1>3. Len(hs) = n
  OBVIOUS
<1> HIDE DEF n
<1>4. ASSUME NEW i \in 1..n + 1, NEW j \in 1..n + 1, i < j, IsAnswer(gs[i]), IsAnswer(gs[j])
      PROVE  Earlier(gs[i][1].id, gs[j][1].id)
  <2>1. i \in 1..n
    BY <1>2, <1>4
  <2>2. gs[i] = hs[i]
    BY <1>2, <2>1
  <2>3. CASE j = n + 1
    <3>1. gs[j] = h
      BY <1>2, <2>3
    <3>2. Earlier(hs[i][1].id, h[1].id)
      BY <1>3, <1>4, <2>1, <2>2
    <3> QED BY <2>2, <3>1, <3>2
  <2>4. CASE j # n + 1
    <3>1. j \in 1..n
      BY <1>2, <2>4
    <3>2. gs[j] = hs[j]
      BY <1>2, <3>1
    <3>3. Earlier(hs[i][1].id, hs[j][1].id)
      BY <1>3, <1>4, <2>1, <2>2, <3>1, <3>2 DEF Answers
    <3> QED BY <2>2, <3>2, <3>3
  <2> QED BY <2>3, <2>4
<1>5. Answers(gs)
  BY <1>2, <1>4 DEF Answers
<1> QED
  BY <1>5 DEF gs

\* A reply arrives (toChatResponse).
LEMMA WireChat ==
    ASSUME WireBounds, WireInv, Chat
    PROVE  WireInv'
<1> DEFINE r == replies + 1
           n == Len(told)
<1>1. /\ replies \in 0..MaxReplies /\ replies < MaxReplies /\ Talk(messages, told) /\ Answers(told)
      /\ \A i \in 1..Len(told) : IsAnswer(told[i]) => told[i][1].id[1] <= replies
      /\ ShowsWhatHappened /\ AnswersInOrder
      /\ replies' = r /\ UNCHANGED <<provider, system, wire, asked>>
  BY DEF Chat, WireInv, Happened
<1>2. PICK said \in Said(r) :
        /\ messages' = Append(messages, toChatResponse(said))
        /\ told' = Append(told, Within(said.pieces, Texts \cup Calls))
        /\ open' = Within(toChatResponse(said).content, Calls)
        /\ pc' = IF open' = <<>> THEN "over" ELSE "answer"
  BY DEF Chat
<1> DEFINE m == toChatResponse(said)
           h == Within(said.pieces, Texts \cup Calls)
<1>3. r \in 1..MaxReplies
  BY <1>1 DEF WireBounds
<1> HIDE DEF r
<1>4. /\ Pair(m, h) /\ m.role = "assistant"
      /\ open' \in Seq(Uttered(r) \cap Calls) /\ Ordered(open', InRow(r))
  BY <1>2, <1>3, ReplyPair
<1>5. messages' = Append(messages, m) /\ told' = Append(told, h)
  BY <1>2
<1> HIDE DEF m, h
<1>6. h \in Seq(Contents) /\ ~IsAnswer(h)
  <2>1. h \in Seq(Sayable) /\ h \in Seq(Contents)
    BY <1>4 DEF Pair
  <2>2. ASSUME IsAnswer(h) PROVE FALSE
    <3>1. 1 \in 1..Len(h) /\ h \in Seq(Results)
      BY <2>2 DEF IsAnswer
    <3>2. h[1] \in Results /\ h[1] \in Sayable
      BY <2>1, <3>1, ElementOfSeq
    <3> QED BY <3>2, KindsApart DEF Sayable
  <2> QED BY <2>1, <2>2
<1>7. Talk(messages', told')
  BY <1>1, <1>4, <1>5, TalkMore
<1>8. Answers(told') /\ \A i \in 1..Len(told') : IsAnswer(told'[i]) => i \in 1..Len(told) /\ told'[i] = told[i]
  BY <1>1, <1>5, <1>6, AnswersStay
<1>9. \A i \in 1..Len(told') : IsAnswer(told'[i]) => told'[i][1].id[1] <= replies
  BY <1>1, <1>8
<1>10. \A i \in 1..Len(told') : IsAnswer(told'[i]) => told'[i][1].id \in Names
  <2>1. ASSUME NEW i \in 1..Len(told'), IsAnswer(told'[i]) PROVE told'[i][1].id \in Names
    <3>1. 1 \in 1..Len(told'[i]) /\ told'[i] \in Seq(Results)
      BY <2>1 DEF IsAnswer
    <3>2. told'[i][1] \in Results
      BY <3>1, ElementOfSeq
    <3> QED BY <3>2 DEF Results
  <2> QED BY <2>1
<1>11. \A i \in 1..Len(told') : IsAnswer(told'[i]) => told'[i][1].id[1] <= r
  <2>1. ASSUME NEW i \in 1..Len(told'), IsAnswer(told'[i]) PROVE told'[i][1].id[1] <= r
    <3> DEFINE a == told'[i][1].id[1]
    <3>1. a \in Int /\ a <= replies
      BY <1>9, <1>10, <2>1 DEF Names
    <3> HIDE DEF a
    <3>2. a <= r
      BY <1>1, <3>1 DEF r
    <3> QED BY <3>2 DEF a
  <2> QED BY <2>1
<1>12. \A k \in 1..Len(open') : open'[k] \in Calls /\ open'[k] \in Uttered(r) /\ open'[k].id[1] = r
  <2>1. \A k \in 1..Len(open') : open'[k] \in Uttered(r) \cap Calls
    BY <1>4, ElementOfSeq
  <2> QED BY <1>3, <2>1, UtteredKinds
<1>13. Unanswered'
  <2>1. open' \in Seq(Calls)
    BY <1>4, SeqMonotonic
  <2>2. ASSUME NEW i \in 1..Len(open'), NEW j \in 1..Len(open'), i < j PROVE <<open'[i], open'[j]>> \in Called
    <3> DEFINE a == open'[i]
               b == open'[j]
    <3>1. <<a, b>> \in InRow(r) /\ a \in Calls /\ b \in Calls
      BY <1>4, <1>12, <2>2 DEF Ordered
    <3> HIDE DEF a, b
    <3>2. <<a, b>> \in Called
      BY <3>1 DEF InRow, Called
    <3> QED BY <3>2 DEF a, b
  <2>3. ASSUME NEW i \in 1..Len(told'), NEW k \in 1..Len(open'), IsAnswer(told'[i])
        PROVE  Earlier(told'[i][1].id, open'[k].id)
    <3> DEFINE a == told'[i][1].id
               b == open'[k].id
    <3>1. a[1] \in Int /\ a[1] <= replies /\ b[1] = r
      BY <1>9, <1>10, <1>12, <2>3 DEF Names
    <3> HIDE DEF a, b
    <3>2. a[1] < b[1]
      BY <1>1, <3>1 DEF r
    <3>3. Earlier(a, b)
      BY <3>2 DEF Earlier
    <3> QED BY <3>3 DEF a, b
  <2>4. \A k \in 1..Len(open') : open'[k].id[1] <= replies'
    BY <1>1, <1>3, <1>12
  <2> QED BY <2>1, <2>2, <2>3, <2>4 DEF Unanswered, Ordered, IsAnswer
<1>14. pc' \in {"over", "answer"} /\ (pc' = "answer" => open' # <<>>)
  BY <1>2
<1>15. Happened'
  BY <1>1, <1>3, <1>7, <1>8, <1>11, <1>13, <1>14, WireBounds
     DEF Happened, WireBounds, Talk, Answers, IsAnswer, Pair
<1> QED
  BY <1>1, <1>15, ShownStays DEF WireInv

\* A call is answered.
LEMMA WireAnswer ==
    ASSUME WireBounds, WireInv, AnswerCall
    PROVE  WireInv'
<1>1. /\ replies \in 0..MaxReplies /\ Talk(messages, told) /\ Answers(told)
      /\ \A i \in 1..Len(told) : IsAnswer(told[i]) => told[i][1].id[1] <= replies
      /\ Unanswered /\ open # <<>> /\ ShowsWhatHappened /\ AnswersInOrder
      /\ UNCHANGED <<provider, system, replies, wire, asked>>
      /\ open' = Tail(open) /\ pc' = IF open' = <<>> THEN "ask" ELSE "answer"
  BY DEF AnswerCall, WireInv, Happened
<1>2. PICK o \in Outcomes :
        /\ messages' = Append(messages, Say("tool", <<Result(Head(open).id, o[1], o[2])>>))
        /\ told' = Append(told, <<Result(Head(open).id, o[1], o[2])>>)
  BY DEF AnswerCall
<1> DEFINE c == open[1]
           r == Result(Head(open).id, o[1], o[2])
           h == <<r>>
           m == Say("tool", h)
<1>3. /\ open \in Seq(Calls) /\ Len(open) \in Nat /\ 1 \in 1..Len(open) /\ c \in Calls /\ Head(open) = c
      /\ Tail(open) \in Seq(Calls) /\ Len(Tail(open)) = Len(open) - 1
      /\ \A k \in 1..Len(Tail(open)) : Tail(open)[k] = open[k + 1]
  <2>1. open \in Seq(Calls)
    BY <1>1 DEF Unanswered
  <2>2. Len(open) \in Nat \ {0}
    BY <1>1, <2>1, EmptySeq
  <2>3. 1 \in 1..Len(open)
    BY <2>2
  <2> QED BY <1>1, <2>1, <2>2, <2>3, HeadTailProperties, ElementOfSeq
<1>4. r \in Results /\ r.id = c.id
  <2>1. c.id \in Names
    BY <1>3 DEF Calls, Call
  <2>2. o[1] \in BOOLEAN /\ o[2] \in BOOLEAN
    <3>1. o = <<TRUE, FALSE>> \/ o = <<FALSE, TRUE>> \/ o = <<TRUE, TRUE>>
      BY DEF Outcomes
    <3>2. \A x, y \in BOOLEAN : <<x, y>>[1] \in BOOLEAN /\ <<x, y>>[2] \in BOOLEAN
      OBVIOUS
    <3> QED BY <3>1, <3>2, Zenon
  <2> HIDE DEF c
  <2> QED BY <1>3, <2>1, <2>2 DEF Result, Results
<1> HIDE DEF r, c
<1>5. h \in Seq(Results) /\ Len(h) = 1 /\ h[1] = r
  <2>1. \A x \in Results : <<x>> \in Seq(Results) /\ Len(<<x>>) = 1 /\ <<x>>[1] = x
    OBVIOUS
  <2> QED BY <1>4, <2>1, Zenon
<1>6. messages' = Append(messages, m) /\ told' = Append(told, h)
  BY <1>2 DEF r
<1> HIDE DEF h
<1>7. h \in Seq(Contents)
  <2>1. Results \subseteq Contents
    BY DEF Contents
  <2> QED BY <1>5, <2>1, SeqMonotonic
<1>8. m \in Messages /\ m.role = "tool" /\ m.content = h
  BY <1>7 DEF Say, Messages, Roles
<1> HIDE DEF m
<1>9. Pair(m, h)
  BY <1>5, <1>7, <1>8 DEF Pair
<1>10. Talk(messages', told')
  BY <1>1, <1>6, <1>8, <1>9, TalkMore
<1>11. \A i \in 1..Len(told) : IsAnswer(told[i]) => Earlier(told[i][1].id, h[1].id)
  <2>1. h[1].id = open[1].id
    BY <1>4, <1>5 DEF c
  <2> QED BY <1>1, <1>3, <2>1 DEF Unanswered
<1>12. Answers(told')
  BY <1>1, <1>6, <1>7, <1>11, AnswersMore
<1>13. /\ Len(told') = Len(told) + 1 /\ told'[Len(told) + 1] = h /\ Len(told) \in Nat
       /\ \A i \in 1..Len(told) : told'[i] = told[i]
  <2> DEFINE V == Seq(Contents)
  <2>1. told \in Seq(V) /\ h \in V
    BY <1>1, <1>7 DEF Talk
  <2> HIDE DEF V
  <2> QED BY <1>6, <2>1, ToldMore
<1>14. ASSUME NEW i \in 1..Len(told')
       PROVE  (i \in 1..Len(told) /\ told'[i] = told[i]) \/ told'[i] = h
  <2>1. CASE i = Len(told) + 1
    BY <1>13, <2>1
  <2>2. CASE i # Len(told) + 1
    <3>1. i \in 1..Len(told)
      BY <1>13, <2>2
    <3> QED BY <1>13, <3>1
  <2> QED BY <2>1, <2>2
<1>15. h[1].id = c.id
  BY <1>4, <1>5
<1>16. \A i \in 1..Len(told') : IsAnswer(told'[i]) => told'[i][1].id[1] <= replies
  <2>1. h[1].id[1] <= replies
    BY <1>1, <1>3, <1>15 DEF Unanswered, c
  <2> QED BY <1>1, <1>14, <2>1
<1>17. Unanswered'
  <2> DEFINE rest == Tail(open)
  <2>0. \A k \in 1..Len(rest) : k + 1 \in 1..Len(open) /\ rest[k] = open[k + 1]
    BY <1>3
  <2>1. ASSUME NEW i \in 1..Len(rest), NEW j \in 1..Len(rest), i < j PROVE <<rest[i], rest[j]>> \in Called
    <3>1. i + 1 < j + 1 /\ i + 1 \in 1..Len(open) /\ j + 1 \in 1..Len(open)
      BY <1>3, <2>1
    <3>2. <<open[i + 1], open[j + 1]>> \in Called
      BY <1>1, <3>1 DEF Unanswered, Ordered
    <3>3. rest[i] = open[i + 1] /\ rest[j] = open[j + 1]
      BY <2>0
    <3> QED BY <3>2, <3>3, Zenon
  <2>2. \A k \in 1..Len(rest) : rest[k].id[1] <= replies
    BY <1>1, <2>0 DEF Unanswered
  <2>3. ASSUME NEW i \in 1..Len(told'), NEW k \in 1..Len(rest), IsAnswer(told'[i])
        PROVE  Earlier(told'[i][1].id, rest[k].id)
    <3>1. CASE i \in 1..Len(told) /\ told'[i] = told[i]
      <4>1. Earlier(told[i][1].id, open[k + 1].id)
        BY <1>1, <2>0, <2>3, <3>1 DEF Unanswered
      <4> QED BY <2>0, <3>1, <4>1
    <3>2. CASE told'[i] = h
      <4> DEFINE d == open[k + 1]
      <4>1. 1 < k + 1 /\ k + 1 \in 1..Len(open)
        BY <1>3, <2>0
      <4>2. <<open[1], open[k + 1]>> \in Called
        BY <1>1, <1>3, <4>1 DEF Unanswered, Ordered
      <4>3. <<c, d>> \in Called
        BY <4>2 DEF c
      <4> HIDE DEF d
      <4>4. Earlier(c.id, d.id)
        BY <4>3 DEF Called
      <4>5. told'[i][1].id = c.id /\ rest[k] = d
        BY <1>15, <2>0, <3>2 DEF d
      <4> QED BY <4>4, <4>5
    <3> QED BY <1>14, <3>1, <3>2
  <2>4. open' = rest /\ rest \in Seq(Calls) /\ replies' = replies
    BY <1>1, <1>3
  <2> HIDE DEF rest
  <2> QED BY <2>1, <2>2, <2>3, <2>4 DEF Unanswered, Ordered, IsAnswer
<1>18. pc' \in {"ask", "answer"} /\ (pc' = "answer" => open' # <<>>)
  BY <1>1
<1>19. Happened'
  BY <1>1, <1>10, <1>12, <1>16, <1>17, <1>18 DEF Happened, Talk, Answers, IsAnswer, Pair
<1> QED
  BY <1>1, <1>19, ShownStays DEF WireInv

\* A step that at most ends the reply, and one that changes nothing.
LEMMA WireOver ==
    ASSUME WireInv, UNCHANGED <<provider, system, messages, open, replies, wire, told, asked>>,
           pc' = "over" \/ pc' = pc
    PROVE  WireInv'
<1>1. Happened'
  BY DEF WireInv, Happened, Talk, Answers, IsAnswer, Pair, Unanswered, Ordered
<1> QED
  BY <1>1, ShownStays DEF WireInv

\* No step of the conversation disturbs it.
LEMMA WireStep ==
    ASSUME WireBounds, WireInv, Next
    PROVE  WireInv'
<1>1. CASE Ask
  BY <1>1, WireAsk
<1>2. CASE ChatFails
  BY <1>2, WireOver DEF ChatFails
<1>3. CASE Chat
  BY <1>3, WireChat
<1>4. CASE AnswerCall
  BY <1>4, WireAnswer
<1> QED
  BY <1>1, <1>2, <1>3, <1>4 DEF Next

\* What Recv does to the conversation.
LEMMA RecvOverOrNot ==
    ASSUME RecvOpenAI \/ RecvAnthropic
    PROVE  /\ UNCHANGED <<provider, system, messages, open, replies, wire, told, asked>>
           /\ pc' = "over" \/ pc' = pc
<1>1. ASSUME NEW c, Return(c)
      PROVE  /\ UNCHANGED <<provider, system, messages, open, replies, wire, told, asked>>
             /\ pc' = "over" \/ pc' = pc
  BY <1>1 DEF Return
<1>2. ASSUME Loop
      PROVE  /\ UNCHANGED <<provider, system, messages, open, replies, wire, told, asked>>
             /\ pc' = "over" \/ pc' = pc
  BY <1>2 DEF Loop, vars
<1>3. ASSUME NoMoreLines
      PROVE  /\ UNCHANGED <<provider, system, messages, open, replies, wire, told, asked>>
             /\ pc' = "over" \/ pc' = pc
  BY <1>1, <1>3 DEF NoMoreLines
<1>4. CASE RecvOpenAI
  BY <1>1, <1>2, <1>3, <1>4 DEF RecvOpenAI
<1>5. CASE RecvAnthropic
  BY <1>1, <1>2, <1>3, <1>5 DEF RecvAnthropic
<1> QED
  BY <1>4, <1>5

\* Nor does any step of a stream.
LEMMA WireStreamStep ==
    ASSUME WireBounds, WireInv, StreamNext \/ UNCHANGED <<vars, streamVars>>
    PROVE  WireInv'
<1>1. CASE Next
  BY <1>1, WireStep
<1>2. CASE OpenStream
  BY <1>2, WireOver DEF OpenStream, vars
<1>3. CASE RecvOpenAI \/ RecvAnthropic
  BY <1>3, RecvOverOrNot, WireOver
<1>4. CASE UNCHANGED <<vars, streamVars>>
  BY <1>4, WireOver DEF vars
<1> QED
  BY <1>1, <1>2, <1>3, <1>4 DEF StreamNext

\* openai.go and anthropic.go, Chat and ChatStream: whatever was said, called and
\* answered, and however the conversation was cut, a request shows what has
\* happened since the cut, in its order, nothing else and nothing twice.
THEOREM RequestsAreFaithful == StreamSpec => []ShowsWhatHappened
<1>1. StreamInit => WireInv
  BY WireBounds, WireInit DEF StreamInit
<1>2. WireInv /\ [StreamNext]_<<vars, streamVars>> => WireInv'
  BY WireBounds, WireStreamStep
<1>3. WireInv => ShowsWhatHappened
  BY DEF WireInv
<1> QED
  BY <1>1, <1>2, <1>3, PTL DEF StreamSpec

\* The answers in a request carry the ids of calls that the server made, each
\* once, in the order of the calls.
THEOREM AnswersAreInOrder == StreamSpec => []AnswersInOrder
<1>1. StreamInit => WireInv
  BY WireBounds, WireInit DEF StreamInit
<1>2. WireInv /\ [StreamNext]_<<vars, streamVars>> => WireInv'
  BY WireBounds, WireStreamStep
<1>3. WireInv => AnswersInOrder
  BY DEF WireInv
<1> QED
  BY <1>1, <1>2, <1>3, PTL DEF StreamSpec

-----------------------------------------------------------------------------
(* Beginnings of lists, and lists without one element.                      *)

\* What is put in front of a list is a beginning of the whole.
LEMMA Beginning ==
    ASSUME NEW T, NEW c \in Seq(T), NEW d \in Seq(T)
    PROVE  IsPrefix(c, c \o d)
<1> DEFINE w == c \o d
<1>1. /\ w \in Seq(T) /\ Len(w) = Len(c) + Len(d)
      /\ \A i \in 1..Len(c) + Len(d) : w[i] = IF i <= Len(c) THEN c[i] ELSE d[i - Len(c)]
  BY ConcatProperties
<1>2. Len(c) \in Nat /\ Len(d) \in Nat
  BY LenProperties
<1> HIDE DEF w
<1>3. \A i \in 1..Len(c) : c[i] \in T /\ w[i] = c[i]
  BY <1>1, <1>2, ElementOfSeq
<1>4. \A i \in 1..Len(c) : w[i] \in T
  BY <1>3
<1>5. SubSeq(c, 1, Len(c)) = c
  BY SubSeqFull
<1>6. /\ SubSeq(w, 1, Len(c)) \in Seq(T)
      /\ Len(SubSeq(w, 1, Len(c))) = (IF 1 <= Len(c) THEN Len(c) - 1 + 1 ELSE 0)
      /\ \A i \in 1..Len(c) - 1 + 1 : SubSeq(w, 1, Len(c))[i] = w[1 + i - 1]
  BY <1>2, <1>4, SubSeqProperties
<1>7. SubSeq(w, 1, Len(c)) = c
  <2> DEFINE u == SubSeq(w, 1, Len(c))
  <2>1. Len(u) = Len(c) /\ \A i \in 1..Len(c) : u[i] = c[i]
    <3>1. Len(c) - 1 + 1 = Len(c) /\ \A i \in 1..Len(c) : 1 + i - 1 = i
      BY <1>2
    <3> HIDE DEF u
    <3>2. /\ Len(u) = (IF 1 <= Len(c) THEN Len(c) ELSE 0)
          /\ \A i \in 1..Len(c) : u[i] = w[1 + i - 1]
      BY <1>6, <3>1 DEF u
    <3> QED BY <1>2, <1>3, <3>1, <3>2
  <2>2. u \in Seq(T)
    BY <1>6
  <2> HIDE DEF u
  <2>3. u = c
    BY <2>1, <2>2, SeqEqual
  <2> QED BY <2>3 DEF u
<1>8. Len(c) <= Len(w)
  BY <1>1, <1>2
<1> QED
  BY <1>5, <1>7, <1>8 DEF IsPrefix, w

\* A list without one element, as the library defines it.
LEMMA Removed ==
    ASSUME NEW s, NEW i
    PROVE  RemoveAt(s, i) = SubSeq(s, 1, i - 1) \o SubSeq(s, i + 1, Len(s))
  BY DEF RemoveAt

\* less is whole without one of its elements.
ButOne(whole, less) ==
    \E k \in DOMAIN whole : less = RemoveAt(whole, k) /\ Len(less) = Len(whole) - 1

\* An element between two lists, taken out again.
LEMMA TakenOut ==
    ASSUME NEW T, NEW a \in Seq(T), NEW x \in T, NEW b \in Seq(T)
    PROVE  ButOne(a \o (<<x>> \o b), a \o b)
<1> DEFINE o == <<x>>
           ob == o \o b
           w == a \o ob
           n == Len(a)
           m == Len(b)
<1>1. n \in Nat /\ m \in Nat
  BY LenProperties
<1>2. o \in Seq(T) /\ Len(o) = 1 /\ o[1] = x
  BY OneIsSeq
<1> HIDE DEF o
<1>3. ob \in Seq(T) /\ Len(ob) = 1 + m /\ \A i \in 1..1 + m : ob[i] = IF i <= 1 THEN o[i] ELSE b[i - 1]
  <2>1. /\ o \o b \in Seq(T) /\ Len(o \o b) = Len(o) + Len(b)
        /\ \A i \in 1..Len(o) + Len(b) : (o \o b)[i] = IF i <= Len(o) THEN o[i] ELSE b[i - Len(o)]
    BY <1>2, ConcatProperties
  <2> HIDE DEF ob
  <2>2. /\ ob \in Seq(T) /\ Len(ob) = Len(o) + Len(b)
        /\ \A i \in 1..Len(o) + Len(b) : ob[i] = IF i <= Len(o) THEN o[i] ELSE b[i - Len(o)]
    BY <2>1 DEF ob
  <2> QED BY <1>2, <2>2
<1> HIDE DEF ob
<1>4. w \in Seq(T) /\ Len(w) = n + Len(ob) /\ \A i \in 1..n + Len(ob) : w[i] = IF i <= n THEN a[i] ELSE ob[i - n]
  BY <1>3, ConcatProperties
<1> HIDE DEF w, n, m
<1>5. Len(w) = n + 1 + m /\ \A i \in 1..n + 1 + m : w[i] = IF i <= n THEN a[i] ELSE ob[i - n]
  BY <1>1, <1>3, <1>4
<1>6. \A i \in 1..n : a[i] \in T /\ w[i] = a[i]
  BY <1>1, <1>5, ElementOfSeq DEF n
<1>7. \A i \in n + 2..n + 1 + m : w[i] = b[i - n - 1] /\ w[i] \in T
  <2> TAKE i \in n + 2..n + 1 + m
  <2>1. i \in 1..n + 1 + m /\ ~(i <= n) /\ i - n \in 1..1 + m /\ ~(i - n <= 1) /\ i - n - 1 \in 1..m
    BY <1>1
  <2>2. w[i] = b[i - n - 1]
    BY <1>3, <1>5, <2>1
  <2>3. b[i - n - 1] \in T
    BY <2>1, ElementOfSeq DEF m
  <2> QED BY <2>2, <2>3
<1> DEFINE u == SubSeq(w, 1, n)
           v == SubSeq(w, n + 2, n + 1 + m)
<1>8. u \in Seq(T) /\ Len(u) = n /\ \A i \in 1..n : u[i] = a[i]
  <2>1. /\ SubSeq(w, 1, n) \in Seq(T)
        /\ Len(SubSeq(w, 1, n)) = (IF 1 <= n THEN n - 1 + 1 ELSE 0)
        /\ \A i \in 1..n - 1 + 1 : SubSeq(w, 1, n)[i] = w[1 + i - 1]
    BY <1>1, <1>6, SubSeqProperties
  <2>2. n - 1 + 1 = n /\ \A i \in 1..n : 1 + i - 1 = i
    BY <1>1
  <2> HIDE DEF u
  <2>3. Len(u) = (IF 1 <= n THEN n ELSE 0) /\ \A i \in 1..n : u[i] = w[1 + i - 1]
    BY <2>1, <2>2 DEF u
  <2> QED BY <1>1, <1>6, <2>1, <2>2, <2>3 DEF u
<1>9. v \in Seq(T) /\ Len(v) = m /\ \A i \in 1..m : v[i] = b[i]
  <2> DEFINE p == n + 2
             q == n + 1 + m
  <2>1. /\ v \in Seq(T) /\ Len(v) = (IF p <= q THEN q - p + 1 ELSE 0)
        /\ \A i \in 1..q - p + 1 : v[i] = w[p + i - 1]
    <3>1. p \in Int /\ q \in Int
      BY <1>1
    <3>2. \A i \in p..q : w[i] \in T
      BY <1>7
    <3>3. v = SubSeq(w, p, q)
      OBVIOUS
    <3> HIDE DEF p, q, v
    <3>4. /\ SubSeq(w, p, q) \in Seq(T)
          /\ Len(SubSeq(w, p, q)) = (IF p <= q THEN q - p + 1 ELSE 0)
          /\ \A i \in 1..q - p + 1 : SubSeq(w, p, q)[i] = w[p + i - 1]
      BY <3>1, <3>2, SubSeqProperties
    <3> QED BY <3>3, <3>4
  <2>2. /\ n + 1 + m - (n + 2) + 1 = m
        /\ \A i \in 1..m : n + 2 + i - 1 \in n + 2..n + 1 + m /\ (n + 2 + i - 1) - n - 1 = i
    BY <1>1
  <2> HIDE DEF v
  <2>3. Len(v) = (IF n + 2 <= n + 1 + m THEN m ELSE 0) /\ \A i \in 1..m : v[i] = w[n + 2 + i - 1]
    BY <1>1, <2>1, <2>2
  <2>4. Len(v) = m
    BY <1>1, <2>3
  <2>5. \A i \in 1..m : v[i] = b[i]
    BY <1>7, <2>2, <2>3
  <2> QED BY <2>1, <2>4, <2>5 DEF v
<1> HIDE DEF u, v
<1>10. u = a /\ v = b
  BY <1>8, <1>9, SeqEqual DEF n, m
<1>11. RemoveAt(w, n + 1) = SubSeq(w, 1, (n + 1) - 1) \o SubSeq(w, n + 1 + 1, Len(w))
  BY Removed
<1>12. (n + 1) - 1 = n /\ n + 1 + 1 = n + 2 /\ Len(w) = n + 1 + m
  BY <1>1, <1>5
<1>13. RemoveAt(w, n + 1) = u \o v
  BY <1>11, <1>12 DEF u, v
<1>14. n + 1 \in 1..Len(w) /\ DOMAIN w = 1..Len(w)
  BY <1>1, <1>4, <1>5, LenProperties
<1>15. Len(a \o b) = Len(w) - 1
  <2>1. Len(a \o b) = n + m
    BY ConcatProperties DEF n, m
  <2> QED BY <1>1, <1>5, <2>1
<1>16. n + 1 \in DOMAIN w /\ a \o b = RemoveAt(w, n + 1)
  BY <1>10, <1>13, <1>14
<1> QED
  BY <1>15, <1>16 DEF ButOne, w, ob, o

-----------------------------------------------------------------------------
(* What is still to come of a reply.                                        *)

Items      == Texts \cup Calls \cup {Args(id) : id \in Names}
LineKinds  == {"event", "data", "finish", "end", "error", "comment", "garbled"}
EventNames == {"", "message_start", "content_block_start", "content_block_delta",
               "message_delta", "message_stop", "error"}
Line       == [kind: LineKinds, name: EventNames, items: Seq(Items)]

\* A line that the reply itself has not, the event of a block, and a line with
\* which the reply ends.
Strangers  == {"comment", "garbled"}
Strange(l) == l.kind \in Strangers
IsBlock(l) == l.kind = "event" /\ l.name \in {"content_block_start", "content_block_delta"}
Ends(l)    == l.kind \in {"finish", "end"} \/ l.name \in {"message_delta", "message_stop"}

\* What a line brings to a provider pr, and what all that are left bring.
Brings(pr) == [l \in Line |-> IF pr = "openai" THEN LastCall(l.items) ELSE l.items]
ToCome(pr, ls) == Joined(Each(Brings(pr), ls))

\* What lines bring is content.
LEMMA BringsItems ==
    ASSUME NEW pr
    PROVE  Makes(Brings(pr), Line, Seq(Items))
<1>1. ASSUME NEW items \in Seq(Items) PROVE LastCall(items) \in Seq(Items)
  <2>1. \A S : Within(items, S) \in Seq(Items)
    BY WithinIsPart
  <2> QED BY <2>1 DEF LastCall
<1>2. \A l \in Line : l.items \in Seq(Items)
  BY DEF Line
<1> QED
  BY <1>1, <1>2 DEF Brings, Makes

\* A line without content brings nothing.
LEMMA BringsNothing ==
    ASSUME NEW pr, NEW l \in Line, l.items = <<>>
    PROVE  Brings(pr)[l] = <<>>
<1>1. Within(<<>>, Calls) = <<>>
  BY WithinEmpty
<1>2. LastCall(<<>>) = <<>>
  BY <1>1, Zenon DEF LastCall
<1> QED
  BY <1>2 DEF Brings

\* Anthropic's lines: content stands behind the event of its block, or where a
\* line has slipped in between; of two events in a row the second is an error.
Paired(ls) ==
    /\ \A k \in 1..Len(ls) : Len(ls[k].items) <= 1
    /\ \A k \in 1..Len(ls) : k + 1 \in 1..Len(ls) =>
         /\ ls[k + 1].items # <<>> => IsBlock(ls[k]) \/ Strange(ls[k])
         /\ ls[k].kind = "event" /\ ls[k + 1].kind = "event" => ls[k + 1].name = "error"

\* The lines left of a reply that is disturbed by by, and cut off or not.
Sound(pr, by, cut, ls) ==
    /\ ls \in Seq(Line)
    /\ \A k \in 1..Len(ls) : /\ ls[k].items # <<>> => ls[k].kind = "data"
                             /\ Strange(ls[k]) => by \in Strangers
                             /\ ls[k].name = "error" => by = "error"
    /\ \A j, k \in 1..Len(ls) : /\ j <= k /\ Ends(ls[j]) => ls[k].items = <<>>
                                /\ j < k => ~(Strange(ls[j]) /\ Strange(ls[k]))
    /\ pr = "anthropic" =>
         /\ Paired(ls)
         /\ ~cut => \A k \in 1..Len(ls) : k = Len(ls) => ls[k].kind # "event"

\* Lines stay sound when the first one has been read.
LEMMA SoundTail ==
    ASSUME NEW pr, NEW by, NEW cut, NEW ls, Sound(pr, by, cut, ls), ls # <<>>
    PROVE  Sound(pr, by, cut, Tail(ls))
<1> DEFINE n == Len(ls)
           t == Tail(ls)
<1>1. /\ n \in Nat /\ n >= 1 /\ t \in Seq(Line) /\ Len(t) = n - 1
      /\ \A k \in 1..n - 1 : t[k] = ls[k + 1]
  BY FirstAndRest DEF Sound
<1>2. \A k \in 1..n - 1 : k + 1 \in 1..n
  BY <1>1
<1>3. Len(ls) = n
  OBVIOUS
<1> HIDE DEF n, t
<1>4. \A k \in 1..Len(t) : k \in 1..n - 1 /\ k + 1 \in 1..n /\ t[k] = ls[k + 1]
  BY <1>1, <1>2
<1>5. \A k \in 1..Len(t) : /\ t[k].items # <<>> => t[k].kind = "data"
                           /\ Strange(t[k]) => by \in Strangers
                           /\ t[k].name = "error" => by = "error"
  BY <1>3, <1>4 DEF Sound
<1>6. ASSUME NEW j \in 1..Len(t), NEW k \in 1..Len(t)
      PROVE  /\ j <= k /\ Ends(t[j]) => t[k].items = <<>>
             /\ j < k => ~(Strange(t[j]) /\ Strange(t[k]))
  <2>1. (j <= k <=> j + 1 <= k + 1) /\ (j < k <=> j + 1 < k + 1)
    BY <1>1, <1>4
  <2> QED BY <1>3, <1>4, <2>1 DEF Sound
<1>7. ASSUME pr = "anthropic" PROVE Paired(t)
  <2>1. Paired(ls)
    BY <1>7 DEF Sound
  <2>2. \A k \in 1..Len(t) : Len(t[k].items) <= 1
    BY <1>3, <1>4, <2>1 DEF Paired
  <2>3. ASSUME NEW k \in 1..Len(t), k + 1 \in 1..Len(t)
        PROVE  /\ t[k + 1].items # <<>> => IsBlock(t[k]) \/ Strange(t[k])
               /\ t[k].kind = "event" /\ t[k + 1].kind = "event" => t[k + 1].name = "error"
    <3> DEFINE i == k + 1
    <3>1. i \in 1..n /\ i + 1 \in 1..n /\ t[k] = ls[i] /\ t[i] = ls[i + 1]
      BY <1>4, <2>3
    <3> HIDE DEF i
    <3>2. /\ t[i].items # <<>> => IsBlock(t[k]) \/ Strange(t[k])
          /\ t[k].kind = "event" /\ t[i].kind = "event" => t[i].name = "error"
      BY <1>3, <2>1, <3>1 DEF Paired
    <3> QED BY <3>2 DEF i
  <2> QED BY <2>2, <2>3 DEF Paired
<1>8. ASSUME pr = "anthropic", ~cut, NEW k \in 1..Len(t), k = Len(t) PROVE t[k].kind # "event"
  <2>1. k + 1 = n /\ k + 1 \in 1..n /\ t[k] = ls[k + 1]
    BY <1>1, <1>4, <1>8
  <2> QED BY <1>3, <1>8, <2>1 DEF Sound
<1>9. t \in Seq(Line)
  BY <1>1
<1> HIDE DEF Strange, Ends
<1>10. Sound(pr, by, cut, t)
  BY <1>5, <1>6, <1>7, <1>8, <1>9 DEF Sound
<1> QED
  BY <1>10 DEF t

-----------------------------------------------------------------------------
(* A reply on its way.                                                      *)

Aligned(ls)  == ls # <<>> => ls[1].items = <<>>
Familiar(ls) == \A k \in 1..Len(ls) : ~Strange(ls[k])

\* The end of the reply is among the lines.
Closing(ls) == \E k \in 1..Len(ls) : Ends(ls[k])

\* After got, what is to come of the lines ls, and what is cut off behind them
\* (or an error has replaced), is all of whole ...
Exact(pr, whole, by, ls, got, rest) ==
    /\ whole = got \o (ToCome(pr, ls) \o rest)
    /\ pr = "anthropic" /\ ~Aligned(ls) => by \in Strangers /\ Familiar(ls)

\* ... or all but one.
Lossy(pr, whole, by, ls, got, rest) ==
    /\ pr = "anthropic" /\ by \in Strangers /\ Familiar(ls) /\ Aligned(ls)
    /\ ButOne(whole, got \o (ToCome(pr, ls) \o rest))

Left(pr, whole, by, cut, ls, got, rest) ==
    /\ rest \in Seq(Items)
    /\ (~cut \/ Closing(ls)) /\ by # "error" => rest = <<>>
    /\ Exact(pr, whole, by, ls, got, rest) \/ Lossy(pr, whole, by, ls, got, rest)

Flow(pr, whole, by, cut, ls, got) ==
    /\ Sound(pr, by, cut, ls)
    /\ whole \in Seq(Items) /\ got \in Seq(Items)
    /\ \E rest : Left(pr, whole, by, cut, ls, got, rest)

\* What is to come is content.
LEMMA ToComeIsSeq ==
    ASSUME NEW pr, NEW ls \in Seq(Line)
    PROVE  ToCome(pr, ls) \in Seq(Items)
  BY BringsItems, JoinedEachIsSeq DEF ToCome

\* What the first line brings comes before what the others bring.
LEMMA ToComeFirst ==
    ASSUME NEW pr, NEW ls \in Seq(Line), ls # <<>>
    PROVE  /\ ToCome(pr, ls) = Brings(pr)[ls[1]] \o ToCome(pr, Tail(ls))
           /\ ls[1] \in Line /\ Tail(ls) \in Seq(Line) /\ Brings(pr)[ls[1]] \in Seq(Items)
<1>1. ls[1] \in Line /\ Tail(ls) \in Seq(Line)
  BY FirstAndRest
<1>2. Brings(pr)[ls[1]] \in Seq(Items)
  BY <1>1, BringsItems, OneMade
<1> QED
  BY <1>1, <1>2, BringsItems, JoinedFirst DEF ToCome

\* An end among the lines behind the first is one among all of them.
LEMMA ClosingTail ==
    ASSUME NEW ls \in Seq(Line), ls # <<>>, Closing(Tail(ls))
    PROVE  Closing(ls)
<1> DEFINE n == Len(ls)
           t == Tail(ls)
<1>1. n \in Nat /\ Len(t) = n - 1 /\ \A k \in 1..n - 1 : t[k] = ls[k + 1]
  BY FirstAndRest
<1>2. PICK k \in 1..Len(t) : Ends(t[k])
  BY DEF Closing
<1>3. Len(ls) = n
  OBVIOUS
<1> HIDE DEF n, t
<1>4. k + 1 \in 1..n /\ t[k] = ls[k + 1]
  BY <1>1
<1> HIDE DEF Ends
<1> QED
  BY <1>2, <1>3, <1>4 DEF Closing

\* What the lines bring is got, and the lines u are left.
LEMMA Advance ==
    ASSUME NEW pr, NEW whole, NEW by, NEW cut, NEW ls, NEW got, NEW u, NEW y,
           Flow(pr, whole, by, cut, ls, got), Sound(pr, by, cut, u),
           y \in Seq(Items), ToCome(pr, ls) = y \o ToCome(pr, u), Closing(u) => Closing(ls),
           pr = "anthropic" => Aligned(u) \/ (by \in Strangers /\ Familiar(u)),
           pr = "anthropic" /\ Familiar(ls) /\ Aligned(ls) => Aligned(u) /\ Familiar(u)
    PROVE  Flow(pr, whole, by, cut, u, got \o y)
<1> DEFINE t == ToCome(pr, u)
           z == got \o y
<1>1. whole \in Seq(Items) /\ got \in Seq(Items)
  BY DEF Flow
<1>2. t \in Seq(Items)
  BY ToComeIsSeq DEF Sound
<1>3. PICK rest : Left(pr, whole, by, cut, ls, got, rest)
  BY DEF Flow
<1>4. rest \in Seq(Items)
  BY <1>3 DEF Left
<1>5. z \in Seq(Items)
  BY <1>1, ConcatProperties
<1>6. z \o (t \o rest) = got \o (ToCome(pr, ls) \o rest)
  <2> HIDE DEF t
  <2>1. (got \o y) \o (t \o rest) = got \o ((y \o t) \o rest)
    <3>1. y \o t \in Seq(Items) /\ t \o rest \in Seq(Items) /\ got \o y \in Seq(Items)
      BY <1>1, <1>2, <1>4, ConcatProperties
    <3>2. (y \o t) \o rest = y \o (t \o rest)
      BY <1>2, <1>4, ConcatAssociative
    <3>3. (got \o y) \o (t \o rest) = got \o (y \o (t \o rest))
      <4> DEFINE tr == t \o rest
      <4>1. tr \in Seq(Items)
        BY <3>1
      <4> HIDE DEF tr
      <4>2. (got \o y) \o tr = got \o (y \o tr)
        BY <1>1, <4>1, ConcatAssociative
      <4> QED BY <4>2 DEF tr
    <3> QED BY <3>2, <3>3
  <2>2. ToCome(pr, ls) = y \o t
    BY DEF t
  <2> QED BY <2>1, <2>2
<1> HIDE DEF z, t
<1>9. Left(pr, whole, by, cut, u, z, rest)
  <2>1. CASE Exact(pr, whole, by, ls, got, rest)
    <3>1. whole = z \o (ToCome(pr, u) \o rest)
      BY <1>6, <2>1 DEF Exact, t
    <3>2. Exact(pr, whole, by, u, z, rest)
      BY <3>1 DEF Exact
    <3> QED BY <1>3, <3>2 DEF Left
  <2>2. CASE Lossy(pr, whole, by, ls, got, rest)
    <3>1. Aligned(u) /\ Familiar(u) /\ pr = "anthropic" /\ by \in Strangers
      BY <2>2 DEF Lossy
    <3>2. ButOne(whole, z \o (ToCome(pr, u) \o rest))
      BY <1>6, <2>2 DEF Lossy, t
    <3>3. Lossy(pr, whole, by, u, z, rest)
      BY <3>1, <3>2 DEF Lossy
    <3> QED BY <1>3, <3>3 DEF Left
  <2> QED BY <1>3, <2>1, <2>2 DEF Left
<1>10. Flow(pr, whole, by, cut, u, z)
  BY <1>1, <1>5, <1>9 DEF Flow
<1> QED
  BY <1>10 DEF z

\* OpenAI: each line is looked at by itself.
LEMMA OpenAIAdvance ==
    ASSUME NEW whole, NEW by, NEW cut, NEW ls, NEW got,
           Flow("openai", whole, by, cut, ls, got), ls # <<>>
    PROVE  Flow("openai", whole, by, cut, Tail(ls), got \o LastCall(ls[1].items))
<1>1. ls \in Seq(Line)
  BY DEF Flow, Sound
<1>2. /\ ToCome("openai", ls) = Brings("openai")[ls[1]] \o ToCome("openai", Tail(ls))
      /\ ls[1] \in Line /\ Brings("openai")[ls[1]] \in Seq(Items)
  BY <1>1, ToComeFirst
<1>3. Brings("openai")[ls[1]] = LastCall(ls[1].items)
  BY <1>2 DEF Brings
<1>4. Sound("openai", by, cut, Tail(ls))
  BY SoundTail DEF Flow
<1>5. "openai" # "anthropic"
  OBVIOUS
<1>6. Closing(Tail(ls)) => Closing(ls)
  BY <1>1, ClosingTail
<1> QED
  BY <1>2, <1>3, <1>4, <1>5, <1>6, Advance

\* Anthropic: a line without content that is no event of a block. What comes
\* next is aligned, unless the line has slipped in.
LEMMA AfterIdle ==
    ASSUME NEW by, NEW cut, NEW ls, Sound("anthropic", by, cut, ls), ls # <<>>,
           ~IsBlock(ls[1])
    PROVE  /\ Aligned(Tail(ls)) \/ (by \in Strangers /\ Familiar(Tail(ls)))
           /\ Familiar(ls) => Aligned(Tail(ls)) /\ Familiar(Tail(ls))
<1> DEFINE n == Len(ls)
           t == Tail(ls)
<1>1. /\ n \in Nat /\ n >= 1 /\ t \in Seq(Line) /\ Len(t) = n - 1
      /\ \A k \in 1..n - 1 : t[k] = ls[k + 1]
  BY FirstAndRest DEF Sound
<1>2. Len(ls) = n
  OBVIOUS
<1> HIDE DEF n, t
<1>3. \A k \in 1..Len(t) : k \in 1..n - 1 /\ k + 1 \in 1..n /\ k + 1 # 1 /\ t[k] = ls[k + 1]
  BY <1>1
<1>4. Familiar(ls) => Familiar(t)
  BY <1>2, <1>3 DEF Familiar
<1>5. Aligned(t) \/ Strange(ls[1])
  <2>1. SUFFICES ASSUME t # <<>>, t[1].items # <<>> PROVE Strange(ls[1])
    BY DEF Aligned
  <2>2. 1 \in 1..Len(t) /\ 1 \in 1..n
    BY <1>1, <2>1, EmptySeq
  <2>3. 2 \in 1..n /\ 1 + 1 = 2 /\ t[1] = ls[2]
    BY <1>3, <2>2
  <2> QED BY <1>2, <2>1, <2>2, <2>3 DEF Sound, Paired
<1>6. ASSUME Strange(ls[1]) PROVE by \in Strangers /\ Familiar(t) /\ ~Familiar(ls)
  <2>1. 1 \in 1..n /\ \A k \in 1..Len(t) : 1 < k + 1
    BY <1>1, <1>3
  <2>2. by \in Strangers
    BY <1>2, <1>6, <2>1 DEF Sound
  <2>3. ASSUME NEW k \in 1..Len(t) PROVE ~Strange(t[k])
    <3> DEFINE i == k + 1
    <3>1. i \in 1..n /\ 1 < i /\ t[k] = ls[i]
      BY <1>3, <2>1
    <3> HIDE DEF i
    <3> QED BY <1>2, <1>6, <2>1, <3>1 DEF Sound
  <2> QED BY <1>2, <1>6, <2>1, <2>2, <2>3 DEF Familiar
<1> QED
  BY <1>4, <1>5, <1>6 DEF t

LEMMA FamiliarTail ==
    ASSUME NEW ls \in Seq(Line), ls # <<>>, Familiar(ls)
    PROVE  Familiar(Tail(ls))
<1> DEFINE n == Len(ls)
           t == Tail(ls)
<1>1. n \in Nat /\ Len(t) = n - 1 /\ \A k \in 1..n - 1 : t[k] = ls[k + 1]
  BY FirstAndRest
<1>2. Len(ls) = n
  OBVIOUS
<1> HIDE DEF n, t
<1>3. \A k \in 1..Len(t) : k + 1 \in 1..n /\ t[k] = ls[k + 1]
  BY <1>1
<1>4. Familiar(t)
  BY <1>2, <1>3 DEF Familiar
<1> QED
  BY <1>4 DEF t

\* Anthropic: a line where an event is expected is dropped, and its content,
\* of which there is at most one piece, is lost.
LEMMA AnthropicDrop ==
    ASSUME NEW whole, NEW by, NEW cut, NEW ls, NEW got,
           Flow("anthropic", whole, by, cut, ls, got), ls # <<>>, ls[1].kind # "event"
    PROVE  Flow("anthropic", whole, by, cut, Tail(ls), got)
<1> DEFINE pr == "anthropic"
           u == Tail(ls)
           y == Brings(pr)[ls[1]]
           t == ToCome(pr, u)
<1>1. Sound(pr, by, cut, ls) /\ ls \in Seq(Line) /\ got \in Seq(Items) /\ whole \in Seq(Items)
  BY DEF Flow, Sound
<1>2. /\ ToCome(pr, ls) = y \o t /\ ls[1] \in Line /\ u \in Seq(Line) /\ y \in Seq(Items)
      /\ t \in Seq(Items)
  BY <1>1, ToComeFirst, ToComeIsSeq
<1>3. y = ls[1].items
  BY <1>2 DEF Brings
<1>4. Sound(pr, by, cut, u)
  BY <1>1, SoundTail
<1>5. /\ Aligned(u) \/ (by \in Strangers /\ Familiar(u))
      /\ Familiar(ls) => Aligned(u) /\ Familiar(u)
  BY <1>1, AfterIdle DEF IsBlock
<1>6. Flow(pr, whole, by, cut, ls, got) /\ pr = "anthropic"
  OBVIOUS
<1>9. Closing(u) => Closing(ls)
  BY <1>1, ClosingTail
<1> HIDE DEF pr, u, y, t
<1>7. CASE ls[1].items = <<>>
  <2>1. Flow(pr, whole, by, cut, u, got \o y)
    BY <1>2, <1>4, <1>5, <1>6, <1>9, Advance DEF t
  <2>2. got \o y = got
    BY <1>1, <1>3, <1>7, ConcatEmptySeq
  <2> QED BY <2>1, <2>2 DEF pr, u
<1>8. CASE ls[1].items # <<>>
  <2>1. PICK x \in Items : y = <<x>>
    <3>1. 1 \in 1..Len(ls)
      BY <1>1, FirstAndRest
    <3>2. Len(y) <= 1
      BY <1>1, <1>3, <1>6, <3>1 DEF Sound, Paired
    <3>3. y # <<>>
      BY <1>3, <1>8
    <3>4. Len(y) = 1 /\ y[1] \in Items
      <4>1. Len(y) \in Nat \ {0}
        BY <1>2, <3>3, EmptySeq
      <4>2. \A m : m \in Nat \ {0} /\ m <= 1 => m = 1
        OBVIOUS
      <4>3. Len(y) = 1
        BY <3>2, <4>1, <4>2, Zenon
      <4>4. 1 \in 1..Len(y)
        BY <4>3
      <4> QED BY <1>2, <4>3, <4>4, ElementOfSeq
    <3>5. <<y[1]>> \in Seq(Items) /\ Len(<<y[1]>>) = 1 /\ <<y[1]>>[1] = y[1]
      BY <3>4, OneIsSeq
    <3>6. y = <<y[1]>>
      <4> DEFINE o == <<y[1]>>
      <4>1. o \in Seq(Items) /\ Len(o) = 1 /\ o[1] = y[1]
        BY <3>5
      <4> HIDE DEF o
      <4>2. y = o
        BY <1>2, <3>4, <4>1, SeqEqual
      <4> QED BY <4>2 DEF o
    <3> QED BY <3>4, <3>6
  <2>2. PICK rest : Left(pr, whole, by, cut, ls, got, rest)
    BY <1>6 DEF Flow
  <2>3. ~Aligned(ls)
    BY <1>1, <1>8 DEF Aligned
  <2>4. Exact(pr, whole, by, ls, got, rest) /\ by \in Strangers /\ Familiar(ls)
    BY <1>6, <2>2, <2>3 DEF Left, Lossy, Exact
  <2>5. rest \in Seq(Items)
    BY <2>2 DEF Left
  <2> DEFINE b == t \o rest
  <2>6. b \in Seq(Items)
    BY <1>2, <2>5, ConcatProperties
  <2>7. whole = got \o (<<x>> \o b)
    <3>1. (y \o t) \o rest = y \o (t \o rest)
      BY <1>2, <2>5, ConcatAssociative
    <3>2. whole = got \o (ToCome(pr, ls) \o rest)
      BY <2>4 DEF Exact
    <3> QED BY <1>2, <2>1, <3>1, <3>2
  <2> HIDE DEF b
  <2>8. ButOne(whole, got \o b)
    <3>1. ButOne(got \o (<<x>> \o b), got \o b)
      BY <1>1, <2>6, TakenOut
    <3> QED BY <2>7, <3>1
  <2>9. Lossy(pr, whole, by, u, got, rest)
    BY <1>5, <1>6, <2>4, <2>8 DEF Lossy, b, t
  <2>10. Left(pr, whole, by, cut, u, got, rest)
    BY <1>9, <2>2, <2>9 DEF Left
  <2>11. Flow(pr, whole, by, cut, u, got)
    BY <1>1, <1>4, <2>10 DEF Flow
  <2> QED BY <2>11 DEF pr, u
<1> QED
  BY <1>7, <1>8

\* Anthropic: an event and the line behind it. What this line has is the content
\* of a block, and arrives.
LEMMA AnthropicPair ==
    ASSUME NEW whole, NEW by, NEW cut, NEW ls, NEW got,
           Flow("anthropic", whole, by, cut, ls, got), ls # <<>>, Tail(ls) # <<>>,
           ls[1].kind = "event"
    PROVE  /\ Flow("anthropic", whole, by, cut, Tail(Tail(ls)), got \o ls[2].items)
           /\ ls[2].items # <<>> => IsBlock(ls[1]) /\ ls[2].kind = "data"
           /\ ls[2].items \in Seq(Items) /\ ls[1] \in Line /\ ls[2] \in Line
<1> DEFINE pr == "anthropic"
           v == Tail(ls)
           u == Tail(v)
<1>1. Sound(pr, by, cut, ls) /\ ls \in Seq(Line) /\ pr = "anthropic" /\ v # <<>>
  BY DEF Flow, Sound
<1>2. Sound(pr, by, cut, v) /\ v \in Seq(Line)
  <2>1. Sound(pr, by, cut, v)
    BY <1>1, SoundTail
  <2> QED BY <2>1 DEF Sound
<1>3. Sound(pr, by, cut, u) /\ u \in Seq(Line)
  <2> HIDE DEF v
  <2>1. Sound(pr, by, cut, u)
    BY <1>1, <1>2, SoundTail
  <2> QED BY <2>1 DEF Sound
<1>4. /\ Len(ls) \in Nat /\ Len(v) = Len(ls) - 1 /\ Len(v) >= 1
      /\ \A k \in 1..Len(ls) - 1 : v[k] = ls[k + 1]
  BY <1>1, <1>2, FirstAndRest
<1>5. Flow(pr, whole, by, cut, ls, got)
  OBVIOUS
<1>18. Closing(u) => Closing(ls)
  <2> HIDE DEF v
  <2>1. Closing(u) => Closing(v)
    BY <1>1, <1>2, ClosingTail
  <2>2. Closing(v) => Closing(ls)
    BY <1>1, ClosingTail DEF v
  <2> QED BY <2>1, <2>2
<1> HIDE DEF v, u, pr
<1>6. 1 \in 1..Len(ls) /\ 2 \in 1..Len(ls) /\ 1 + 1 = 2 /\ v[1] = ls[2]
  <2>1. 1 \in 1..Len(ls) - 1
    BY <1>4
  <2> QED BY <1>4, <2>1
<1>7. ls[1].items = <<>> /\ ~Strange(ls[1])
  BY <1>1, <1>6 DEF Sound, Strange, Strangers
<1>8. Paired(ls)
  BY <1>1 DEF Sound
<1>9. ls[2].items # <<>> => IsBlock(ls[1]) /\ ls[2].kind = "data"
  BY <1>1, <1>6, <1>7, <1>8 DEF Sound, Paired
<1>10. ~IsBlock(v[1])
  <2>1. ls[2].kind = "event" => ls[2].name = "error"
    BY <1>6, <1>8 DEF Paired
  <2> QED BY <1>6, <2>1 DEF IsBlock
<1>11. /\ Aligned(u) \/ (by \in Strangers /\ Familiar(u))
       /\ Familiar(v) => Aligned(u) /\ Familiar(u)
  BY <1>1, <1>2, <1>10, AfterIdle DEF u
<1>12. Familiar(ls) => Familiar(v)
  BY <1>1, FamiliarTail DEF v
<1>13. /\ ToCome(pr, ls) = Brings(pr)[ls[1]] \o ToCome(pr, v) /\ ls[1] \in Line
       /\ ToCome(pr, v) = Brings(pr)[v[1]] \o ToCome(pr, u) /\ v[1] \in Line
  BY <1>1, <1>2, ToComeFirst DEF v, u
<1>14. Brings(pr)[ls[1]] = <<>> /\ Brings(pr)[v[1]] = ls[2].items
  BY <1>1, <1>6, <1>7, <1>13 DEF Brings
<1>15. ToCome(pr, ls) = ls[2].items \o ToCome(pr, u)
  <2>1. ToCome(pr, v) \in Seq(Items)
    BY <1>2, ToComeIsSeq
  <2>2. <<>> \o ToCome(pr, v) = ToCome(pr, v)
    BY <2>1, ConcatEmptySeq
  <2> QED BY <1>13, <1>14, <2>2
<1>16. ls[2].items \in Seq(Items)
  BY <1>6, <1>13 DEF Line
<1>17. Flow(pr, whole, by, cut, u, got \o ls[2].items)
  BY <1>3, <1>5, <1>11, <1>12, <1>15, <1>16, <1>18, Advance
<1> QED
  BY <1>6, <1>9, <1>13, <1>16, <1>17 DEF pr, u, v

\* Whatever is got is in order.
LEMMA FlowInOrder ==
    ASSUME NEW pr, NEW whole, NEW by, NEW cut, NEW ls, NEW got, Flow(pr, whole, by, cut, ls, got)
    PROVE  \/ IsPrefix(got, whole)
           \/ /\ pr = "anthropic" /\ by \in Strangers
              /\ \E k \in DOMAIN whole : IsPrefix(got, RemoveAt(whole, k))
<1> DEFINE t == ToCome(pr, ls)
<1>1. got \in Seq(Items) /\ t \in Seq(Items)
  BY ToComeIsSeq DEF Flow, Sound
<1>2. PICK rest : Left(pr, whole, by, cut, ls, got, rest)
  BY DEF Flow
<1> DEFINE d == t \o rest
<1>3. d \in Seq(Items)
  BY <1>1, <1>2, ConcatProperties DEF Left
<1>4. /\ Exact(pr, whole, by, ls, got, rest) => whole = got \o d
      /\ Lossy(pr, whole, by, ls, got, rest) =>
           /\ pr = "anthropic" /\ by \in Strangers
           /\ ButOne(whole, got \o d)
  BY Zenon DEF Exact, Lossy
<1> HIDE DEF d
<1>5. IsPrefix(got, got \o d)
  BY <1>1, <1>3, Beginning
<1> QED
  BY <1>2, <1>4, <1>5 DEF Left, ButOne

\* When nothing is to come any more, all has arrived, or all but one.
LEMMA FlowEnds ==
    ASSUME NEW pr, NEW whole, NEW by, NEW cut, NEW ls, NEW got, Flow(pr, whole, by, cut, ls, got),
           \A k \in 1..Len(ls) : ls[k].items = <<>>, ~cut \/ Closing(ls), by # "error"
    PROVE  /\ by = "nothing" => got = whole
           /\ Len(whole) - Len(got) <= 1
<1>1. ls \in Seq(Line) /\ got \in Seq(Items) /\ whole \in Seq(Items)
  BY DEF Flow, Sound
<1>2. ToCome(pr, ls) = <<>>
  <2>1. \A k \in 1..Len(ls) : Brings(pr)[ls[k]] = <<>>
    BY <1>1, ElementOfSeq, BringsNothing
  <2> QED BY <1>1, <2>1, BringsItems, JoinedNothing DEF ToCome
<1>3. PICK rest : Left(pr, whole, by, cut, ls, got, rest)
  BY DEF Flow
<1>4. rest = <<>>
  BY <1>3 DEF Left
<1>5. <<>> \o <<>> = <<>> /\ got \o <<>> = got
  BY <1>1, ConcatEmptySeq, EmptySeq
<1>6. got \o (ToCome(pr, ls) \o rest) = got
  BY <1>2, <1>4, <1>5, Zenon
<1>7. Len(got) \in Nat /\ Len(whole) \in Nat
  BY <1>1, LenProperties
<1>8. CASE Exact(pr, whole, by, ls, got, rest)
  BY <1>6, <1>7, <1>8 DEF Exact
<1>9. CASE Lossy(pr, whole, by, ls, got, rest)
  <2>1. by # "nothing"
    BY <1>9 DEF Lossy, Strangers
  <2>2. Len(got) = Len(whole) - 1
    BY <1>6, <1>9 DEF Lossy, ButOne
  <2> QED BY <1>7, <2>1, <2>2
<1> QED
  BY <1>3, <1>8, <1>9 DEF Left

-----------------------------------------------------------------------------
(* Recv.                                                                    *)

\* Pieces of a reply, as the server may send them.
Sayings    == [string: BOOLEAN, pieces: Seq(Texts \cup Calls \cup {Other})]
Disturbers == {"nothing", "comment", "garbled", "error"}
Streams    == [open: BOOLEAN, said: Sayings, together: BOOLEAN, by: Disturbers,
               end: {"whole", "cut", "long"}]
ChunkSet   == [items: Seq(Items), done: BOOLEAN, error: {"", "read", "nil", "server"}]
ItemsOf    == [c \in ChunkSet |-> c.items]

PromisedOf(pr, said, together) ==
    LET spoken == Spoken(said)
        all == IF pr = "openai" /\ together /\ spoken # <<>>
               THEN Within(spoken, Texts \cup {Last(spoken)}) ELSE spoken
    IN  Joined([k \in DOMAIN all |-> Whole(all[k])])

\* What is promised depends on the reply, not on what was read of it.
LEMMA PromisedIs == Promised = PromisedOf(provider, stream.said, stream.together)
  BY DEF Promised, PromisedOf

\* A chunk more.
LEMMA ChunkMore ==
    ASSUME chunks \in Seq(ChunkSet), NEW c \in ChunkSet, chunks' = Append(chunks, c)
    PROVE  /\ chunks' \in Seq(ChunkSet) /\ chunks' # <<>> /\ Last(chunks') = c
           /\ Collected' = Collected \o c.items
           /\ Collected \in Seq(Items)
<1>1. Makes(ItemsOf, ChunkSet, Seq(Items))
  BY DEF Makes, ItemsOf, ChunkSet
<1>2. \A s : s \in Seq(ChunkSet) => Each(ItemsOf, s) = [k \in DOMAIN s |-> s[k].items]
  <2>1. ASSUME NEW s \in Seq(ChunkSet) PROVE Each(ItemsOf, s) = [k \in DOMAIN s |-> s[k].items]
    <3>1. DOMAIN s = 1..Len(s) /\ \A k \in 1..Len(s) : s[k] \in ChunkSet
      BY LenProperties, ElementOfSeq
    <3> QED BY <3>1 DEF Each, ItemsOf
  <2> QED BY <2>1
<1> DEFINE d == Append(chunks, c)
<1>3. d \in Seq(ChunkSet) /\ d # <<>> /\ Len(d) = Len(chunks) + 1 /\ d[Len(chunks) + 1] = c
  BY AppendProperties
<1>4. Collected = Joined(Each(ItemsOf, chunks)) /\ Collected' = Joined(Each(ItemsOf, chunks'))
  <2>1. Each(ItemsOf, chunks) = [k \in DOMAIN chunks |-> chunks[k].items]
    BY <1>2
  <2>2. Each(ItemsOf, chunks') = [k \in DOMAIN chunks' |-> chunks'[k].items]
    BY <1>2, <1>3
  <2> QED BY <2>1, <2>2, Zenon DEF Collected
<1>5. Each(ItemsOf, d) = Append(Each(ItemsOf, chunks), ItemsOf[c])
  BY <1>1, EachAppend
<1>6. Each(ItemsOf, chunks) \in Seq(Seq(Items)) /\ c.items \in Seq(Items) /\ ItemsOf[c] = c.items
  <2>1. Each(ItemsOf, chunks) \in Seq(Seq(Items))
    BY <1>1, EachIsSeq
  <2> QED BY <2>1 DEF ItemsOf, ChunkSet
<1>7. Joined(Append(Each(ItemsOf, chunks), c.items)) = Joined(Each(ItemsOf, chunks)) \o c.items
  BY <1>6, JoinedAppend
<1>8. Collected \in Seq(Items)
  BY <1>4, <1>6, JoinedIsSeq
<1> HIDE DEF d
<1>9. chunks' = d
  BY DEF d
<1>10. Collected' = Collected \o c.items
  BY <1>4, <1>5, <1>6, <1>7, <1>9, Zenon
<1>11. Last(chunks') = c
  BY <1>3, <1>9 DEF Last
<1> QED
  BY <1>3, <1>8, <1>9, <1>10, <1>11

\* Recv may not get to see all lines.
Short == stream.end # "whole"

Coming(ls, got) == Flow(provider, Promised, stream.by, Short, ls, got)

StreamShape ==
    /\ provider \in {"openai", "anthropic"}
    /\ stream \in Streams /\ chunks \in Seq(ChunkSet)

StreamInv ==
    /\ StreamShape
    /\ stream.open => Coming(lines, Collected)
    /\ ~stream.open => WholeReplyArrives /\ (chunks # <<>> => pc = "over")
    /\ ChunksInOrder

\* What is coming is in order.
LEMMA ComingInOrder ==
    ASSUME NEW ls, Coming(ls, Collected)
    PROVE  ChunksInOrder
<1>1. \/ IsPrefix(Collected, Promised)
      \/ /\ provider = "anthropic" /\ stream.by \in Strangers
         /\ \E k \in DOMAIN Promised : IsPrefix(Collected, RemoveAt(Promised, k))
  BY FlowInOrder DEF Coming
<1> QED
  BY <1>1 DEF ChunksInOrder, Strangers

\* Recv goes on, or returns with a reply that is not over.
LEMMA GoesOn ==
    ASSUME StreamShape, stream.open, UNCHANGED <<provider, stream>>,
           chunks' \in Seq(ChunkSet), Flow(provider, Promised, stream.by, Short, lines', Collected')
    PROVE  StreamInv'
<1>1. Promised' = Promised
  BY PromisedIs DEF Promised
<1>2. Coming(lines, Collected)'
  BY <1>1 DEF Coming, Short
<1>3. ChunksInOrder'
  <2>1. \/ IsPrefix(Collected', Promised)
        \/ /\ provider = "anthropic" /\ stream.by \in Strangers
           /\ \E k \in DOMAIN Promised : IsPrefix(Collected', RemoveAt(Promised, k))
    BY FlowInOrder
  <2> QED BY <1>1, <2>1 DEF ChunksInOrder, Strangers
<1>4. StreamShape' /\ stream'.open
  BY DEF StreamShape
<1> QED
  BY <1>2, <1>3, <1>4 DEF StreamInv

\* Recv returns for the last time, without content. Unless it fails, or the
\* connection was cut off, or the server has failed, this is the reply's end.
LEMMA ReplyEnds ==
    ASSUME StreamInv, stream.open, NEW ls, Coming(ls, Collected),
           NEW c \in ChunkSet, c.items = <<>>, c.done \/ c.error # "", Return(c),
           c.error = "read" => stream.end # "whole",
           c.error = "nil" => stream.end = "cut",
           stream.end # "cut" /\ c.error # "read" /\ stream.by # "error" =>
             /\ c.done /\ \A k \in 1..Len(ls) : ls[k].items = <<>>
             /\ ~Short \/ Closing(ls)
    PROVE  StreamInv'
<1>1. /\ chunks' = Append(chunks, c) /\ stream' = [stream EXCEPT !.open = FALSE] /\ pc' = "over"
      /\ provider' = provider
  BY DEF Return
<1>2. /\ stream' \in Streams /\ ~stream'.open
      /\ stream'.said = stream.said /\ stream'.together = stream.together
      /\ stream'.by = stream.by /\ stream'.end = stream.end
  BY <1>1 DEF StreamInv, StreamShape, Streams
<1>3. /\ chunks' \in Seq(ChunkSet) /\ chunks' # <<>> /\ Last(chunks') = c
      /\ Collected' = Collected \o c.items /\ Collected \in Seq(Items)
  BY <1>1, ChunkMore DEF StreamInv, StreamShape
<1>4. Collected' = Collected
  BY <1>3, ConcatEmptySeq
<1>5. Promised' = Promised
  <2>1. Promised' = PromisedOf(provider', stream'.said, stream'.together)
    BY DEF Promised, PromisedOf
  <2> QED BY <1>1, <1>2, <2>1, PromisedIs
<1>6. stream.end # "cut" /\ c.error # "read" /\ stream.by # "error" =>
        /\ c.done
        /\ stream.by = "nothing" => Collected = Promised
        /\ Len(Promised) - Len(Collected) <= 1
  <2>1. SUFFICES ASSUME stream.end # "cut", c.error # "read", stream.by # "error"
                 PROVE  /\ c.done
                        /\ stream.by = "nothing" => Collected = Promised
                        /\ Len(Promised) - Len(Collected) <= 1
    OBVIOUS
  <2> DEFINE b == stream.by
             k == Short
  <2>2. Flow(provider, Promised, b, k, ls, Collected)
    BY DEF Coming
  <2>3. \A i \in 1..Len(ls) : ls[i].items = <<>>
    BY <2>1
  <2>4. b # "error" /\ (~k \/ Closing(ls))
    BY <2>1
  <2> HIDE DEF b, k
  <2>5. /\ b = "nothing" => Collected = Promised
        /\ Len(Promised) - Len(Collected) <= 1
    BY <2>2, <2>3, <2>4, FlowEnds
  <2> QED BY <2>1, <2>5 DEF b
<1>7. WholeReplyArrives'
  BY <1>2, <1>3, <1>4, <1>5, <1>6 DEF WholeReplyArrives
<1>8. ChunksInOrder'
  BY <1>1, <1>2, <1>4, <1>5, ComingInOrder DEF ChunksInOrder
<1>9. StreamShape'
  BY <1>1, <1>2, <1>3 DEF StreamInv, StreamShape
<1> QED
  BY <1>1, <1>2, <1>7, <1>8, <1>9 DEF StreamInv

\* A chunk that leaves the reply open.
LEMMA ChunkReturned ==
    ASSUME StreamInv, stream.open, NEW c \in ChunkSet, ~c.done, c.error = "", Return(c),
           Coming(lines', Collected \o c.items)
    PROVE  StreamInv'
<1>1. chunks' = Append(chunks, c) /\ UNCHANGED <<provider, stream>>
  BY DEF Return
<1>2. chunks' \in Seq(ChunkSet) /\ Collected' = Collected \o c.items
  BY <1>1, ChunkMore DEF StreamInv, StreamShape
<1> QED
  BY <1>1, <1>2, GoesOn DEF StreamInv, Coming

\* A line of which nothing is returned.
LEMMA LinePassed ==
    ASSUME StreamInv, stream.open, Loop, Coming(lines', Collected)
    PROVE  StreamInv'
<1>1. UNCHANGED <<provider, stream, chunks>>
  BY DEF Loop, vars
<1>2. Collected' = Collected
  BY <1>1 DEF Collected
<1> QED
  BY <1>1, <1>2, GoesOn DEF StreamInv, StreamShape, Coming

\* A chunk and its parts.
LEMMA ChunkKinds ==
    ASSUME NEW items \in Seq(Items), NEW done \in BOOLEAN, NEW error \in {"", "read", "nil", "server"}
    PROVE  /\ Chunk(items, done, error) \in ChunkSet /\ Chunk(items, done, error).items = items
           /\ Chunk(items, done, error).done = done /\ Chunk(items, done, error).error = error
  BY DEF Chunk, ChunkSet

\* Recv finds no line: the reply is done, or its connection was cut off.
LEMMA LinesOut ==
    ASSUME StreamInv, stream.open, lines = <<>>, NoMoreLines
    PROVE  StreamInv'
<1>1. Coming(lines, Collected)
  BY DEF StreamInv
<1>2. <<>> \in Seq(Items)
  BY EmptySeq
<1>3. \A k \in 1..Len(lines) : lines[k].items = <<>>
  <2>1. Len(lines) = 0
    BY EmptySeq
  <2> QED BY <2>1
<1>4. CASE stream.end # "long" /\ Return(Chunk(<<>>, TRUE, ""))
  <2> DEFINE c == Chunk(<<>>, TRUE, "")
  <2>1. c \in ChunkSet /\ c.items = <<>> /\ c.done /\ c.error = ""
    BY <1>2, ChunkKinds
  <2>2. Return(c)
    BY <1>4
  <2>3. stream.end # "cut" => ~Short
    BY <1>4 DEF Short, StreamInv, StreamShape, Streams
  <2> HIDE DEF c
  <2> QED BY <1>1, <1>3, <2>1, <2>2, <2>3, ReplyEnds
<1>5. CASE stream.end # "whole" /\ Return(Chunk(<<>>, FALSE, "read"))
  <2> DEFINE c == Chunk(<<>>, FALSE, "read")
  <2>1. c \in ChunkSet /\ c.items = <<>> /\ c.error = "read"
    BY <1>2, ChunkKinds
  <2>2. Return(c) /\ stream.end # "whole"
    BY <1>5
  <2> HIDE DEF c
  <2> QED BY <1>1, <1>3, <2>1, <2>2, ReplyEnds
<1> QED
  BY <1>4, <1>5 DEF NoMoreLines

\* What is known of the lines of a stream that is open.
LEMMA LinesOpen ==
    ASSUME StreamInv, stream.open, lines # <<>>
    PROVE  /\ Coming(lines, Collected) /\ Sound(provider, stream.by, Short, lines)
           /\ lines \in Seq(Line) /\ Collected \in Seq(Items)
           /\ Head(lines) = lines[1] /\ lines[1] \in Line /\ 1 \in 1..Len(lines)
           /\ lines[1].items # <<>> => lines[1].kind = "data"
           /\ Ends(lines[1]) => Closing(lines) /\ \A k \in 1..Len(lines) : lines[k].items = <<>>
<1>1. Coming(lines, Collected)
  BY DEF StreamInv
<1>2. Sound(provider, stream.by, Short, lines) /\ lines \in Seq(Line) /\ Collected \in Seq(Items)
  BY <1>1 DEF Coming, Flow, Sound
<1>3. lines[1] \in Line /\ 1 \in 1..Len(lines) /\ Len(lines) \in Nat
  BY <1>2, FirstAndRest
<1>4. Head(lines) = lines[1]
  BY <1>2
<1>5. lines[1].items # <<>> => lines[1].kind = "data"
  BY <1>2, <1>3 DEF Sound
<1>6. Ends(lines[1]) => Closing(lines) /\ \A k \in 1..Len(lines) : lines[k].items = <<>>
  <2>1. \A k \in 1..Len(lines) : 1 <= k
    BY <1>3
  <2>2. Ends(lines[1]) => Closing(lines)
    BY <1>3 DEF Closing
  <2> QED BY <1>2, <1>3, <2>1, <2>2 DEF Sound
<1> QED
  BY <1>1, <1>2, <1>3, <1>4, <1>5, <1>6

\* One iteration of openai.go, Recv.
LEMMA RecvOpenAIKeeps ==
    ASSUME StreamInv, RecvOpenAI
    PROVE  StreamInv'
<1>1. stream.open /\ provider = "openai"
  BY DEF RecvOpenAI
<1>2. CASE lines = <<>>
  BY <1>1, <1>2, LinesOut DEF RecvOpenAI
<1>3. CASE lines # <<>>
  <2> DEFINE l == lines[1]
             y == LastCall(l.items)
  <2>1. /\ Coming(lines, Collected) /\ lines \in Seq(Line) /\ Collected \in Seq(Items)
        /\ Head(lines) = l /\ l \in Line
        /\ l.items # <<>> => l.kind = "data"
        /\ Ends(l) => Closing(lines) /\ \A k \in 1..Len(lines) : lines[k].items = <<>>
    BY <1>1, <1>3, LinesOpen
  <2>2. Coming(Tail(lines), Collected \o y)
    <3>1. Flow("openai", Promised, stream.by, Short, lines, Collected)
      BY <1>1, <2>1 DEF Coming
    <3> QED BY <1>1, <1>3, <3>1, OpenAIAdvance DEF Coming
  <2>3. y \in Seq(Items)
    <3>1. Brings("openai")[l] = y /\ Brings("openai")[l] \in Seq(Items)
      BY <2>1, BringsItems, OneMade DEF Brings
    <3> QED BY <3>1
  <2>4. l.kind # "data" => y = <<>>
    <3>1. l.kind # "data" => Brings("openai")[l] = <<>>
      BY <2>1, BringsNothing
    <3> QED BY <2>1, <3>1 DEF Brings
  <2>5. Collected \o <<>> = Collected
    BY <2>1, ConcatEmptySeq
  <2>6. <<>> \in Seq(Items)
    BY EmptySeq
  <2> HIDE DEF y, l
  <2>7. lines' = Tail(lines)
    BY <1>3, <2>1 DEF RecvOpenAI
  <2>8. CASE l.kind \in {"finish", "end"}
    <3> DEFINE c == Chunk(<<>>, TRUE, "")
    <3>1. c \in ChunkSet /\ c.items = <<>> /\ c.done /\ c.error = ""
      BY <2>6, ChunkKinds
    <3>2. Return(c)
      BY <1>3, <2>1, <2>8 DEF RecvOpenAI
    <3>3. Closing(lines) /\ \A k \in 1..Len(lines) : lines[k].items = <<>>
      BY <2>1, <2>8 DEF Ends
    <3> HIDE DEF c
    <3> QED BY <1>1, <2>1, <3>1, <3>2, <3>3, ReplyEnds
  <2>9. CASE l.kind = "data"
    <3> DEFINE c == Chunk(y, FALSE, "")
    <3>1. c \in ChunkSet /\ c.items = y /\ ~c.done /\ c.error = ""
      BY <2>3, ChunkKinds
    <3>2. Return(c)
      BY <1>3, <2>1, <2>9 DEF RecvOpenAI, y
    <3> HIDE DEF c
    <3>3. Coming(lines', Collected \o c.items)
      BY <2>2, <2>7, <3>1
    <3> QED BY <1>1, <3>1, <3>2, <3>3, ChunkReturned
  <2>10. CASE l.kind = "error"
    <3> DEFINE c == Chunk(<<>>, FALSE, "")
    <3>1. c \in ChunkSet /\ c.items = <<>> /\ ~c.done /\ c.error = ""
      BY <2>6, ChunkKinds
    <3>2. Return(c)
      BY <1>3, <2>1, <2>10 DEF RecvOpenAI
    <3> HIDE DEF c
    <3>3. Coming(lines', Collected \o c.items)
      BY <2>2, <2>4, <2>7, <2>10, <3>1
    <3> QED BY <1>1, <3>1, <3>2, <3>3, ChunkReturned
  <2>11. CASE l.kind \notin {"finish", "end", "data", "error"}
    <3>1. Loop
      BY <1>3, <2>1, <2>11 DEF RecvOpenAI
    <3>2. Coming(lines', Collected)
      BY <2>2, <2>4, <2>5, <2>7, <2>11
    <3> QED BY <1>1, <3>1, <3>2, LinePassed
  <2> QED BY <2>8, <2>9, <2>10, <2>11
<1> QED
  BY <1>2, <1>3

\* What the data of an event makes of it: content, nothing, or an end.
LEMMA ChunkOfIs ==
    ASSUME NEW event \in Line, event.kind = "event", NEW data \in Line,
           data.items # <<>> => IsBlock(event) /\ data.kind = "data"
    PROVE  \/ /\ ChunkOf(event.name, data) = <<>> /\ data.items = <<>>
           \/ ChunkOf(event.name, data) = <<Chunk(data.items, FALSE, "")>>
           \/ /\ ChunkOf(event.name, data) = <<Chunk(<<>>, TRUE, "")>>
              /\ Ends(event)
           \/ /\ ChunkOf(event.name, data) = <<Chunk(<<>>, TRUE, "server")>>
              /\ event.name = "error"
<1>1. CASE event.name \in {"content_block_start", "content_block_delta"} /\ data.items # <<>>
  BY <1>1 DEF ChunkOf
<1>2. CASE event.name \in {"content_block_start", "content_block_delta"} /\ data.items = <<>>
  BY <1>2 DEF ChunkOf
<1>3. CASE event.name \notin {"content_block_start", "content_block_delta"}
  <2>1. data.items = <<>>
    BY <1>3 DEF IsBlock
  <2>2. CASE event.name = "message_start" /\ data.kind # "garbled"
    BY <2>1, <2>2 DEF ChunkOf
  <2>3. CASE event.name \in {"message_delta", "message_stop"}
    BY <2>1, <2>3 DEF ChunkOf, Ends
  <2>4. CASE event.name = "error"
    BY <2>1, <2>4 DEF ChunkOf
  <2>5. CASE /\ ~(event.name = "message_start" /\ data.kind # "garbled")
             /\ event.name \notin {"message_delta", "message_stop", "error"}
    BY <1>3, <2>1, <2>5 DEF ChunkOf
  <2> QED BY <2>2, <2>3, <2>4, <2>5
<1> QED
  BY <1>1, <1>2, <1>3

\* An event and the line behind it.
LEMMA PairKeeps ==
    ASSUME StreamInv, stream.open, provider = "anthropic", lines # <<>>, Tail(lines) # <<>>,
           lines[1].kind = "event", lines' = Tail(Tail(lines)),
           IF ~IsData(lines[2]) \/ ChunkOf(lines[1].name, lines[2]) = <<>> THEN Loop
           ELSE Return(ChunkOf(lines[1].name, lines[2])[1])
    PROVE  StreamInv'
<1> DEFINE event == lines[1]
           data == lines[2]
           y == data.items
<1>1. /\ Coming(lines, Collected) /\ Sound(provider, stream.by, Short, lines)
      /\ Collected \in Seq(Items) /\ 1 \in 1..Len(lines)
      /\ Ends(event) => Closing(lines) /\ \A k \in 1..Len(lines) : lines[k].items = <<>>
  BY LinesOpen
<1>2. /\ Coming(Tail(Tail(lines)), Collected \o y)
      /\ y # <<>> => IsBlock(event) /\ data.kind = "data"
      /\ y \in Seq(Items) /\ event \in Line /\ data \in Line
  <2>1. Flow("anthropic", Promised, stream.by, Short, lines, Collected)
    BY <1>1 DEF Coming
  <2>2. /\ Flow("anthropic", Promised, stream.by, Short, Tail(Tail(lines)), Collected \o y)
        /\ y # <<>> => IsBlock(event) /\ data.kind = "data"
        /\ y \in Seq(Items) /\ event \in Line /\ data \in Line
    BY <2>1, AnthropicPair
  <2> QED BY <2>2 DEF Coming
<1>3. /\ event.kind = "event"
      /\ event.name = "error" => stream.by = "error"
  BY <1>1 DEF Sound
<1>4. Coming(lines', Collected \o y)
  BY <1>2
<1>5. Collected \o <<>> = Collected
  BY <1>1, ConcatEmptySeq
<1>0. <<>> \in Seq(Items)
  BY EmptySeq
<1> HIDE DEF event, data
<1>13. ASSUME NEW c, IsData(data), ChunkOf(event.name, data) = <<c>> PROVE Return(c)
  <2> DEFINE o == ChunkOf(event.name, data)
  <2>1. <<c>> # <<>> /\ <<c>>[1] = c
    OBVIOUS
  <2>2. o # <<>> /\ o[1] = c
    BY <1>13, <2>1, Zenon
  <2>3. IF ~IsData(data) \/ o = <<>> THEN Loop ELSE Return(o[1])
    BY DEF event, data
  <2> HIDE DEF o
  <2> QED BY <1>13, <2>2, <2>3, Zenon
<1>6. ASSUME y = <<>>, Loop PROVE StreamInv'
  BY <1>4, <1>5, <1>6, LinePassed
<1>7. CASE ~IsData(data)
  <2>1. y = <<>>
    BY <1>2, <1>7 DEF IsData
  <2> QED BY <1>6, <1>7, <2>1 DEF data
<1>8. CASE IsData(data) /\ ChunkOf(event.name, data) = <<>> /\ y = <<>>
  BY <1>6, <1>8 DEF event, data
<1>9. CASE IsData(data) /\ ChunkOf(event.name, data) = <<Chunk(y, FALSE, "")>>
  <2> DEFINE c == Chunk(y, FALSE, "")
  <2>1. c \in ChunkSet /\ c.items = y /\ ~c.done /\ c.error = ""
    BY <1>2, ChunkKinds
  <2>2. Return(c)
    BY <1>9, <1>13
  <2> HIDE DEF c
  <2>3. Coming(lines', Collected \o c.items)
    BY <1>4, <2>1
  <2> QED BY <2>1, <2>2, <2>3, ChunkReturned
<1>10. CASE IsData(data) /\ ChunkOf(event.name, data) = <<Chunk(<<>>, TRUE, "")>> /\ Ends(event)
  <2> DEFINE c == Chunk(<<>>, TRUE, "")
  <2>1. c \in ChunkSet /\ c.items = <<>> /\ c.done /\ c.error = ""
    <3>1. TRUE \in BOOLEAN /\ "" \in {"", "read", "nil", "server"}
      OBVIOUS
    <3>2. c.items = <<>> /\ c.done /\ c.error = ""
      BY DEF Chunk
    <3>3. c \in ChunkSet
      BY <1>0, <3>1, ChunkKinds
    <3> QED BY <3>2, <3>3
  <2>2. Return(c)
    BY <1>10, <1>13
  <2> HIDE DEF c
  <2> QED BY <1>1, <1>10, <2>1, <2>2, ReplyEnds
<1>11. CASE IsData(data) /\ ChunkOf(event.name, data) = <<Chunk(<<>>, TRUE, "server")>> /\ event.name = "error"
  <2> DEFINE c == Chunk(<<>>, TRUE, "server")
  <2>1. c \in ChunkSet /\ c.items = <<>> /\ c.done /\ c.error = "server"
    BY <1>0, ChunkKinds
  <2>2. Return(c)
    BY <1>11, <1>13
  <2> HIDE DEF c
  <2> QED BY <1>1, <1>3, <1>11, <2>1, <2>2, ReplyEnds
<1>12. \/ ChunkOf(event.name, data) = <<>> /\ y = <<>>
       \/ ChunkOf(event.name, data) = <<Chunk(y, FALSE, "")>>
       \/ ChunkOf(event.name, data) = <<Chunk(<<>>, TRUE, "")>> /\ Ends(event)
       \/ ChunkOf(event.name, data) = <<Chunk(<<>>, TRUE, "server")>> /\ event.name = "error"
  BY <1>2, <1>3, ChunkOfIs
<1> QED
  BY <1>7, <1>8, <1>9, <1>10, <1>11, <1>12

\* One iteration of anthropic.go, Recv.
LEMMA RecvAnthropicKeeps ==
    ASSUME StreamInv, RecvAnthropic
    PROVE  StreamInv'
<1>1. stream.open /\ provider = "anthropic"
  BY DEF RecvAnthropic
<1>2. CASE lines = <<>>
  BY <1>1, <1>2, LinesOut DEF RecvAnthropic
<1>3. CASE lines # <<>>
  <2>1. /\ Coming(lines, Collected) /\ Sound(provider, stream.by, Short, lines)
        /\ lines \in Seq(Line) /\ Head(lines) = lines[1] /\ 1 \in 1..Len(lines)
    BY <1>1, <1>3, LinesOpen
  <2>2. CASE Head(lines).kind # "event"
    <3>1. lines' = Tail(lines) /\ Loop
      BY <1>3, <2>2 DEF RecvAnthropic
    <3>2. Flow("anthropic", Promised, stream.by, Short, lines, Collected)
      BY <1>1, <2>1 DEF Coming
    <3>3. Coming(Tail(lines), Collected)
      BY <1>1, <1>3, <2>1, <2>2, <3>2, AnthropicDrop DEF Coming
    <3> QED BY <1>1, <3>1, <3>3, LinePassed
  <2>3. CASE Head(lines).kind = "event" /\ Len(lines) = 1
    <3>1. PICK error \in {"nil", "read"} :
            Return(Chunk(<<>>, FALSE, error)) /\ (error = "nil" => stream.end # "long")
      BY <1>3, <2>3 DEF RecvAnthropic
    <3>2. stream.end # "whole" /\ (error = "nil" => stream.end = "cut")
      <4>1. ~Short => lines[1].kind # "event"
        BY <1>1, <2>1, <2>3 DEF Sound
      <4>2. Short
        BY <2>1, <2>3, <4>1
      <4> QED BY <3>1, <4>2 DEF Short, StreamInv, StreamShape, Streams
    <3> DEFINE c == Chunk(<<>>, FALSE, error)
    <3>3. c \in ChunkSet /\ c.items = <<>> /\ c.error = error /\ error # ""
      <4>1. <<>> \in Seq(Items) /\ error \in {"", "read", "nil", "server"} /\ error # ""
        BY EmptySeq
      <4> QED BY <4>1, ChunkKinds
    <3>4. Return(c)
      BY <3>1
    <3> HIDE DEF c
    <3> QED BY <1>1, <2>1, <3>2, <3>3, <3>4, ReplyEnds
  <2>4. CASE Head(lines).kind = "event" /\ Len(lines) # 1
    <3>1. /\ lines' = Tail(Tail(lines))
          /\ IF ~IsData(lines[2]) \/ ChunkOf(lines[1].name, lines[2]) = <<>> THEN Loop
             ELSE Return(ChunkOf(lines[1].name, lines[2])[1])
      BY <1>3, <2>4 DEF RecvAnthropic
    <3>2. Tail(lines) # <<>>
      <4>1. Len(Tail(lines)) = Len(lines) - 1 /\ Len(lines) \in Nat
        BY <1>3, <2>1, FirstAndRest
      <4>2. Len(Tail(lines)) # 0
        BY <2>4, <4>1
      <4> QED BY <4>2, EmptySeq
    <3> QED BY <1>1, <1>3, <2>1, <2>4, <3>1, <3>2, PairKeeps
  <2> QED BY <2>2, <2>3, <2>4
<1> QED
  BY <1>2, <1>3

-----------------------------------------------------------------------------
(* The connection.                                                          *)

\* Lines in which content stands behind the event of its block, and which
\* begin with an event and end with data.
Framed(s) ==
    /\ \A k \in 1..Len(s) : Len(s[k].items) <= 1 /\ (k = Len(s) => s[k].kind # "event")
    /\ \A k \in 1..Len(s) : k + 1 \in 1..Len(s) =>
         /\ s[k + 1].items # <<>> => IsBlock(s[k])
         /\ s[k].kind = "event" => s[k + 1].kind # "event"
    /\ Aligned(s)

Clean(s) ==
    /\ s \in Seq(Line)
    /\ \A k \in 1..Len(s) : /\ s[k].items # <<>> => s[k].kind = "data"
                            /\ ~Strange(s[k]) /\ s[k].name # "error"

\* Behind the end of the reply there is no content.
Closed(s) == \A j, k \in 1..Len(s) : j <= k /\ Ends(s[j]) => s[k].items = <<>>

\* What a server sends when nothing disturbs it.
Orderly(pr, s) == Clean(s) /\ Closed(s) /\ (pr = "anthropic" => Framed(s))

\* What is sent undisturbed is sound.
LEMMA OrderlySound ==
    ASSUME NEW pr, NEW by, NEW s, Orderly(pr, s)
    PROVE  Sound(pr, by, FALSE, s)
<1>1. pr = "anthropic" => Paired(s)
  BY DEF Orderly, Framed, Paired
<1>2. pr = "anthropic" => \A k \in 1..Len(s) : k = Len(s) => s[k].kind # "event"
  BY DEF Orderly, Framed
<1>3. \A j, k \in 1..Len(s) : /\ j <= k /\ Ends(s[j]) => s[k].items = <<>>
                              /\ j < k => ~(Strange(s[j]) /\ Strange(s[k]))
  BY DEF Orderly, Clean, Closed
<1>4. /\ s \in Seq(Line)
      /\ \A k \in 1..Len(s) : /\ s[k].items # <<>> => s[k].kind = "data"
                              /\ Strange(s[k]) => by \in Strangers
                              /\ s[k].name = "error" => by = "error"
  BY DEF Orderly, Clean
<1> QED
  BY <1>1, <1>2, <1>3, <1>4 DEF Sound

\* Lines that begin with those of s up to at and go on with an error.
LEMMA FailedSound ==
    ASSUME NEW pr, NEW s, Orderly(pr, s), NEW at \in 0..Len(s),
           NEW e \in Seq(Line), NEW m \in {1, 2}, Len(e) = at + m,
           \A k \in 1..at : e[k] = s[k],
           \A k \in 1..Len(e) : k > at => /\ e[k].items = <<>> /\ ~Strange(e[k])
                                          /\ k = at + 1 /\ e[k].kind = "event" => e[k].name = "error"
                                          /\ k = Len(e) => e[k].kind # "event"
    PROVE  Sound(pr, "error", FALSE, e) /\ (pr = "anthropic" => Aligned(e))
<1>1. Len(s) \in Nat /\ at \in Nat /\ Len(e) \in Nat
  BY LenProperties DEF Orderly, Clean
<1>2. \A k \in 1..Len(e) : (k <= at /\ k \in 1..Len(s) /\ e[k] = s[k]) \/ k > at
  BY <1>1
<1>3. \A k \in 1..Len(e) : /\ e[k].items # <<>> => e[k].kind = "data"
                           /\ ~Strange(e[k])
  BY <1>2 DEF Orderly, Clean
<1>4. ASSUME NEW j \in 1..Len(e), NEW k \in 1..Len(e), j <= k, Ends(e[j])
      PROVE  e[k].items = <<>>
  <2>1. CASE k > at
    BY <2>1
  <2>2. CASE k <= at
    <3>1. j <= at
      BY <1>1, <1>4, <2>2
    <3>2. j \in 1..Len(s) /\ k \in 1..Len(s) /\ e[j] = s[j] /\ e[k] = s[k]
      BY <1>1, <1>2, <2>2, <3>1
    <3> QED BY <1>4, <3>2 DEF Orderly, Closed
  <2> QED BY <1>1, <2>1, <2>2
<1>5. ASSUME pr = "anthropic" PROVE Paired(e)
  <2>1. Framed(s)
    BY <1>5 DEF Orderly
  <2>2. \A k \in 1..Len(e) : Len(e[k].items) <= 1
    <3>1. Len(<<>>) <= 1
      BY EmptySeq
    <3> QED BY <1>2, <2>1, <3>1 DEF Framed
  <2>3. ASSUME NEW k \in 1..Len(e), k + 1 \in 1..Len(e)
        PROVE  /\ e[k + 1].items # <<>> => IsBlock(e[k]) \/ Strange(e[k])
               /\ e[k].kind = "event" /\ e[k + 1].kind = "event" => e[k + 1].name = "error"
    <3>1. CASE k + 1 <= at
      <4>1. k <= at
        BY <1>1, <3>1
      <4>2. k \in 1..Len(s) /\ k + 1 \in 1..Len(s) /\ e[k] = s[k] /\ e[k + 1] = s[k + 1]
        BY <1>1, <1>2, <2>3, <3>1, <4>1
      <4> QED BY <2>1, <4>2 DEF Framed
    <3>2. CASE k + 1 > at
      <4>1. e[k + 1].items = <<>>
        BY <2>3, <3>2
      <4>2. k + 1 = at + 1 \/ k + 1 = Len(e)
        BY <1>1, <2>3, <3>2
      <4>3. e[k + 1].kind = "event" => e[k + 1].name = "error"
        BY <2>3, <3>2, <4>2
      <4> QED BY <4>1, <4>3
    <3> QED BY <1>1, <3>1, <3>2
  <2> QED BY <2>2, <2>3 DEF Paired
<1>6. \A k \in 1..Len(e) : k = Len(e) => e[k].kind # "event"
  BY <1>1
<1>7. pr = "anthropic" => Aligned(e)
  <2>1. SUFFICES ASSUME pr = "anthropic", e # <<>> PROVE e[1].items = <<>>
    BY DEF Aligned
  <2>2. 1 \in 1..Len(e)
    BY <1>1
  <2>3. CASE 1 > at
    BY <2>2, <2>3
  <2>4. CASE 1 <= at
    <3>1. e[1] = s[1] /\ s # <<>>
      BY <1>1, <1>2, <2>2, <2>4, EmptySeq
    <3> QED BY <2>1, <3>1 DEF Orderly, Framed, Aligned
  <2> QED BY <1>1, <2>3, <2>4
<1> QED
  BY <1>3, <1>4, <1>5, <1>6, <1>7 DEF Sound

\* The lines of s with one that does not belong there, behind the first at.
LEMMA VisitedSound ==
    ASSUME NEW pr, NEW s, Orderly(pr, s), NEW at \in 0..Len(s), NEW by \in Strangers,
           NEW e \in Seq(Line), Len(e) = Len(s) + 1,
           \A k \in 1..at : e[k] = s[k],
           \A k \in at + 1..Len(s) : e[k + 1] = s[k],
           e[at + 1] \in {Comment, Garbled}
    PROVE  Sound(pr, by, FALSE, e) /\ (pr = "anthropic" => Aligned(e))
<1>1. Len(s) \in Nat /\ at \in Nat /\ Len(e) \in Nat
  BY LenProperties DEF Orderly, Clean
<1>2. \A k \in 1..Len(e) : \/ k <= at /\ k \in 1..Len(s) /\ e[k] = s[k]
                           \/ k = at + 1
                           \/ k > at + 1 /\ k - 1 \in 1..Len(s) /\ e[k] = s[k - 1]
  <2> TAKE k \in 1..Len(e)
  <2>1. CASE k <= at
    BY <1>1, <2>1
  <2>2. CASE k > at + 1
    <3>1. k - 1 \in at + 1..Len(s) /\ (k - 1) + 1 = k /\ k - 1 \in 1..Len(s)
      BY <1>1, <2>2
    <3>2. e[(k - 1) + 1] = s[k - 1]
      BY <3>1
    <3> QED BY <2>2, <3>1, <3>2
  <2> QED BY <1>1, <2>1, <2>2
<1> DEFINE x == e[at + 1]
<1>3. x.kind \in Strangers /\ x.items = <<>> /\ x.name = "" /\ x.kind # "event"
  <2>1. Comment.kind = "comment" /\ Comment.items = <<>> /\ Comment.name = ""
    BY DEF Comment
  <2>2. Garbled.kind = "garbled" /\ Garbled.items = <<>> /\ Garbled.name = ""
    BY DEF Garbled
  <2>3. CASE x = Comment
    <3> HIDE DEF x
    <3> QED BY <2>1, <2>3 DEF Strangers
  <2>4. CASE x = Garbled
    <3> HIDE DEF x
    <3> QED BY <2>2, <2>4 DEF Strangers
  <2> QED BY <2>3, <2>4
<1>4. Strange(x) /\ ~Ends(x) /\ ~IsBlock(x)
  BY <1>3 DEF Strange, Strangers, Ends, IsBlock
<1> HIDE DEF x
<1>5. \A k \in 1..Len(e) : k = at + 1 => e[k] = x
  BY DEF x
<1>6. \A k \in 1..Len(s) : (s[k].items # <<>> => s[k].kind = "data") /\ ~Strange(s[k]) /\ s[k].name # "error"
  BY DEF Orderly, Clean
<1>7. \A k \in 1..Len(e) : /\ e[k].items # <<>> => e[k].kind = "data"
                           /\ e[k].name # "error"
                           /\ k # at + 1 => ~Strange(e[k])
  BY <1>2, <1>3, <1>5, <1>6
<1>8. ASSUME NEW j \in 1..Len(e), NEW k \in 1..Len(e), j <= k, Ends(e[j])
      PROVE  e[k].items = <<>>
  <2>0. Closed(s)
    BY DEF Orderly
  <2>1. CASE k = at + 1
    BY <1>3, <1>5, <2>1
  <2>2. CASE k # at + 1
    <3>1. j # at + 1
      BY <1>4, <1>5, <1>8
    <3>2. PICK i \in 1..Len(s) : e[j] = s[i] /\ ((j <= at /\ i = j) \/ (j > at + 1 /\ i = j - 1))
      BY <1>2, <3>1
    <3>3. PICK l \in 1..Len(s) : e[k] = s[l] /\ ((k <= at /\ l = k) \/ (k > at + 1 /\ l = k - 1))
      BY <1>2, <2>2
    <3>4. i <= l
      BY <1>1, <1>8, <3>2, <3>3
    <3> QED BY <1>8, <2>0, <3>2, <3>3, <3>4 DEF Closed
  <2> QED BY <2>1, <2>2
<1>9. \A j, k \in 1..Len(e) : j < k => ~(Strange(e[j]) /\ Strange(e[k]))
  BY <1>1, <1>7
<1>10. ASSUME pr = "anthropic" PROVE Paired(e)
  <2>1. Framed(s)
    BY <1>10 DEF Orderly
  <2>2. \A k \in 1..Len(e) : Len(e[k].items) <= 1
    <3>1. Len(<<>>) <= 1
      BY EmptySeq
    <3>2. \A k \in 1..Len(s) : Len(s[k].items) <= 1
      BY <2>1 DEF Framed
    <3> QED BY <1>2, <1>3, <1>5, <3>1, <3>2
  <2>3. ASSUME NEW k \in 1..Len(e), k + 1 \in 1..Len(e)
        PROVE  /\ e[k + 1].items # <<>> => IsBlock(e[k]) \/ Strange(e[k])
               /\ e[k].kind = "event" /\ e[k + 1].kind = "event" => e[k + 1].name = "error"
    <3>1. CASE k = at + 1
      <4>1. Strange(e[k]) /\ e[k].kind # "event"
        BY <1>3, <1>4, <1>5, <3>1
      <4> QED BY <4>1
    <3>2. CASE k + 1 = at + 1
      <4>1. e[k + 1].items = <<>> /\ e[k + 1].kind # "event"
        BY <1>3, <1>5, <2>3, <3>2
      <4> QED BY <4>1
    <3>3. CASE k + 1 <= at
      <4>1. k \in 1..Len(s) /\ k + 1 \in 1..Len(s) /\ e[k] = s[k] /\ e[k + 1] = s[k + 1]
        <5>1. k <= at /\ k # at + 1 /\ k + 1 # at + 1
          BY <1>1, <3>3
        <5> QED BY <1>1, <1>2, <2>3, <3>3, <5>1
      <4> QED BY <2>1, <4>1 DEF Framed
    <3>4. CASE k > at + 1
      <4> DEFINE i == k - 1
      <4>1. i \in 1..Len(s) /\ i + 1 \in 1..Len(s) /\ e[k] = s[i] /\ e[k + 1] = s[i + 1]
        <5>1. i \in 1..Len(s) /\ e[k] = s[i]
          BY <1>1, <1>2, <3>4
        <5>2. k + 1 > at + 1 /\ (k + 1) - 1 = i + 1
          BY <1>1, <3>4
        <5>3. (k + 1) - 1 \in 1..Len(s) /\ e[k + 1] = s[(k + 1) - 1]
          BY <1>1, <1>2, <2>3, <5>2
        <5> QED BY <5>1, <5>2, <5>3
      <4> HIDE DEF i
      <4> QED BY <2>1, <4>1 DEF Framed
    <3> QED BY <1>1, <3>1, <3>2, <3>3, <3>4
  <2> QED BY <2>2, <2>3 DEF Paired
<1>11. ASSUME pr = "anthropic", NEW k \in 1..Len(e), k = Len(e) PROVE e[k].kind # "event"
  <2>1. CASE k = at + 1
    BY <1>3, <1>5, <2>1
  <2>2. CASE k # at + 1
    <3>1. e[k] = s[Len(s)] /\ Len(s) \in 1..Len(s)
      <4>1. k > at + 1 /\ k - 1 = Len(s)
        BY <1>1, <1>11, <2>2
      <4> QED BY <1>1, <1>2, <4>1
    <3>2. Framed(s)
      BY <1>11 DEF Orderly
    <3> QED BY <3>1, <3>2 DEF Framed
  <2> QED BY <2>1, <2>2
<1>12. pr = "anthropic" => Aligned(e)
  <2>1. SUFFICES ASSUME pr = "anthropic" PROVE e[1].items = <<>>
    BY DEF Aligned
  <2>2. 1 \in 1..Len(e)
    BY <1>1
  <2>3. CASE 1 = at + 1
    BY <1>3, <1>5, <2>2, <2>3
  <2>4. CASE 1 <= at
    <3>1. e[1] = s[1] /\ s # <<>>
      BY <1>1, <1>2, <2>2, <2>4, EmptySeq
    <3> QED BY <2>1, <3>1 DEF Orderly, Framed, Aligned
  <2> QED BY <1>1, <2>3, <2>4
<1>13. \A k \in 1..Len(e) : /\ e[k].items # <<>> => e[k].kind = "data"
                            /\ Strange(e[k]) => by \in Strangers
                            /\ e[k].name = "error" => by = "error"
  BY <1>7
<1> QED
  BY <1>8, <1>9, <1>10, <1>11, <1>12, <1>13 DEF Sound

\* The first n of lines, if the connection ends behind them or does not end early.
LEMMA CutSound ==
    ASSUME NEW pr, NEW by, NEW s, Sound(pr, by, FALSE, s), NEW n \in 0..Len(s),
           NEW cut, cut <=> n < Len(s), NEW e \in Seq(Line), Len(e) = n,
           \A k \in 1..n : e[k] = s[k]
    PROVE  Sound(pr, by, cut, e)
<1>1. Len(s) \in Nat
  BY LenProperties DEF Sound
<1>2. \A k \in 1..Len(e) : k \in 1..Len(s) /\ e[k] = s[k]
  BY <1>1
<1>3. \A k \in 1..Len(e) : /\ e[k].items # <<>> => e[k].kind = "data"
                           /\ Strange(e[k]) => by \in Strangers
                           /\ e[k].name = "error" => by = "error"
  BY <1>2 DEF Sound
<1>4. \A j, k \in 1..Len(e) : /\ j <= k /\ Ends(e[j]) => e[k].items = <<>>
                              /\ j < k => ~(Strange(e[j]) /\ Strange(e[k]))
  BY <1>2 DEF Sound
<1>5. pr = "anthropic" => Paired(e)
  <2>1. pr = "anthropic" => Paired(s)
    BY DEF Sound
  <2>2. \A k \in 1..Len(e) : k + 1 \in 1..Len(e) => k + 1 \in 1..Len(s) /\ e[k + 1] = s[k + 1]
    BY <1>2
  <2> QED BY <1>2, <2>1, <2>2 DEF Paired
<1>6. ASSUME pr = "anthropic", ~cut, NEW k \in 1..Len(e), k = Len(e) PROVE e[k].kind # "event"
  <2>1. n = Len(s)
    BY <1>1, <1>6
  <2>2. e[k] = s[k] /\ k = Len(s) /\ k \in 1..Len(s)
    BY <1>2, <1>6, <2>1
  <2> QED BY <1>6, <2>2 DEF Sound
<1> QED
  BY <1>3, <1>4, <1>5, <1>6 DEF Sound

\* Lines without content bring nothing.
LEMMA NothingToCome ==
    ASSUME NEW pr, NEW s \in Seq(Line), \A k \in 1..Len(s) : s[k].items = <<>>
    PROVE  ToCome(pr, s) = <<>>
<1>1. \A k \in 1..Len(s) : Brings(pr)[s[k]] = <<>>
  BY ElementOfSeq, BringsNothing
<1> QED
  BY <1>1, BringsItems, JoinedNothing DEF ToCome

\* What a stream brings that has just been opened: of all lines the first n,
\* the connection ends behind them; d is what an error has replaced.
LEMMA Opening ==
    ASSUME NEW pr, NEW by, NEW all, Sound(pr, by, FALSE, all), pr = "anthropic" => Aligned(all),
           NEW d \in Seq(Items), by # "error" => d = <<>>,
           NEW n \in 0..Len(all), NEW cut, cut <=> n < Len(all),
           NEW whole, whole = ToCome(pr, all) \o d
    PROVE  Flow(pr, whole, by, cut, SubSeq(all, 1, n), <<>>)
<1> DEFINE N == Len(all)
           e == SubSeq(all, 1, n)
           r == SubSeq(all, n + 1, N)
           F == Brings(pr)
<1>1. all \in Seq(Line) /\ N \in Nat /\ n \in Nat /\ n <= N
  BY LenProperties DEF Sound
<1>2. e \in Seq(Line) /\ Len(e) = n /\ \A k \in 1..n : e[k] = all[k]
  BY <1>1, SplitAt
<1>3. r \in Seq(Line) /\ all = e \o r
  BY <1>1, SplitAt
<1>14. Len(r) = N - n /\ \A k \in 1..Len(r) : r[k] = all[n + k]
  <2>1. r = [k \in 1..N - (n + 1) + 1 |-> all[n + 1 + k - 1]]
    OBVIOUS
  <2> QED BY <1>1, <2>1
<1> HIDE DEF e, r, F, N
<1>4. Sound(pr, by, cut, e)
  BY <1>1, <1>2, CutSound DEF N
<1>5. ToCome(pr, all) = ToCome(pr, e) \o ToCome(pr, r)
  BY <1>2, <1>3, BringsItems, JoinedBoth DEF ToCome
<1> DEFINE a == ToCome(pr, e)
           b == ToCome(pr, r)
           rest == b \o d
<1>6. a \in Seq(Items) /\ b \in Seq(Items) /\ ToCome(pr, all) \in Seq(Items)
  BY <1>1, <1>2, <1>3, ToComeIsSeq
<1>7. rest \in Seq(Items) /\ whole \in Seq(Items) /\ <<>> \in Seq(Items)
  BY <1>6, ConcatProperties, EmptySeq
<1>8. whole = a \o rest
  <2> HIDE DEF a, b
  <2>1. (a \o b) \o d = a \o (b \o d)
    BY <1>6, ConcatAssociative
  <2> QED BY <1>5, <2>1 DEF a, b
<1>9. ASSUME ~cut \/ Closing(e), by # "error" PROVE rest = <<>>
  <2>1. ASSUME ~cut PROVE b = <<>>
    <3>1. n = N
      BY <1>1, <2>1 DEF N
    <3>2. SubSeq(all, N + 1, N) = <<>>
      BY <1>1, SubSeqEmpty
    <3>3. r = <<>>
      BY <3>1, <3>2 DEF r
    <3>4. Each(F, <<>>) = <<>>
      BY EachEmpty
    <3> QED BY <3>3, <3>4, JoinedEmpty DEF ToCome, F
  <2>4. ASSUME Closing(e) PROVE b = <<>>
    <3>1. PICK j \in 1..n : Ends(e[j])
      BY <1>2, <2>4 DEF Closing
    <3>2. Ends(all[j]) /\ j \in 1..N
      BY <1>1, <1>2, <3>1
    <3>3. \A k \in 1..Len(r) : r[k].items = <<>>
      <4>1. ASSUME NEW k \in 1..Len(r) PROVE r[k].items = <<>>
        <5> DEFINE i == n + k
        <5>1. i \in 1..N /\ j <= i /\ r[k] = all[i]
          BY <1>1, <1>14, <3>1
        <5> HIDE DEF i
        <5>2. Len(all) = N
          BY DEF N
        <5>3. all[i].items = <<>>
          BY <3>2, <5>1, <5>2 DEF Sound
        <5> QED BY <5>1, <5>3
      <4> QED BY <4>1
    <3> QED BY <1>3, <3>3, NothingToCome
  <2>2. b = <<>>
    BY <1>9, <2>1, <2>4
  <2> HIDE DEF b
  <2>3. d = <<>> /\ <<>> \in Seq(Items)
    BY <1>9, EmptySeq
  <2> QED BY <2>2, <2>3, ConcatEmptySeq
<1>10. pr = "anthropic" => Aligned(e)
  <2>1. SUFFICES ASSUME pr = "anthropic", e # <<>> PROVE e[1].items = <<>>
    BY DEF Aligned
  <2>2. n >= 1 /\ all # <<>>
    BY <1>1, <1>2, <2>1, EmptySeq DEF N
  <2>3. e[1] = all[1]
    BY <1>1, <1>2, <2>2
  <2> QED BY <2>1, <2>2, <2>3 DEF Aligned
<1> HIDE DEF rest
<1>11. whole = <<>> \o (ToCome(pr, e) \o rest)
  <2>1. a \o rest \in Seq(Items)
    BY <1>7, <1>8
  <2> QED BY <1>8, <2>1, ConcatEmptySeq DEF a
<1>12. Exact(pr, whole, by, e, <<>>, rest)
  BY <1>10, <1>11 DEF Exact
<1>13. Left(pr, whole, by, cut, e, <<>>, rest)
  BY <1>7, <1>9, <1>12 DEF Left
<1> QED
  BY <1>4, <1>7, <1>13 DEF Flow, e

\* The lines all are sound, and bring what s brings up to its end, of which an
\* error may have replaced the rest.
Arriving(pr, s, by, all) ==
    /\ Sound(pr, by, FALSE, all) /\ (pr = "anthropic" => Aligned(all))
    /\ \E d \in Seq(Items) : (by # "error" => d = <<>>) /\ ToCome(pr, s) = ToCome(pr, all) \o d

\* What two lists of lines bring.
LEMMA ToComeBoth ==
    ASSUME NEW pr, NEW s \in Seq(Line), NEW t \in Seq(Line)
    PROVE  /\ ToCome(pr, s \o t) = ToCome(pr, s) \o ToCome(pr, t)
           /\ ToCome(pr, s) \in Seq(Items) /\ ToCome(pr, t) \in Seq(Items)
  BY BringsItems, JoinedBoth, ToComeIsSeq DEF ToCome

\* The lines up to at, and then an error.
LEMMA FailedArrives ==
    ASSUME NEW pr, NEW s, Orderly(pr, s), NEW at \in 0..Len(s), NEW t \in Seq(Line),
           NEW m \in {1, 2}, Len(t) = m,
           \A k \in 1..m : /\ t[k].items = <<>> /\ ~Strange(t[k])
                           /\ k = 1 /\ t[k].kind = "event" => t[k].name = "error"
                           /\ k = m => t[k].kind # "event"
    PROVE  Arriving(pr, s, "error", SubSeq(s, 1, at) \o t)
<1> DEFINE u == SubSeq(s, 1, at)
           v == SubSeq(s, at + 1, Len(s))
           e == u \o t
<1>1. s \in Seq(Line)
  BY DEF Orderly, Clean
<1>2. /\ u \in Seq(Line) /\ Len(u) = at /\ v \in Seq(Line) /\ s = u \o v
      /\ \A k \in 1..at : u[k] = s[k]
  BY <1>1, SplitAt
<1>3. Len(s) \in Nat /\ at \in Nat
  BY <1>1, LenProperties
<1> HIDE DEF u, v
<1>4. /\ e \in Seq(Line) /\ Len(e) = Len(u) + Len(t)
      /\ \A k \in 1..Len(u) + Len(t) : e[k] = IF k <= Len(u) THEN u[k] ELSE t[k - Len(u)]
  BY <1>2, ConcatProperties
<1> HIDE DEF e
<1>5. Len(e) = at + m /\ \A k \in 1..at : e[k] = s[k]
  BY <1>2, <1>3, <1>4
<1>6. ASSUME NEW k \in 1..Len(e), k > at
      PROVE  /\ e[k].items = <<>> /\ ~Strange(e[k])
             /\ k = at + 1 /\ e[k].kind = "event" => e[k].name = "error"
             /\ k = Len(e) => e[k].kind # "event"
  <2> DEFINE i == k - at
  <2>1. i \in 1..m /\ e[k] = t[i] /\ (k = at + 1 => i = 1) /\ (k = Len(e) => i = m)
    BY <1>2, <1>3, <1>4, <1>5, <1>6
  <2> HIDE DEF i
  <2> QED BY <2>1
<1>7. Sound(pr, "error", FALSE, e) /\ (pr = "anthropic" => Aligned(e))
  BY <1>4, <1>5, <1>6, FailedSound
<1>8. ToCome(pr, t) = <<>>
  BY NothingToCome
<1>9. ToCome(pr, e) = ToCome(pr, u)
  <2>1. ToCome(pr, e) = ToCome(pr, u) \o ToCome(pr, t) /\ ToCome(pr, u) \in Seq(Items)
    BY <1>2, ToComeBoth DEF e
  <2> QED BY <1>8, <2>1, ConcatEmptySeq
<1>10. ToCome(pr, s) = ToCome(pr, e) \o ToCome(pr, v) /\ ToCome(pr, v) \in Seq(Items)
  BY <1>2, <1>9, ToComeBoth
<1> QED
  BY <1>7, <1>10 DEF Arriving, e, u

\* The lines with one in between that does not belong there.
LEMMA VisitedArrives ==
    ASSUME NEW pr, NEW s, Orderly(pr, s), NEW at \in 0..Len(s), NEW by \in Strangers,
           NEW x \in {Comment, Garbled}
    PROVE  Arriving(pr, s, by, (SubSeq(s, 1, at) \o <<x>>) \o SubSeq(s, at + 1, Len(s)))
<1> DEFINE u == SubSeq(s, 1, at)
           v == SubSeq(s, at + 1, Len(s))
           o == <<x>>
           w == u \o o
           e == w \o v
<1>1. s \in Seq(Line)
  BY DEF Orderly, Clean
<1>2. x \in Line /\ x.items = <<>>
  <2>1. <<>> \in Seq(Items)
    BY EmptySeq
  <2>2. Comment \in Line /\ Comment.items = <<>>
    BY <2>1 DEF Comment, Line, LineKinds, EventNames
  <2>3. Garbled \in Line /\ Garbled.items = <<>>
    BY <2>1 DEF Garbled, Line, LineKinds, EventNames
  <2> QED BY <2>2, <2>3
<1>3. o \in Seq(Line) /\ Len(o) = 1 /\ o[1] = x
  BY <1>2, OneIsSeq
<1>4. /\ u \in Seq(Line) /\ Len(u) = at /\ v \in Seq(Line) /\ Len(v) = Len(s) - at /\ s = u \o v
      /\ \A k \in 1..at : u[k] = s[k]
      /\ \A k \in at + 1..Len(s) : v[k - at] = s[k]
  BY <1>1, SplitAt
<1>5. Len(s) \in Nat /\ at \in Nat /\ at <= Len(s)
  BY <1>1, LenProperties
<1> HIDE DEF u, v, o
<1>6. /\ w \in Seq(Line) /\ Len(w) = Len(u) + Len(o)
      /\ \A k \in 1..Len(u) + Len(o) : w[k] = IF k <= Len(u) THEN u[k] ELSE o[k - Len(u)]
  BY <1>3, <1>4, ConcatProperties
<1> HIDE DEF w
<1>7. Len(w) = at + 1 /\ (\A k \in 1..at : w[k] = s[k]) /\ w[at + 1] = x
  <2>1. (at + 1) - at = 1
    BY <1>5
  <2>2. w[at + 1] = o[(at + 1) - at]
    BY <1>3, <1>4, <1>5, <1>6
  <2>3. w[at + 1] = x
    BY <1>3, <2>1, <2>2, Zenon
  <2> QED BY <1>3, <1>4, <1>5, <1>6, <2>3
<1>8. /\ e \in Seq(Line) /\ Len(e) = Len(w) + Len(v)
      /\ \A k \in 1..Len(w) + Len(v) : e[k] = IF k <= Len(w) THEN w[k] ELSE v[k - Len(w)]
  <2>1. w \in Seq(Line) /\ v \in Seq(Line)
    BY <1>4, <1>6
  <2> QED BY <2>1, ConcatProperties
<1> HIDE DEF e
<1>9. Len(e) = Len(s) + 1 /\ (\A k \in 1..at : e[k] = s[k]) /\ e[at + 1] = x
  <2>1. Len(e) = Len(s) + 1 /\ \A k \in 1..at + 1 : e[k] = w[k]
    BY <1>4, <1>5, <1>7, <1>8
  <2>2. at + 1 \in 1..at + 1 /\ \A k \in 1..at : k \in 1..at + 1
    BY <1>5
  <2> QED BY <1>7, <2>1, <2>2
<1>10. ASSUME NEW k \in at + 1..Len(s) PROVE e[k + 1] = s[k]
  <2>1. k + 1 \in 1..Len(w) + Len(v) /\ ~(k + 1 <= Len(w)) /\ (k + 1) - Len(w) = k - at
    BY <1>4, <1>5, <1>7
  <2>2. e[k + 1] = v[(k + 1) - Len(w)]
    BY <1>8, <2>1
  <2> QED BY <1>4, <2>1, <2>2
<1>11. Sound(pr, by, FALSE, e) /\ (pr = "anthropic" => Aligned(e))
  BY <1>8, <1>9, <1>10, VisitedSound
<1>12. ToCome(pr, o) = <<>>
  <2>1. \A k \in 1..Len(o) : o[k].items = <<>>
    BY <1>2, <1>3
  <2> QED BY <1>3, <2>1, NothingToCome
<1>13. ToCome(pr, w) = ToCome(pr, u)
  <2>1. ToCome(pr, w) = ToCome(pr, u) \o ToCome(pr, o) /\ ToCome(pr, u) \in Seq(Items)
    BY <1>3, <1>4, ToComeBoth DEF w
  <2> QED BY <1>12, <2>1, ConcatEmptySeq
<1>14. ToCome(pr, e) = ToCome(pr, w) \o ToCome(pr, v)
  BY <1>4, <1>6, ToComeBoth DEF e
<1>15. ToCome(pr, s) = ToCome(pr, u) \o ToCome(pr, v)
  BY <1>4, ToComeBoth
<1>16. ToCome(pr, s) = ToCome(pr, e) /\ ToCome(pr, s) \in Seq(Items)
  BY <1>1, <1>13, <1>14, <1>15, ToComeIsSeq
<1>17. ToCome(pr, s) = ToCome(pr, e) \o <<>> /\ <<>> \in Seq(Items)
  <2> DEFINE c == ToCome(pr, s)
  <2>1. c \in Seq(Items)
    BY <1>16
  <2> HIDE DEF c
  <2>2. c \o <<>> = c
    BY <2>1, ConcatEmptySeq
  <2>3. ToCome(pr, s) = ToCome(pr, s) \o <<>>
    BY <2>2 DEF c
  <2> QED BY <1>16, <2>3, EmptySeq
<1> QED
  BY <1>11, <1>17, Zenon DEF Arriving, e, w, u, v, o

\* Whatever disturbs a reply, its lines are sound.
LEMMA DisturbedArrives ==
    ASSUME NEW s, Orderly(provider, s), NEW at \in 0..Len(s), NEW by \in Disturbers
    PROVE  Arriving(provider, s, by, Disturbed(s, at, by))
<1>0. <<>> \in Seq(Items)
  BY EmptySeq
<1>1. CASE by = "nothing"
  <2>1. Disturbed(s, at, by) = s
    BY <1>1 DEF Disturbed
  <2>2. s \in Seq(Line)
    BY DEF Orderly, Clean
  <2> DEFINE c == ToCome(provider, s)
  <2>3. c \in Seq(Items)
    BY <2>2, ToComeIsSeq
  <2> HIDE DEF c
  <2>4. c = c \o <<>>
    BY <2>3, ConcatEmptySeq
  <2>5. Sound(provider, by, FALSE, s)
    BY OrderlySound
  <2>6. provider = "anthropic" => Aligned(s)
    BY DEF Orderly, Framed
  <2>7. ToCome(provider, s) = ToCome(provider, s) \o <<>>
    BY <2>4 DEF c
  <2> QED BY <1>0, <2>1, <2>5, <2>6, <2>7 DEF Arriving
<1>2. CASE by = "error"
  <2>1. Failure \in Line /\ Failure.items = <<>> /\ ~Strange(Failure) /\ Failure.kind # "event"
    BY <1>0 DEF Failure, Line, LineKinds, EventNames, Strange, Strangers
  <2>2. LET x == Event("error") IN
          x \in Line /\ x.items = <<>> /\ ~Strange(x) /\ x.name = "error"
    BY <1>0 DEF Event, Line, LineKinds, EventNames, Strange, Strangers
  <2>3. CASE provider = "openai"
    <3> DEFINE t == <<Failure>>
    <3>1. t \in Seq(Line) /\ Len(t) = 1 /\ t[1] = Failure
      BY <2>1, OneIsSeq
    <3>2. Disturbed(s, at, by) = SubSeq(s, 1, at) \o t
      BY <1>2, <2>3, Zenon DEF Disturbed
    <3> HIDE DEF t
    <3>3. \A k \in 1..1 : /\ t[k].items = <<>> /\ ~Strange(t[k])
                          /\ k = 1 /\ t[k].kind = "event" => t[k].name = "error"
                          /\ k = 1 => t[k].kind # "event"
      BY <2>1, <3>1
    <3>4. Arriving(provider, s, "error", SubSeq(s, 1, at) \o t)
      BY <3>1, <3>3, FailedArrives
    <3> QED BY <1>2, <3>2, <3>4
  <2>4. CASE provider # "openai"
    <3> DEFINE x == Event("error")
               t == <<x, Failure>>
    <3> HIDE DEF x
    <3>1. t \in Seq(Line) /\ Len(t) = 2 /\ t[1] = x /\ t[2] = Failure
      BY <2>1, <2>2 DEF x
    <3>2. Disturbed(s, at, by) = SubSeq(s, 1, at) \o t
      BY <1>2, <2>4, Zenon DEF Disturbed, x
    <3> HIDE DEF t
    <3>3. \A k \in 1..2 : /\ t[k].items = <<>> /\ ~Strange(t[k])
                          /\ k = 1 /\ t[k].kind = "event" => t[k].name = "error"
                          /\ k = 2 => t[k].kind # "event"
      BY <2>1, <2>2, <3>1 DEF x
    <3>4. Arriving(provider, s, "error", SubSeq(s, 1, at) \o t)
      BY <3>1, <3>3, FailedArrives
    <3> QED BY <1>2, <3>2, <3>4
  <2> QED BY <2>3, <2>4
<1>3. CASE by \in Strangers
  <2> DEFINE x == IF by = "comment" THEN Comment ELSE Garbled
  <2>1. x \in {Comment, Garbled}
    OBVIOUS
  <2>2. Disturbed(s, at, by) = (SubSeq(s, 1, at) \o <<x>>) \o SubSeq(s, at + 1, Len(s))
    BY <1>3, Zenon DEF Disturbed, Strangers
  <2> HIDE DEF x
  <2>3. Arriving(provider, s, by, (SubSeq(s, 1, at) \o <<x>>) \o SubSeq(s, at + 1, Len(s)))
    BY <1>3, <2>1, VisitedArrives
  <2> QED BY <2>2, <2>3
<1> QED
  BY <1>1, <1>2, <1>3 DEF Disturbers, Strangers

-----------------------------------------------------------------------------
(* What a server sends.                                                     *)

\* Lines of a reply before its end.
Regular(pr, s) ==
    /\ Clean(s) /\ \A k \in 1..Len(s) : ~Ends(s[k])
    /\ pr = "anthropic" => Framed(s)

LEMMA CleanBoth ==
    ASSUME NEW a, NEW b, Clean(a), Clean(b)
    PROVE  Clean(a \o b)
<1> DEFINE w == a \o b
<1>1. a \in Seq(Line) /\ b \in Seq(Line)
  BY DEF Clean
<1>2. /\ w \in Seq(Line)
      /\ \A k \in 1..Len(w) : \/ k \in 1..Len(a) /\ w[k] = a[k]
                              \/ k - Len(a) \in 1..Len(b) /\ w[k] = b[k - Len(a)]
  BY <1>1, BothParts
<1> HIDE DEF w
<1>3. Clean(w)
  BY <1>2 DEF Clean
<1> QED
  BY <1>3 DEF w

LEMMA FramedBoth ==
    ASSUME NEW a \in Seq(Line), NEW b \in Seq(Line), Framed(a), Framed(b)
    PROVE  Framed(a \o b)
<1> DEFINE w == a \o b
<1>1. /\ w \in Seq(Line) /\ Len(w) = Len(a) + Len(b) /\ Len(a) \in Nat /\ Len(b) \in Nat
      /\ \A k \in 1..Len(w) : \/ k \in 1..Len(a) /\ w[k] = a[k]
                              \/ k > Len(a) /\ k - Len(a) \in 1..Len(b) /\ w[k] = b[k - Len(a)]
  BY BothParts
<1> HIDE DEF w
<1>2. ASSUME NEW k \in 1..Len(w)
      PROVE  Len(w[k].items) <= 1 /\ (k = Len(w) => w[k].kind # "event")
  <2>1. CASE k \in 1..Len(a) /\ w[k] = a[k]
    <3>1. k = Len(w) => k = Len(a)
      BY <1>1, <2>1
    <3> QED BY <2>1, <3>1 DEF Framed
  <2>2. CASE k > Len(a) /\ k - Len(a) \in 1..Len(b) /\ w[k] = b[k - Len(a)]
    <3> DEFINE i == k - Len(a)
    <3>1. i \in 1..Len(b) /\ w[k] = b[i] /\ (k = Len(w) => i = Len(b))
      BY <1>1, <2>2
    <3> HIDE DEF i
    <3> QED BY <3>1 DEF Framed
  <2> QED BY <1>1, <2>1, <2>2
<1>3. Aligned(w)
  <2>1. SUFFICES ASSUME w # <<>> PROVE w[1].items = <<>>
    BY DEF Aligned
  <2>2. 1 \in 1..Len(w) /\ Len(w) # 0
    BY <1>1, <2>1, EmptySeq
  <2>3. CASE Len(a) = 0
    <3>1. 1 - Len(a) = 1 /\ 1 \notin 1..Len(a) /\ b # <<>>
      BY <1>1, <2>2, <2>3, EmptySeq
    <3>2. w[1] = b[1]
      BY <1>1, <2>2, <3>1
    <3> QED BY <3>1, <3>2 DEF Framed, Aligned
  <2>4. CASE Len(a) # 0
    <3>1. ~(1 > Len(a)) /\ a # <<>>
      BY <1>1, <2>4, EmptySeq
    <3>2. w[1] = a[1]
      BY <1>1, <2>2, <3>1
    <3> QED BY <3>1, <3>2 DEF Framed, Aligned
  <2> QED BY <2>3, <2>4
<1>4. ASSUME NEW k \in 1..Len(w), k + 1 \in 1..Len(w)
      PROVE  /\ w[k + 1].items # <<>> => IsBlock(w[k])
             /\ w[k].kind = "event" => w[k + 1].kind # "event"
  <2>1. CASE k + 1 <= Len(a)
    <3>1. k \in 1..Len(a) /\ k + 1 \in 1..Len(a) /\ ~(k > Len(a)) /\ ~(k + 1 > Len(a))
      BY <1>1, <2>1
    <3>2. w[k] = a[k] /\ w[k + 1] = a[k + 1]
      BY <1>1, <1>4, <3>1
    <3> QED BY <3>1, <3>2 DEF Framed
  <2>2. CASE k = Len(a)
    <3>1. k \in 1..Len(a) /\ ~(k > Len(a)) /\ (k + 1) - Len(a) = 1 /\ k + 1 \notin 1..Len(a) /\ Len(b) >= 1
      BY <1>1, <1>4, <2>2
    <3>2. w[k] = a[k] /\ w[k + 1] = b[1] /\ b # <<>>
      BY <1>1, <1>4, <3>1, EmptySeq
    <3>3. a[k].kind # "event" /\ b[1].items = <<>>
      BY <2>2, <3>1, <3>2 DEF Framed, Aligned
    <3> QED BY <3>2, <3>3
  <2>3. CASE k > Len(a)
    <3> DEFINE i == k - Len(a)
    <3>1. i \in 1..Len(b) /\ i + 1 \in 1..Len(b) /\ (k + 1) - Len(a) = i + 1
          /\ k \notin 1..Len(a) /\ k + 1 \notin 1..Len(a)
      BY <1>1, <1>4, <2>3
    <3>2. w[k] = b[i]
      BY <1>1, <1>4, <3>1
    <3>3. w[k + 1] = b[(k + 1) - Len(a)]
      BY <1>1, <1>4, <3>1
    <3> HIDE DEF i
    <3> QED BY <3>1, <3>2, <3>3 DEF Framed
  <2> QED BY <1>1, <2>1, <2>2, <2>3
<1> QED
  BY <1>2, <1>3, <1>4 DEF Framed, w

\* Lines before the end of a reply, followed by others.
LEMMA RegularBoth ==
    ASSUME NEW pr, NEW a, NEW b, Regular(pr, a), Regular(pr, b)
    PROVE  Regular(pr, a \o b)
<1> DEFINE w == a \o b
<1>1. Clean(a) /\ Clean(b) /\ a \in Seq(Line) /\ b \in Seq(Line)
  BY DEF Regular, Clean
<1>2. \A k \in 1..Len(w) : \/ k \in 1..Len(a) /\ w[k] = a[k]
                           \/ k - Len(a) \in 1..Len(b) /\ w[k] = b[k - Len(a)]
  BY <1>1, BothParts
<1>3. Clean(w)
  BY <1>1, CleanBoth
<1>4. pr = "anthropic" => Framed(w)
  BY <1>1, FramedBoth DEF Regular
<1> HIDE DEF w
<1>5. \A k \in 1..Len(w) : ~Ends(w[k])
  BY <1>2 DEF Regular
<1>6. Regular(pr, w)
  BY <1>3, <1>4, <1>5 DEF Regular
<1> QED
  BY <1>6 DEF w

\* The lines of all blocks together.
LEMMA RegularJoined ==
    ASSUME NEW pr, NEW ss \in Seq(Seq(Line)), \A k \in 1..Len(ss) : Regular(pr, ss[k])
    PROVE  Regular(pr, Joined(ss))
<1> DEFINE R == {s \in Seq(Line) : Regular(pr, s)}
           Good == {l \in Seq(R) : Regular(pr, Joined(l))}
<1>1. ss \in Seq(R)
  <2>1. \A k \in 1..Len(ss) : ss[k] \in R
    BY ElementOfSeq
  <2> HIDE DEF R
  <2> QED BY <2>1, InSeq
<1>2. <<>> \in Good
  <2>1. <<>> \in Seq(R) /\ <<>> \in Seq(Line) /\ Len(<<>>) = 0
    BY EmptySeq
  <2>2. \A k \in 1..Len(<<>>) : FALSE
    BY <2>1
  <2>3. Clean(<<>>) /\ Framed(<<>>)
    BY <2>1, <2>2 DEF Clean, Framed, Aligned
  <2>4. Regular(pr, <<>>)
    BY <2>2, <2>3 DEF Regular
  <2> QED BY <2>1, <2>4, JoinedEmpty
<1>3. ASSUME NEW l \in Seq(R), NEW x \in R, l \in Good PROVE Append(l, x) \in Good
  <2>1. Regular(pr, Joined(l)) /\ Regular(pr, x) /\ x \in Seq(Line)
    BY <1>3
  <2>2. Append(l, x) \in Seq(R)
    BY AppendProperties
  <2>3. l \in Seq(Seq(Line))
    BY SeqMonotonic
  <2>4. Joined(Append(l, x)) = Joined(l) \o x
    BY <2>1, <2>3, JoinedAppend
  <2>5. Regular(pr, Joined(l) \o x)
    BY <2>1, RegularBoth
  <2> QED BY <2>2, <2>4, <2>5
<1> HIDE DEF Good
<1>4. \A s \in Seq(R) : s \in Good
  BY <1>2, <1>3, ListInduction
<1> QED
  BY <1>1, <1>4 DEF Good

\* The reply and its end.
LEMMA OrderlyBoth ==
    ASSUME NEW pr, NEW a, NEW b, Regular(pr, a), Clean(b), pr = "anthropic" => Framed(b),
           \A k \in 1..Len(b) : b[k].items = <<>>
    PROVE  Orderly(pr, a \o b)
<1> DEFINE w == a \o b
<1>1. Clean(a) /\ a \in Seq(Line) /\ b \in Seq(Line)
  BY DEF Regular, Clean
<1>2. /\ Len(w) = Len(a) + Len(b) /\ Len(a) \in Nat /\ Len(b) \in Nat
      /\ \A k \in 1..Len(w) : \/ k \in 1..Len(a) /\ w[k] = a[k]
                              \/ k > Len(a) /\ k - Len(a) \in 1..Len(b) /\ w[k] = b[k - Len(a)]
  BY <1>1, BothParts
<1>3. Clean(w)
  BY <1>1, CleanBoth
<1>4. pr = "anthropic" => Framed(w)
  BY <1>1, FramedBoth DEF Regular
<1> HIDE DEF w
<1>5. ASSUME NEW j \in 1..Len(w), NEW k \in 1..Len(w), j <= k, Ends(w[j])
      PROVE  w[k].items = <<>>
  <2>1. j \notin 1..Len(a)
    <3>1. j > Len(a) => j \notin 1..Len(a)
      BY <1>2
    <3> QED BY <1>2, <1>5, <3>1 DEF Regular
  <2>2. k \notin 1..Len(a)
    BY <1>2, <1>5, <2>1
  <2>3. k - Len(a) \in 1..Len(b) /\ w[k] = b[k - Len(a)]
    BY <1>2, <2>2
  <2> QED BY <2>3
<1>6. Orderly(pr, w)
  BY <1>3, <1>4, <1>5 DEF Orderly, Closed
<1> QED
  BY <1>6 DEF w

Spk == Texts \cup Calls
WholeOf == [c \in Spk |-> Whole(c)]
BlockOf(together) == [c \in Spk |-> Block(c, together)]

\* What is spoken is a text or a call.
LEMMA SpokenKinds ==
    ASSUME NEW c \in Spk
    PROVE  /\ c \in Items
           /\ \/ c.type = "call" /\ c \in Calls /\ Args(c.id) \in Items
              \/ c.type # "call" /\ c \in Texts
<1>1. CASE c \in Texts
  <2>1. c.type = "text"
    BY <1>1 DEF Texts, Text
  <2> QED BY <1>1, <2>1 DEF Items
<1>2. CASE c \in Calls
  <2>1. PICK id \in Names : c = Call(id)
    BY <1>2 DEF Calls
  <2>2. c.type = "call" /\ c.id = id
    BY <2>1 DEF Call
  <2> QED BY <1>2, <2>2 DEF Items
<1> QED
  BY <1>1, <1>2 DEF Spk

\* A text comes as it is, a call with its arguments behind it.
LEMMA WholeIs ==
    /\ Makes(WholeOf, Spk, Seq(Items))
    /\ \A c \in Texts : c \in Spk /\ WholeOf[c] = <<c>>
    /\ \A c \in Calls : c \in Spk /\ WholeOf[c] = <<c, Args(c.id)>>
<1>1. ASSUME NEW c \in Texts PROVE c \in Spk /\ WholeOf[c] = <<c>> /\ c \in Items
  <2>1. c.type = "text"
    BY DEF Texts, Text
  <2> QED BY <2>1, SpokenKinds DEF Spk, Whole, WholeOf
<1>2. ASSUME NEW c \in Calls
      PROVE  c \in Spk /\ WholeOf[c] = <<c, Args(c.id)>> /\ c \in Items /\ Args(c.id) \in Items
  <2>1. PICK id \in Names : c = Call(id)
    BY DEF Calls
  <2>2. c.type = "call" /\ c.id = id
    BY <2>1 DEF Call
  <2> QED BY <2>2 DEF Spk, Whole, WholeOf, Items
<1>3. ASSUME NEW c \in Spk PROVE WholeOf[c] \in Seq(Items)
  <2>1. CASE c \in Texts
    BY <1>1, <2>1, OneIsSeq
  <2>2. CASE c \in Calls
    <3>1. WholeOf[c] = <<c, Args(c.id)>> /\ c \in Items /\ Args(c.id) \in Items
      BY <1>2, <2>2
    <3> DEFINE d == Args(c.id)
    <3> HIDE DEF d
    <3>2. <<c, d>> \in Seq(Items)
      BY <3>1, TwoIsSeq DEF d
    <3> QED BY <3>1, <3>2 DEF d
  <2> QED BY <2>1, <2>2 DEF Spk
<1>4. Makes(WholeOf, Spk, Seq(Items))
  BY <1>3 DEF Makes, WholeOf
<1> QED
  BY <1>1, <1>2, <1>4

-----------------------------------------------------------------------------
(* Anthropic.                                                               *)

\* An event and its data.
LEMMA PartIs ==
    ASSUME NEW name \in {"message_start", "content_block_start", "content_block_delta"},
           NEW items \in Seq(Items), Len(items) <= 1, name = "message_start" => items = <<>>
    PROVE  /\ Regular("anthropic", <<Event(name), Data(items)>>)
           /\ ToCome("anthropic", <<Event(name), Data(items)>>) = items
<1> DEFINE a == Event(name)
           b == Data(items)
           s == <<a, b>>
<1>0. <<>> \in Seq(Items) /\ Len(<<>>) = 0
  BY EmptySeq
<1>1. a \in Line /\ a.items = <<>> /\ a.kind = "event" /\ a.name = name
  BY <1>0 DEF Event, Line, LineKinds, EventNames
<1>2. b \in Line /\ b.items = items /\ b.kind = "data" /\ b.name = ""
  BY DEF Data, Line, LineKinds, EventNames
<1> HIDE DEF a, b
<1>3. s \in Seq(Line) /\ Len(s) = 2 /\ s[1] = a /\ s[2] = b /\ s # <<>>
  BY <1>1, <1>2, TwoIsSeq
<1>4. Tail(s) = <<b>>
  OBVIOUS
<1> HIDE DEF s
<1>5. \A k \in 1..Len(s) : (k = 1 /\ s[k] = a) \/ (k = 2 /\ s[k] = b)
  BY <1>3
<1>6. Clean(s) /\ \A k \in 1..Len(s) : ~Ends(s[k])
  <2>1. ~Strange(a) /\ a.name # "error" /\ ~Ends(a) /\ ~Strange(b) /\ b.name # "error" /\ ~Ends(b)
    BY <1>1, <1>2 DEF Strange, Strangers, Ends
  <2> QED BY <1>1, <1>2, <1>3, <1>5, <2>1 DEF Clean
<1>7. Framed(s)
  <2>1. \A k \in 1..Len(s) : Len(s[k].items) <= 1 /\ (k = Len(s) => s[k].kind # "event")
    <3>1. Len(a.items) <= 1 /\ Len(b.items) <= 1 /\ b.kind # "event" /\ Len(s) = 2 /\ 1 # 2
      <4>1. Len(a.items) <= 1
        <5>1. Len(a.items) = 0
          BY <1>0, <1>1
        <5> QED BY <5>1
      <4>2. Len(b.items) <= 1
        BY <1>2
      <4>3. Len(s) = 2
        BY <1>3
      <4>4. b.kind # "event"
        BY <1>2
      <4>5. 1 # 2
        OBVIOUS
      <4> QED BY <4>1, <4>2, <4>3, <4>4, <4>5
    <3>2. ASSUME NEW k \in 1..Len(s) PROVE Len(s[k].items) <= 1 /\ (k = Len(s) => s[k].kind # "event")
      <4>1. CASE k = 1 /\ s[k] = a
        BY <3>1, <4>1
      <4>2. CASE k = 2 /\ s[k] = b
        BY <3>1, <4>2
      <4> QED BY <1>5, <4>1, <4>2
    <3> QED BY <3>2
  <2>2. ASSUME NEW k \in 1..Len(s), k + 1 \in 1..Len(s)
        PROVE  (s[k + 1].items # <<>> => IsBlock(s[k])) /\ s[k + 1].kind # "event"
    <3>1. k = 1
      BY <1>3, <2>2
    <3>2. s[k] = a /\ s[k + 1] = b
      BY <1>3, <3>1
    <3> QED BY <1>1, <1>2, <3>2 DEF IsBlock
  <2>3. Aligned(s)
    BY <1>1, <1>3 DEF Aligned
  <2> QED BY <2>1, <2>2, <2>3 DEF Framed
<1>8. ToCome("anthropic", s) = items
  <2> DEFINE t == Tail(s)
             A == "anthropic"
  <2>1. t \in Seq(Line) /\ t # <<>> /\ t[1] = b /\ Tail(t) = <<>>
    <3>1. <<b>> \in Seq(Line) /\ <<b>> # <<>> /\ <<b>>[1] = b
      BY <1>2, OneIsSeq
    <3>2. Tail(<<b>>) = <<>>
      OBVIOUS
    <3> QED BY <1>4, <3>1, <3>2
  <2>2. Brings(A)[a] = <<>> /\ Brings(A)[b] = items
    BY <1>1, <1>2 DEF Brings
  <2>3. ToCome(A, s) = Brings(A)[a] \o ToCome(A, t)
    BY <1>3, ToComeFirst
  <2>4. ToCome(A, t) = Brings(A)[b] \o ToCome(A, <<>>)
    <3> HIDE DEF t
    <3>1. ToCome(A, t) = Brings(A)[t[1]] \o ToCome(A, Tail(t))
      BY <2>1, ToComeFirst
    <3> QED BY <2>1, <3>1
  <2>5. ToCome(A, <<>>) = <<>>
    BY EachEmpty, JoinedEmpty DEF ToCome
  <2>6. ToCome(A, t) = items
    BY <2>2, <2>4, <2>5, ConcatEmptySeq
  <2> HIDE DEF t, A
  <2>7. ToCome(A, s) = <<>> \o items
    BY <2>2, <2>3, <2>6
  <2> QED BY <2>7, ConcatEmptySeq DEF A
<1> QED
  BY <1>6, <1>7, <1>8 DEF Regular, s, a, b

\* The lines of a block bring the whole of what it is about.
LEMMA BlockIs ==
    ASSUME NEW c \in Spk, NEW together \in BOOLEAN
    PROVE  Regular("anthropic", Block(c, together)) /\ ToCome("anthropic", Block(c, together)) = WholeOf[c]
<1> DEFINE A == "anthropic"
           part(name, items) == <<Event(name), Data(items)>>
           st(items) == part("content_block_start", items)
           de(items) == part("content_block_delta", items)
<1>0. <<>> \in Seq(Items) /\ Len(<<>>) = 0
  BY EmptySeq
<1>1. \A items \in Seq(Items) : Len(items) <= 1 =>
        /\ Regular(A, st(items)) /\ ToCome(A, st(items)) = items
        /\ Regular(A, de(items)) /\ ToCome(A, de(items)) = items
  BY PartIs
<1>2. \A x \in Items : <<x>> \in Seq(Items) /\ Len(<<x>>) <= 1
  BY OneIsSeq
<1> HIDE DEF st, de, A
<1>3. ASSUME NEW i \in Seq(Items), Len(i) <= 1, NEW j \in Seq(Items), Len(j) <= 1
      PROVE  Regular(A, st(i) \o de(j)) /\ ToCome(A, st(i) \o de(j)) = i \o j
  <2>1. Regular(A, st(i)) /\ Regular(A, de(j)) /\ ToCome(A, st(i)) = i /\ ToCome(A, de(j)) = j
    BY <1>1, <1>3
  <2>2. st(i) \in Seq(Line) /\ de(j) \in Seq(Line)
    BY <2>1 DEF Regular, Clean
  <2>3. ToCome(A, st(i) \o de(j)) = ToCome(A, st(i)) \o ToCome(A, de(j))
    BY <2>2, ToComeBoth
  <2> QED BY <2>1, <2>3, RegularBoth
<1>4. CASE c \in Calls
  <2> DEFINE i == <<c>>
             j == <<Args(c.id)>>
  <2>1. c.type = "call" /\ c \in Items /\ Args(c.id) \in Items
    <3>1. c \notin Texts
      BY <1>4, KindsApart
    <3> QED BY <3>1, SpokenKinds
  <2>2. WholeOf[c] = i \o j
    <3>1. WholeOf[c] = <<c, Args(c.id)>>
      BY <1>4, WholeIs
    <3>2. <<c, Args(c.id)>> = <<c>> \o <<Args(c.id)>>
      BY <2>1, TwoIsSeq
    <3> QED BY <3>1, <3>2
  <2>3. Block(c, together) = st(i) \o de(j)
    BY <2>1 DEF Block, st, de
  <2>4. i \in Seq(Items) /\ Len(i) <= 1 /\ j \in Seq(Items) /\ Len(j) <= 1
    BY <1>2, <2>1
  <2> HIDE DEF i, j
  <2>5. Regular(A, st(i) \o de(j)) /\ ToCome(A, st(i) \o de(j)) = i \o j
    BY <1>3, <2>4
  <2> QED BY <2>2, <2>3, <2>5 DEF A
<1>5. CASE c \in Texts
  <2> DEFINE i == <<c>>
             o == <<>>
  <2>1. c.type # "call" /\ c \in Items
    <3>1. c \notin Calls
      BY <1>5, KindsApart
    <3> QED BY <3>1, SpokenKinds
  <2>2. WholeOf[c] = i
    BY <1>5, WholeIs
  <2>3. i \in Seq(Items) /\ Len(i) <= 1 /\ o \in Seq(Items) /\ Len(o) <= 1
    BY <1>0, <1>2, <2>1
  <2>4. CASE together
    <3>1. Block(c, together) = st(i)
      BY <2>1, <2>4, Zenon DEF Block, st
    <3> HIDE DEF i
    <3> QED BY <1>1, <2>2, <2>3, <3>1 DEF A
  <2>5. CASE ~together
    <3>1. Block(c, together) = st(o) \o de(i)
      BY <2>1, <2>5, Zenon DEF Block, st, de
    <3>2. o \o i = i
      BY <2>3, ConcatEmptySeq
    <3> HIDE DEF i, o
    <3>3. Regular(A, st(o) \o de(i)) /\ ToCome(A, st(o) \o de(i)) = o \o i
      BY <1>3, <2>3
    <3> QED BY <2>2, <3>1, <3>2, <3>3 DEF A
  <2> QED BY <2>4, <2>5
<1> QED
  BY <1>4, <1>5 DEF Spk

\* An end has no content and is nothing strange.
LEMMA EndLines ==
    ASSUME NEW s \in Seq(Line),
           \A k \in 1..Len(s) : s[k].items = <<>> /\ s[k].kind \notin Strangers /\ s[k].name # "error"
    PROVE  Clean(s) /\ \A pr : ToCome(pr, s) = <<>>
<1>1. Clean(s)
  BY DEF Clean, Strange
<1> QED
  BY <1>1, NothingToCome

\* The last four lines of a reply from Anthropic.
LEMMA EndOfAnthropic ==
    LET s == <<Event("message_delta"), Finish, Event("message_stop"), Data(<<>>)>> IN
      /\ s \in Seq(Line) /\ Clean(s) /\ Framed(s) /\ ToCome("anthropic", s) = <<>>
      /\ \A k \in 1..Len(s) : s[k].items = <<>>
<1> DEFINE a == Event("message_delta")
           b == Finish
           c == Event("message_stop")
           d == Data(<<>>)
           s == <<a, b, c, d>>
<1>0. <<>> \in Seq(Items) /\ Len(<<>>) = 0
  BY EmptySeq
<1>1. a \in Line /\ a.items = <<>> /\ a.kind = "event" /\ a.name = "message_delta"
  BY <1>0 DEF Event, Line, LineKinds, EventNames
<1>2. b \in Line /\ b.items = <<>> /\ b.kind = "finish" /\ b.name = ""
  BY <1>0 DEF Finish, Line, LineKinds, EventNames
<1>3. c \in Line /\ c.items = <<>> /\ c.kind = "event" /\ c.name = "message_stop"
  BY <1>0 DEF Event, Line, LineKinds, EventNames
<1>4. d \in Line /\ d.items = <<>> /\ d.kind = "data" /\ d.name = ""
  BY <1>0 DEF Data, Line, LineKinds, EventNames
<1> HIDE DEF a, b, c, d
<1>5. s \in Seq(Line) /\ Len(s) = 4 /\ s[1] = a /\ s[2] = b /\ s[3] = c /\ s[4] = d
  <2>1. a \in Line /\ b \in Line /\ c \in Line /\ d \in Line
    BY <1>1, <1>2, <1>3, <1>4
  <2> QED BY <2>1
<1> HIDE DEF s
<1>6. \A k \in 1..Len(s) : \/ k = 1 /\ s[k] = a
                           \/ k = 2 /\ s[k] = b
                           \/ k = 3 /\ s[k] = c
                           \/ k = 4 /\ s[k] = d
  BY <1>5
<1>7. \A k \in 1..Len(s) : s[k].items = <<>>
  BY <1>1, <1>2, <1>3, <1>4, <1>6, Zenon
<1>8. \A k \in 1..Len(s) : s[k].kind \notin Strangers /\ s[k].name # "error"
  <2>1. \A x \in {a, b, c, d} : x.kind \notin Strangers /\ x.name # "error"
    BY <1>1, <1>2, <1>3, <1>4 DEF Strangers
  <2>2. \A k \in 1..Len(s) : s[k] \in {a, b, c, d}
    BY <1>6, Zenon
  <2> QED BY <2>1, <2>2, Zenon
<1>9. Clean(s) /\ ToCome("anthropic", s) = <<>>
  BY <1>5, <1>7, <1>8, EndLines
<1>10. Framed(s)
  <2>1. \A k \in 1..Len(s) : Len(s[k].items) <= 1
    <3>1. Len(<<>>) <= 1
      BY <1>0
    <3> QED BY <1>7, <3>1
  <2>2. \A k \in 1..Len(s) : s[k].kind = "event" => k \in {1, 3}
    <3>1. b.kind # "event" /\ d.kind # "event"
      BY <1>2, <1>4
    <3> QED BY <1>6, <3>1
  <2>3. \A k \in 1..Len(s) : k = Len(s) => s[k].kind # "event"
    BY <1>5, <2>2
  <2>4. \A k \in 1..Len(s) : k + 1 \in 1..Len(s) =>
          s[k + 1].items = <<>> /\ (s[k].kind = "event" => s[k + 1].kind # "event")
    BY <1>5, <1>7, <2>2
  <2>5. Aligned(s)
    <3>1. 1 \in 1..Len(s)
      BY <1>5
    <3> QED BY <1>7, <3>1 DEF Aligned
  <2> QED BY <2>1, <2>3, <2>4, <2>5 DEF Framed
<1> QED
  BY <1>5, <1>7, <1>9, <1>10, Zenon DEF s, a, b, c, d

\* What Anthropic sends for what was said.
LEMMA AnthropicSends ==
    ASSUME NEW said, Spoken(said) \in Seq(Spk), NEW together \in BOOLEAN
    PROVE  /\ Orderly("anthropic", AnthropicLines(said, together))
           /\ ToCome("anthropic", AnthropicLines(said, together)) = Joined(Each(WholeOf, Spoken(said)))
<1> DEFINE A == "anthropic"
           sp == Spoken(said)
           B == BlockOf(together)
           blocks == Each(B, sp)
           h == <<Event("message_start"), Data(<<>>)>>
           mid == Joined(blocks)
           t == <<Event("message_delta"), Finish, Event("message_stop"), Data(<<>>)>>
<1>1. Makes(B, Spk, Seq(Line)) /\ \A c \in Spk : B[c] = Block(c, together) /\ Regular(A, B[c])
                                                 /\ ToCome(A, B[c]) = WholeOf[c]
  <2>1. ASSUME NEW c \in Spk
        PROVE  B[c] = Block(c, together) /\ Regular(A, B[c]) /\ ToCome(A, B[c]) = WholeOf[c]
    <3>1. B[c] = Block(c, together)
      BY DEF BlockOf
    <3> QED BY <3>1, BlockIs
  <2>2. \A c \in Spk : B[c] \in Seq(Line)
    BY <2>1 DEF Regular, Clean
  <2>3. DOMAIN B = Spk /\ B = [c \in Spk |-> B[c]]
    BY DEF BlockOf
  <2> HIDE DEF B
  <2>4. Makes(B, Spk, Seq(Line))
    BY <2>2, <2>3 DEF Makes
  <2> QED BY <2>1, <2>4
<1>2. sp \in Seq(Spk) /\ DOMAIN sp = 1..Len(sp)
  BY LenProperties
<1>3. AnthropicLines(said, together) = (h \o mid) \o t
  <2>1. blocks = [k \in DOMAIN sp |-> Block(sp[k], together)]
    <3>1. \A k \in DOMAIN sp : sp[k] \in Spk
      BY <1>2, ElementOfSeq
    <3>2. \A k \in DOMAIN sp : B[sp[k]] = Block(sp[k], together)
      BY <1>1, <3>1
    <3> HIDE DEF sp, B
    <3> QED BY <3>2 DEF Each
  <2>2. AnthropicLines(said, together) = (h \o Joined([k \in DOMAIN sp |-> Block(sp[k], together)])) \o t
    BY DEF AnthropicLines
  <2> HIDE DEF blocks, h, t, sp
  <2> QED BY <2>1, <2>2
<1>4. Regular(A, h) /\ ToCome(A, h) = <<>>
  <2>1. <<>> \in Seq(Items) /\ Len(<<>>) <= 1
    <3>1. <<>> \in Seq(Items) /\ Len(<<>>) = 0
      BY EmptySeq
    <3> QED BY <3>1
  <2> QED BY <2>1, PartIs
<1>5. t \in Seq(Line) /\ Clean(t) /\ Framed(t) /\ ToCome(A, t) = <<>>
      /\ \A k \in 1..Len(t) : t[k].items = <<>>
  BY EndOfAnthropic
<1> HIDE DEF sp, B, h, t
<1>6. blocks \in Seq(Seq(Line)) /\ Len(blocks) = Len(sp) /\ \A k \in 1..Len(sp) : blocks[k] = B[sp[k]]
  <2>1. Makes(B, Spk, Seq(Line)) /\ sp \in Seq(Spk)
    BY <1>1, <1>2
  <2> QED BY <2>1, EachIsSeq
<1>7. Regular(A, mid)
  <2>1. \A k \in 1..Len(blocks) : Regular(A, blocks[k])
    <3>1. \A k \in 1..Len(sp) : sp[k] \in Spk
      BY <1>2, ElementOfSeq
    <3> HIDE DEF blocks, A
    <3> QED BY <1>1, <1>6, <3>1
  <2> HIDE DEF blocks
  <2> QED BY <1>6, <2>1, RegularJoined
<1>8. ToCome(A, mid) = Joined(Each(WholeOf, sp))
  <2> DEFINE F == Brings(A)
             G == [p \in Seq(Line) |-> Joined(Each(F, p))]
  <2>1. Joined(Each(F, Joined(blocks))) = Joined(Each(G, blocks))
    <3>1. Makes(F, Line, Seq(Items))
      BY BringsItems
    <3> HIDE DEF F, blocks
    <3> QED BY <1>6, <3>1, JoinedJoined
  <2>2. Each(G, blocks) = Each(WholeOf, sp)
    <3>1. ASSUME NEW k \in 1..Len(sp) PROVE G[blocks[k]] = WholeOf[sp[k]]
      <4>1. sp[k] \in Spk /\ blocks[k] = B[sp[k]]
        BY <1>2, <1>6, ElementOfSeq
      <4>2. blocks[k] \in Seq(Line) /\ ToCome(A, blocks[k]) = WholeOf[sp[k]]
        BY <1>1, <4>1 DEF Regular, Clean
      <4> HIDE DEF blocks
      <4> QED BY <4>2 DEF ToCome
    <3>2. DOMAIN blocks = 1..Len(sp) /\ DOMAIN sp = 1..Len(sp)
      <4> HIDE DEF blocks
      <4> QED BY <1>2, <1>6, LenProperties
    <3> HIDE DEF blocks, G
    <3> QED BY <3>1, <3>2 DEF Each
  <2> QED BY <2>1, <2>2 DEF ToCome
<1> HIDE DEF mid, A
<1>9. Regular(A, h \o mid)
  BY <1>4, <1>7, RegularBoth
<1>10. Orderly(A, (h \o mid) \o t)
  <2> DEFINE w == h \o mid
  <2>1. Regular(A, w)
    BY <1>9
  <2> HIDE DEF w
  <2>2. Orderly(A, w \o t)
    BY <1>5, <2>1, OrderlyBoth
  <2> QED BY <2>2 DEF w
<1>11. ToCome(A, (h \o mid) \o t) = Joined(Each(WholeOf, sp))
  <2> DEFINE w == h \o mid
             j == Joined(Each(WholeOf, sp))
  <2>1. h \in Seq(Line) /\ mid \in Seq(Line) /\ w \in Seq(Line)
    BY <1>4, <1>7, <1>9 DEF Regular, Clean
  <2>2. j \in Seq(Items)
    BY <1>2, WholeIs, JoinedEachIsSeq
  <2>3. ToCome(A, w) = ToCome(A, h) \o ToCome(A, mid)
    BY <2>1, ToComeBoth
  <2>4. ToCome(A, w \o t) = ToCome(A, w) \o ToCome(A, t)
    <3> HIDE DEF w
    <3> QED BY <1>5, <2>1, ToComeBoth
  <2> HIDE DEF j, w
  <2>5. ToCome(A, mid) = j
    BY <1>8 DEF j
  <2>6. ToCome(A, w) = j
    BY <1>4, <2>2, <2>3, <2>5, ConcatEmptySeq
  <2>7. ToCome(A, w \o t) = j
    BY <1>5, <2>2, <2>4, <2>6, ConcatEmptySeq
  <2> QED BY <2>7 DEF w, j
<1> QED
  BY <1>3, <1>10, <1>11 DEF A, sp

-----------------------------------------------------------------------------
(* OpenAI.                                                                  *)

DataLines == {l \in Line : l.kind = "data" /\ l.name = ""}
DataOf    == [x \in Items |-> Data(<<x>>)]

\* A line of data.
LEMMA DataIs ==
    ASSUME NEW items \in Seq(Items)
    PROVE  Data(items) \in DataLines /\ Data(items).items = items
  BY DEF Data, DataLines, Line, LineKinds, EventNames

\* OpenAI's lines before the end are data only.
LEMMA DataRegular ==
    ASSUME NEW s \in Seq(DataLines)
    PROVE  Regular("openai", s) /\ s \in Seq(Line)
<1>1. \A l \in DataLines : l \in Line /\ ~Strange(l) /\ l.name # "error" /\ ~Ends(l) /\ l.kind = "data"
  BY DEF DataLines, Strange, Strangers, Ends
<1>2. \A k \in 1..Len(s) : s[k] \in DataLines
  BY ElementOfSeq
<1>3. s \in Seq(Line)
  <2>1. DataLines \subseteq Line
    BY <1>1
  <2> QED BY <2>1, SeqMonotonic
<1>4. \A k \in 1..Len(s) : ~Strange(s[k]) /\ s[k].name # "error" /\ ~Ends(s[k]) /\ s[k].kind = "data"
  BY <1>1, <1>2
<1>5. Clean(s)
  BY <1>3, <1>4 DEF Clean
<1> QED
  BY <1>3, <1>4, <1>5 DEF Regular

\* One thing in a line arrives.
LEMMA LastOfOne ==
    ASSUME NEW x \in Items
    PROVE  LastCall(<<x>>) = <<x>>
<1> DEFINE s == <<x>>
           w == Within(s, Calls)
<1>1. s \in Seq(Items) /\ Len(s) = 1 /\ s[1] = x /\ s # <<>>
  BY OneIsSeq
<1>2. \A S : Within(s, S) = IF x \in S THEN s ELSE <<>>
  BY WithinOne
<1>3. CASE x \in Calls
  <2>1. w = s
    BY <1>2, <1>3
  <2>2. Last(s) = x
    BY <1>1 DEF Last
  <2>3. Within(s, Texts \cup {x, Args(x.id)}) = s
    BY <1>2
  <2> HIDE DEF s, w
  <2>4. LastCall(s) = IF w = <<>> THEN s ELSE Within(s, Texts \cup {Last(w), Args(Last(w).id)})
    BY DEF LastCall, w
  <2> QED BY <1>1, <2>1, <2>2, <2>3, <2>4 DEF s
<1>4. CASE x \notin Calls
  <2>1. w = <<>>
    BY <1>2, <1>4
  <2> HIDE DEF s, w
  <2>2. LastCall(s) = IF w = <<>> THEN s ELSE Within(s, Texts \cup {Last(w), Args(Last(w).id)})
    BY DEF LastCall, w
  <2> QED BY <2>1, <2>2 DEF s
<1> QED
  BY <1>3, <1>4

\* Each thing in a line of its own.
LEMMA SinglesCome ==
    ASSUME NEW s \in Seq(Items)
    PROVE  /\ [k \in DOMAIN s |-> Data(<<s[k]>>)] \in Seq(DataLines)
           /\ ToCome("openai", [k \in DOMAIN s |-> Data(<<s[k]>>)]) = s
<1> DEFINE d == [k \in DOMAIN s |-> Data(<<s[k]>>)]
           F == Brings("openai")
           O == [x \in Items |-> <<x>>]
<1>1. DOMAIN s = 1..Len(s) /\ Len(s) \in Nat /\ \A k \in 1..Len(s) : s[k] \in Items
  BY LenProperties, ElementOfSeq
<1>2. Makes(DataOf, Items, DataLines) /\ \A x \in Items : DataOf[x] = Data(<<x>>)
  <2>1. \A x \in Items : <<x>> \in Seq(Items)
    BY OneIsSeq
  <2> QED BY <2>1, DataIs DEF Makes, DataOf
<1>3. d = Each(DataOf, s)
  BY <1>1, <1>2 DEF Each
<1> HIDE DEF d
<1>4. d \in Seq(DataLines) /\ Len(d) = Len(s) /\ \A k \in 1..Len(s) : d[k] = Data(<<s[k]>>)
  <2>1. /\ Each(DataOf, s) \in Seq(DataLines) /\ Len(Each(DataOf, s)) = Len(s)
        /\ \A k \in 1..Len(s) : Each(DataOf, s)[k] = DataOf[s[k]]
    BY <1>2, EachIsSeq
  <2> QED BY <1>1, <1>2, <1>3, <2>1
<1>5. Each(F, d) = Each(O, s)
  <2>1. ASSUME NEW k \in 1..Len(s) PROVE F[d[k]] = O[s[k]]
    <3> DEFINE x == s[k]
    <3>1. x \in Items /\ <<x>> \in Seq(Items) /\ d[k] = Data(<<x>>)
      BY <1>1, <1>4, OneIsSeq
    <3>2. Data(<<x>>) \in Line /\ Data(<<x>>).items = <<x>>
      BY <3>1, DataIs DEF DataLines
    <3>3. LastCall(<<x>>) = <<x>>
      BY <3>1, LastOfOne
    <3>4. F[d[k]] = LastCall(<<x>>)
      BY <3>1, <3>2 DEF Brings
    <3> QED BY <3>1, <3>3, <3>4
  <2>2. DOMAIN d = 1..Len(s)
    BY <1>4, LenProperties
  <2> HIDE DEF F, O
  <2> QED BY <1>1, <2>1, <2>2 DEF Each
<1>6. Joined(Each(O, s)) = s
  BY JoinedSingles
<1> QED
  BY <1>4, <1>5, <1>6 DEF ToCome, d

\* Everything in one line.
LEMMA OneLineComes ==
    ASSUME NEW items \in Seq(Items)
    PROVE  /\ <<Data(items)>> \in Seq(DataLines)
           /\ ToCome("openai", <<Data(items)>>) = LastCall(items)
<1> DEFINE l == Data(items)
           F == Brings("openai")
<1>1. l \in DataLines /\ l.items = items /\ l \in Line
  BY DataIs DEF DataLines
<1> HIDE DEF l
<1>2. <<l>> \in Seq(DataLines)
  BY <1>1, OneIsSeq
<1>3. F[l] = LastCall(items) /\ F[l] \in Seq(Items)
  <2>1. Makes(F, Line, Seq(Items))
    BY BringsItems
  <2>2. F[l] = LastCall(items)
    BY <1>1 DEF Brings
  <2> HIDE DEF F
  <2> QED BY <1>1, <2>1, <2>2, OneMade
<1>4. Each(F, <<l>>) = <<F[l]>>
  <2>1. Makes(F, Line, Seq(Items))
    BY BringsItems
  <2> HIDE DEF F
  <2> QED BY <1>1, <2>1, EachOne
<1>5. Joined(<<F[l]>>) = F[l]
  <2> DEFINE x == F[l]
  <2>1. x \in Seq(Items)
    BY <1>3
  <2> HIDE DEF x
  <2>2. Joined(<<x>>) = x
    BY <2>1, JoinedOne
  <2> QED BY <2>2 DEF x
<1> QED
  BY <1>2, <1>3, <1>4, <1>5 DEF ToCome, l

\* The last two lines of a reply from OpenAI.
LEMMA EndOfOpenAI ==
    LET s == <<Finish, EndMark>> IN
      s \in Seq(Line) /\ Clean(s) /\ ToCome("openai", s) = <<>> /\ \A k \in 1..Len(s) : s[k].items = <<>>
<1> DEFINE s == <<Finish, EndMark>>
<1>0. <<>> \in Seq(Items)
  BY EmptySeq
<1>1. Finish \in Line /\ Finish.items = <<>> /\ Finish.kind \notin Strangers /\ Finish.name # "error"
  BY <1>0 DEF Finish, Line, LineKinds, EventNames, Strangers
<1>2. EndMark \in Line /\ EndMark.items = <<>> /\ EndMark.kind \notin Strangers /\ EndMark.name # "error"
  BY <1>0 DEF EndMark, Line, LineKinds, EventNames, Strangers
<1>3. s \in Seq(Line) /\ Len(s) = 2 /\ s[1] = Finish /\ s[2] = EndMark
  BY <1>1, <1>2, TwoIsSeq
<1> HIDE DEF s
<1>4. \A k \in 1..Len(s) : s[k] = Finish \/ s[k] = EndMark
  BY <1>3
<1>5. \A k \in 1..Len(s) : s[k].items = <<>> /\ s[k].kind \notin Strangers /\ s[k].name # "error"
  BY <1>1, <1>2, <1>4, Zenon
<1> QED
  BY <1>3, <1>5, EndLines DEF s

\* A list that is not empty, and its last element.
LEMMA AllButLast ==
    ASSUME NEW T, NEW s \in Seq(T), s # <<>>
    PROVE  \E f \in Seq(T), c \in T :
             /\ s = f \o <<c>> /\ Last(s) = c /\ Len(s) = Len(f) + 1 /\ Len(f) \in Nat
             /\ s[Len(f) + 1] = c /\ \A k \in 1..Len(f) : s[k] = f[k]
<1>1. PICK f \in Seq(T), c \in T : s = Append(f, c)
  BY SequenceEmptyOrAppend
<1>2. Append(f, c) = f \o <<c>>
  BY AppendIsConcat
<1>3. Len(s) = Len(f) + 1 /\ s[Len(f) + 1] = c /\ \A k \in 1..Len(f) : s[k] = f[k]
  BY <1>1, AppendProperties
<1>4. Len(f) \in Nat
  BY LenProperties
<1>5. Last(s) = c
  BY <1>3 DEF Last
<1> QED
  BY <1>1, <1>2, <1>3, <1>4, <1>5

LEMMA LastOfBoth ==
    ASSUME NEW T, NEW f \in Seq(T), NEW c \in T
    PROVE  Last(f \o <<c>>) = c /\ f \o <<c>> # <<>> /\ f \o <<c>> \in Seq(T)
<1>1. f \o <<c>> = Append(f, c)
  BY AppendIsConcat
<1>2. /\ Append(f, c) \in Seq(T) /\ Append(f, c) # <<>>
      /\ Len(Append(f, c)) = Len(f) + 1 /\ Append(f, c)[Len(f) + 1] = c
  BY AppendProperties
<1> DEFINE w == Append(f, c)
<1> HIDE DEF w
<1>3. Last(w) = c
  BY <1>2 DEF Last, w
<1> QED
  BY <1>1, <1>2, <1>3 DEF w

\* Arguments are neither texts nor calls, and different for each call.
LEMMA ArgsApart ==
    ASSUME NEW c \in Calls
    PROVE  /\ Args(c.id) \in Items /\ c \in Items /\ c \in Spk
           /\ Args(c.id) \notin Texts \cup Calls
           /\ \A f \in Calls : f # c => Args(f.id) # Args(c.id) /\ Args(f.id) # c
<1>1. \A f \in Calls : f = Call(f.id) /\ f.id \in Names
  BY DEF Calls, Call
<1>2. \A s, t : (Args(s) = Args(t) => s = t) /\ Args(s) # Call(t) /\ Args(s) # Text(t)
  BY DEF Args, Call, Text
<1>3. Args(c.id) \notin Texts \cup Calls
  BY <1>2 DEF Texts, Calls
<1>4. ASSUME NEW f \in Calls, f # c PROVE Args(f.id) # Args(c.id) /\ Args(f.id) # c
  BY <1>1, <1>2, <1>4
<1> QED
  BY <1>1, <1>3, <1>4 DEF Items, Spk

\* Of several calls in one line only the last one arrives.
LEMMA LastCallArrives ==
    ASSUME NEW c \in Calls, NEW f \in Seq(Calls \ {c})
    PROVE  LastCall(Joined(Each(WholeOf, f \o <<c>>))) = <<c, Args(c.id)>>
<1> DEFINE a == Args(c.id)
           j == Joined(Each(WholeOf, f))
           e == <<c, a>>
           w == j \o e
           U == Items \ (Texts \cup {c, a})
           o == <<c>>
<1>1. a \in Items /\ c \in Items /\ a \notin Texts \cup Calls /\ c \in Spk
  BY ArgsApart
<1>2. f \in Seq(Spk) /\ o \in Seq(Spk)
  <2>1. Calls \ {c} \subseteq Spk
    BY DEF Spk
  <2> QED BY <1>1, <2>1, SeqMonotonic, OneIsSeq
<1>3. j \in Seq(U)
  <2> DEFINE C == Calls \ {c}
             G == [x \in C |-> WholeOf[x]]
  <2>1. \A x \in C : G[x] \in Seq(U)
    <3> TAKE x \in C
    <3> DEFINE b == Args(x.id)
    <3>1. WholeOf[x] = <<x, b>>
      BY WholeIs
    <3>2. x \in U /\ b \in U
      <4>1. x \in Items /\ b \in Items /\ b \notin Texts
        BY ArgsApart
      <4>2. x \notin Texts /\ x # c /\ x # a
        BY <1>1, KindsApart
      <4>3. b # a /\ b # c
        BY ArgsApart
      <4> HIDE DEF a, b
      <4> QED BY <4>1, <4>2, <4>3
    <3> HIDE DEF b, U
    <3>3. <<x, b>> \in Seq(U)
      BY <3>2, TwoIsSeq
    <3> QED BY <3>1, <3>3
  <2>2. Makes(G, C, Seq(U))
    BY <2>1 DEF Makes
  <2>3. Each(G, f) = Each(WholeOf, f)
    <3>1. \A x \in C : G[x] = WholeOf[x]
      OBVIOUS
    <3> HIDE DEF G
    <3> QED BY <3>1, EachSame
  <2> HIDE DEF G, C, U
  <2>4. Joined(Each(G, f)) \in Seq(U)
    BY <2>2, JoinedEachIsSeq DEF C
  <2> QED BY <2>3, <2>4
<1>4. Joined(Each(WholeOf, f \o o)) = w
  <2>1. Joined(Each(WholeOf, f \o o)) = Joined(Each(WholeOf, f)) \o Joined(Each(WholeOf, o))
    <3> HIDE DEF o
    <3> QED BY <1>2, WholeIs, JoinedBoth
  <2>2. Each(WholeOf, o) = <<WholeOf[c]>>
    BY <1>1, WholeIs, EachOne
  <2>3. WholeOf[c] = e /\ WholeOf[c] \in Seq(Items)
    BY <1>1, WholeIs, OneMade
  <2>4. Joined(<<WholeOf[c]>>) = WholeOf[c]
    <3> DEFINE x == WholeOf[c]
    <3>1. x \in Seq(Items)
      BY <2>3
    <3> HIDE DEF x
    <3>2. Joined(<<x>>) = x
      BY <3>1, JoinedOne
    <3> QED BY <3>2 DEF x
  <2> QED BY <2>1, <2>2, <2>3, <2>4
<1>5. e \in Seq(Items) /\ e = o \o <<a>> /\ o \in Seq(Items) /\ <<a>> \in Seq(Items) /\ j \in Seq(Items)
  <2>1. U \subseteq Items
    OBVIOUS
  <2>2. j \in Seq(Items)
    <3> HIDE DEF j, U
    <3> QED BY <1>3, <2>1, SeqMonotonic
  <2>3. e \in Seq(Items) /\ e = o \o <<a>>
    <3> HIDE DEF a
    <3> QED BY <1>1, TwoIsSeq
  <2> QED BY <1>1, <2>2, <2>3, OneIsSeq
<1>6. \A S : Within(w, S) = Within(j, S) \o Within(e, S)
  <2> TAKE S
  <2>1. j \in Seq(Items) /\ e \in Seq(Items)
    BY <1>5
  <2> HIDE DEF j, e
  <2> QED BY <2>1, WithinConcat
<1>7. \A S : Within(o, S) = IF c \in S THEN o ELSE <<>>
  BY <1>1, WithinOne
<1>8. \A S : Within(<<a>>, S) = IF a \in S THEN <<a>> ELSE <<>>
  BY <1>1, WithinOne
<1>9. \A S : Within(e, S) = Within(o, S) \o Within(<<a>>, S)
  <2> DEFINE p == <<a>>
  <2> HIDE DEF o, p
  <2>0. o \in Seq(Items) /\ p \in Seq(Items)
    BY <1>5 DEF p
  <2>1. \A S : Within(o \o p, S) = Within(o, S) \o Within(p, S)
    BY <2>0, WithinConcat
  <2>2. e = o \o p
    BY <1>5 DEF p
  <2> HIDE DEF e
  <2> QED BY <2>1, <2>2 DEF p
<1>10. Within(e, Calls) = o
  <2>1. Within(e, Calls) = o \o <<>>
    BY <1>1, <1>7, <1>8, <1>9
  <2> QED BY <1>5, <2>1, ConcatEmptySeq
<1> DEFINE S0 == Texts \cup {c, a}
           jc == Within(j, Calls)
           wc == Within(w, Calls)
<1>11. Within(e, S0) = e
  <2>0. c \in S0 /\ a \in S0
    OBVIOUS
  <2> HIDE DEF S0, e, o, a
  <2>1. Within(e, S0) = o \o <<a>>
    BY <1>7, <1>8, <1>9, <2>0
  <2> QED BY <1>5, <2>1
<1>12. Within(j, S0) = <<>>
  <2>1. U \cap S0 = {}
    OBVIOUS
  <2> HIDE DEF j, U, S0
  <2> QED BY <1>3, <2>1, WithinNone
<1>13. Within(w, S0) = e
  <2>1. Within(w, S0) = <<>> \o e
    BY <1>6, <1>11, <1>12
  <2> QED BY <1>5, <2>1, ConcatEmptySeq
<1>14. wc # <<>> /\ Last(wc) = c
  <2>1. wc = jc \o o
    BY <1>6, <1>10
  <2>2. jc \in Seq(Items)
    <3> HIDE DEF j
    <3> QED BY <1>5, WithinIsPart
  <2> HIDE DEF jc, wc
  <2> QED BY <1>1, <2>1, <2>2, LastOfBoth
<1> HIDE DEF w, wc, e, S0
<1>15. LastCall(w) = Within(w, Texts \cup {Last(wc), Args(Last(wc).id)})
  BY <1>14 DEF LastCall, wc
<1>16. LastCall(w) = Within(w, S0)
  BY <1>14, <1>15 DEF S0
<1> QED
  BY <1>4, <1>13, <1>16 DEF e

\* All that is spoken, each as a whole.
LEMMA WholesOf ==
    ASSUME NEW s \in Seq(Spk)
    PROVE  /\ [k \in DOMAIN s |-> Whole(s[k])] = Each(WholeOf, s)
           /\ Joined(Each(WholeOf, s)) \in Seq(Items)
<1>1. DOMAIN s = 1..Len(s) /\ \A k \in 1..Len(s) : s[k] \in Spk
  BY LenProperties, ElementOfSeq
<1>2. \A c \in Spk : WholeOf[c] = Whole(c)
  BY DEF WholeOf
<1>3. Each(WholeOf, s) = [k \in DOMAIN s |-> Whole(s[k])]
  BY <1>1, <1>2 DEF Each
<1> QED
  BY <1>3, WholeIs, JoinedEachIsSeq

\* Texts have no arguments.
LEMMA TextsWhole ==
    ASSUME NEW s \in Seq(Texts)
    PROVE  Joined(Each(WholeOf, s)) = s
<1> DEFINE O == [x \in Texts |-> <<x>>]
<1>1. \A x \in Texts : WholeOf[x] = O[x]
  BY WholeIs
<1>2. Joined(Each(O, s)) = s
  BY JoinedSingles
<1> HIDE DEF O
<1>3. Each(WholeOf, s) = Each(O, s)
  BY <1>1, EachSame
<1> QED
  BY <1>2, <1>3

\* A reply in which the texts come before the calls, and no call twice.
OpenAISpoken(sp) ==
    /\ sp \in Seq(Spk)
    /\ \A i, j \in 1..Len(sp) : i < j /\ sp[i] \in Calls => sp[j] \in Calls /\ sp[j] # sp[i]

\* Such a reply is its texts and then its calls, each once.
LEMMA TextsThenCalls ==
    ASSUME NEW sp, OpenAISpoken(sp)
    PROVE  /\ sp = Within(sp, Texts) \o Within(sp, Calls)
           /\ Within(sp, Texts) \in Seq(Texts) /\ Within(sp, Calls) \in Seq(Calls)
           /\ Within(sp, Texts) \in Seq(Spk) /\ Within(sp, Calls) \in Seq(Spk)
           /\ Ordered(Within(sp, Calls), {p \in Calls \X Calls : p[1] # p[2]})
<1> DEFINE R == {p \in Spk \X Spk : p[1] \in Calls => p[2] # p[1]}
           cs == Within(sp, Calls)
<1>0. sp \in Seq(Spk)
  BY DEF OpenAISpoken
<1>1. Within(sp, Texts \cup Calls) = sp
  BY <1>0, WithinAll DEF Spk
<1>2. \A i, j \in 1..Len(sp) : i < j /\ sp[i] \in Calls => sp[j] \notin Texts
  BY KindsApart DEF OpenAISpoken
<1>3. Within(sp, Texts \cup Calls) = Within(sp, Texts) \o Within(sp, Calls)
  BY <1>0, <1>2, KindsApart, TwoParts
<1>4. Within(sp, Texts) \in Seq(Spk \cap Texts) /\ cs \in Seq(Spk \cap Calls)
  BY <1>0, WithinIsSeq
<1>5. Within(sp, Texts) \in Seq(Texts) /\ cs \in Seq(Calls)
  BY <1>4, SeqMonotonic
<1>6. Within(sp, Texts) \in Seq(Spk) /\ cs \in Seq(Spk)
  BY <1>4, SeqMonotonic
<1>7. Ordered(sp, R)
  <2>1. \A i \in 1..Len(sp) : sp[i] \in Spk
    BY <1>0, ElementOfSeq
  <2> QED BY <2>1 DEF Ordered, OpenAISpoken
<1> HIDE DEF R
<1>8. Ordered(cs, R)
  BY <1>0, <1>7, WithinOrdered
<1>9. \A i \in 1..Len(cs) : cs[i] \in Calls
  BY <1>5, ElementOfSeq
<1> HIDE DEF cs
<1>10. Ordered(cs, {p \in Calls \X Calls : p[1] # p[2]})
  BY <1>8, <1>9 DEF Ordered, R
<1> QED
  BY <1>1, <1>3, <1>5, <1>6, <1>10 DEF cs

\* What of the calls arrives.
CallsArrive(called, together) ==
    IF together THEN LastCall(Joined(Each(WholeOf, called))) ELSE Joined(Each(WholeOf, called))

\* The lines of the calls bring what arrives of them.
LEMMA CallsSend ==
    ASSUME NEW called \in Seq(Spk), NEW together \in BOOLEAN
    PROVE  LET calls == Joined(Each(WholeOf, called))
               ls == IF together THEN <<Data(calls)>> ELSE [k \in DOMAIN calls |-> Data(<<calls[k]>>)]
           IN  ls \in Seq(DataLines) /\ ToCome("openai", ls) = CallsArrive(called, together)
<1> DEFINE calls == Joined(Each(WholeOf, called))
<1>1. calls \in Seq(Items)
  BY WholesOf
<1>2. CallsArrive(called, together) = IF together THEN LastCall(calls) ELSE calls
  BY DEF CallsArrive
<1> HIDE DEF calls
<1>3. CASE together
  BY <1>1, <1>2, <1>3, OneLineComes DEF calls
<1>4. CASE ~together
  BY <1>1, <1>2, <1>4, SinglesCome DEF calls
<1> QED
  BY <1>3, <1>4

\* What OpenAI sends for what was said.
LEMMA OpenAISends ==
    ASSUME NEW said, OpenAISpoken(Spoken(said)), NEW together \in BOOLEAN
    PROVE  /\ Orderly("openai", OpenAILines(said, together))
           /\ ToCome("openai", OpenAILines(said, together)) =
                Within(Spoken(said), Texts) \o CallsArrive(Within(Spoken(said), Calls), together)
<1> DEFINE P == "openai"
           sp == Spoken(said)
           texts == Within(sp, Texts)
           called == Within(sp, Calls)
           calls == Joined(Each(WholeOf, called))
           a == [k \in DOMAIN texts |-> Data(<<texts[k]>>)]
           b == IF together THEN <<Data(calls)>> ELSE [k \in DOMAIN calls |-> Data(<<calls[k]>>)]
           t == <<Finish, EndMark>>
           arrive == CallsArrive(called, together)
<1>1. texts \in Seq(Texts) /\ called \in Seq(Spk)
  BY TextsThenCalls
<1>2. texts \in Seq(Items)
  <2>1. Texts \subseteq Items
    BY DEF Items
  <2> HIDE DEF texts
  <2> QED BY <1>1, <2>1, SeqMonotonic
<1>3. OpenAILines(said, together) = (a \o b) \o t
  <2>1. [k \in DOMAIN called |-> Whole(called[k])] = Each(WholeOf, called)
    <3> HIDE DEF called
    <3> QED BY <1>1, WholesOf
  <2>2. OpenAILines(said, together) =
          LET cs == Joined([k \in DOMAIN called |-> Whole(called[k])]) IN
          (a \o (IF together THEN <<Data(cs)>> ELSE [k \in DOMAIN cs |-> Data(<<cs[k]>>)])) \o t
    BY DEF OpenAILines
  <2> HIDE DEF called, a, t
  <2> QED BY <2>1, <2>2
<1>4. a \in Seq(DataLines) /\ ToCome(P, a) = texts
  <2> HIDE DEF texts
  <2> QED BY <1>2, SinglesCome
<1>5. b \in Seq(DataLines) /\ ToCome(P, b) = arrive
  <2> HIDE DEF called
  <2> QED BY <1>1, CallsSend
<1>6. t \in Seq(Line) /\ Clean(t) /\ ToCome(P, t) = <<>> /\ \A k \in 1..Len(t) : t[k].items = <<>>
  BY EndOfOpenAI
<1> HIDE DEF texts, called, a, b, t, arrive
<1>7. Regular(P, a) /\ Regular(P, b) /\ a \in Seq(Line) /\ b \in Seq(Line)
  BY <1>4, <1>5, DataRegular
<1> DEFINE w == a \o b
<1>8. Regular(P, w) /\ w \in Seq(Line)
  <2>1. Regular(P, w)
    BY <1>7, RegularBoth
  <2> QED BY <2>1 DEF Regular, Clean
<1>9. ToCome(P, w) = texts \o arrive
  <2>1. ToCome(P, w) = ToCome(P, a) \o ToCome(P, b)
    BY <1>7, ToComeBoth
  <2> QED BY <1>4, <1>5, <2>1
<1> HIDE DEF w
<1>10. Orderly(P, w \o t)
  BY <1>6, <1>8, OrderlyBoth
<1>11. ToCome(P, w \o t) = ToCome(P, w)
  <2>1. ToCome(P, w \o t) = ToCome(P, w) \o ToCome(P, t) /\ ToCome(P, w) \in Seq(Items)
    BY <1>6, <1>8, ToComeBoth
  <2> QED BY <1>6, <2>1, ConcatEmptySeq
<1> QED
  BY <1>3, <1>9, <1>10, <1>11 DEF w, texts, called, arrive, sp

\* All that was spoken is promised of Anthropic's reply.
LEMMA AnthropicPromise ==
    ASSUME NEW said, Spoken(said) \in Seq(Spk), NEW together
    PROVE  PromisedOf("anthropic", said, together) = Joined(Each(WholeOf, Spoken(said)))
<1> DEFINE sp == Spoken(said)
<1>1. [k \in DOMAIN sp |-> Whole(sp[k])] = Each(WholeOf, sp)
  BY WholesOf
<1>2. PromisedOf("anthropic", said, together) = Joined([k \in DOMAIN sp |-> Whole(sp[k])])
  BY DEF PromisedOf
<1> HIDE DEF sp
<1> QED
  BY <1>1, <1>2 DEF sp

\* What has been promised is what OpenAI's lines bring.
LEMMA OpenAIPromise ==
    ASSUME NEW said, OpenAISpoken(Spoken(said)), NEW together \in BOOLEAN
    PROVE  PromisedOf("openai", said, together) =
             Within(Spoken(said), Texts) \o CallsArrive(Within(Spoken(said), Calls), together)
<1> DEFINE sp == Spoken(said)
           texts == Within(sp, Texts)
           called == Within(sp, Calls)
           one == together /\ sp # <<>>
           all == IF one THEN Within(sp, Texts \cup {Last(sp)}) ELSE sp
           J(s) == Joined(Each(WholeOf, s))
<1>1. /\ sp = texts \o called
      /\ texts \in Seq(Texts) /\ called \in Seq(Calls)
      /\ texts \in Seq(Spk) /\ called \in Seq(Spk)
      /\ Ordered(called, {p \in Calls \X Calls : p[1] # p[2]})
  BY TextsThenCalls
<1>2. sp \in Seq(Spk)
  BY DEF OpenAISpoken
<1>3. PromisedOf("openai", said, together) = Joined([k \in DOMAIN all |-> Whole(all[k])])
  BY DEF PromisedOf
<1>4. CallsArrive(called, together) = IF together THEN LastCall(J(called)) ELSE J(called)
  BY DEF CallsArrive
<1> HIDE DEF texts, called, sp
<1>5. all \in Seq(Spk)
  BY <1>2, WithinIsPart
<1>6. PromisedOf("openai", said, together) = J(all)
  <2> HIDE DEF all
  <2> QED BY <1>3, <1>5, WholesOf
<1>7. J(texts) = texts
  BY <1>1, TextsWhole
<1>8. ASSUME NEW s \in Seq(Spk) PROVE J(texts \o s) = texts \o J(s)
  <2>1. J(texts \o s) = J(texts) \o J(s)
    BY <1>1, WholeIs, JoinedBoth
  <2> QED BY <1>7, <2>1
<1> HIDE DEF J
<1>9. CASE ~one
  <2>1. all = texts \o called
    BY <1>1, <1>9
  <2>2. J(all) = texts \o J(called)
    BY <1>1, <1>8, <2>1
  <2>3. CallsArrive(called, together) = J(called)
    <3>1. CASE ~together
      BY <1>4, <3>1
    <3>2. CASE sp = <<>>
      <4>1. called = <<>>
        <5>1. called = Within(sp, Calls)
          BY DEF called
        <5> QED BY <3>2, <5>1, WithinEmpty
      <4>2. J(called) = <<>>
        BY <4>1, EachEmpty, JoinedEmpty DEF J
      <4>3. LastCall(<<>>) = <<>>
        <5>1. Within(<<>>, Calls) = <<>>
          BY WithinEmpty
        <5> QED BY <5>1, Zenon DEF LastCall
      <4> QED BY <1>4, <4>2, <4>3
    <3> QED BY <1>9, <3>1, <3>2
  <2> QED BY <1>6, <2>2, <2>3 DEF texts, called, sp
<1>10. CASE one /\ called = <<>>
  <2>1. sp = texts
    BY <1>1, <1>10, ConcatEmptySeq
  <2>2. all = texts
    <3>1. Texts \subseteq Texts \cup {Last(sp)}
      OBVIOUS
    <3>2. Within(texts, Texts \cup {Last(sp)}) = texts
      BY <1>1, <3>1, WithinAll
    <3> QED BY <1>10, <2>1, <3>2
  <2>3. CallsArrive(called, together) = <<>>
    <3>1. J(called) = <<>>
      BY <1>10, EachEmpty, JoinedEmpty DEF J
    <3>2. LastCall(<<>>) = <<>>
      <4>1. Within(<<>>, Calls) = <<>>
        BY WithinEmpty
      <4> QED BY <4>1, Zenon DEF LastCall
    <3> QED BY <1>4, <3>1, <3>2
  <2>4. texts \o CallsArrive(called, together) = texts
    BY <1>1, <2>3, ConcatEmptySeq
  <2> QED BY <1>6, <1>7, <2>2, <2>4 DEF texts, called, sp
<1>11. CASE one /\ called # <<>>
  <2>1. PICK f \in Seq(Calls), c \in Calls :
           /\ called = f \o <<c>> /\ Last(called) = c /\ Len(called) = Len(f) + 1 /\ Len(f) \in Nat
           /\ called[Len(f) + 1] = c /\ \A k \in 1..Len(f) : called[k] = f[k]
    BY <1>1, <1>11, AllButLast
  <2>2. f \in Seq(Calls \ {c})
    <3>1. \A k \in 1..Len(f) : f[k] \in Calls
      BY <2>1, ElementOfSeq
    <3>2. \A k \in 1..Len(f) : k < Len(f) + 1 /\ k \in 1..Len(called) /\ Len(f) + 1 \in 1..Len(called)
      BY <2>1
    <3>3. \A k \in 1..Len(f) : f[k] # c
      <4> TAKE k \in 1..Len(f)
      <4> DEFINE p == <<called[k], called[Len(f) + 1]>>
      <4>1. p \in {q \in Calls \X Calls : q[1] # q[2]}
        BY <1>1, <3>2 DEF Ordered
      <4>2. p[1] # p[2]
        BY <4>1
      <4>3. called[k] # called[Len(f) + 1]
        BY <4>2
      <4> QED BY <2>1, <4>3
    <3> QED BY <3>1, <3>3, InSeq
  <2> DEFINE o == <<c>>
             tf == texts \o f
  <2>3. c \in Spk /\ o \in Seq(Spk) /\ f \in Seq(Spk)
    <3>1. Calls \subseteq Spk
      BY DEF Spk
    <3> QED BY <2>1, <3>1, SeqMonotonic, OneIsSeq
  <2>4. sp = tf \o o /\ tf \in Seq(Spk)
    <3>1. sp = texts \o (f \o o)
      BY <1>1, <2>1
    <3>2. tf \in Seq(Spk)
      BY <1>1, <2>3, ConcatProperties
    <3> HIDE DEF o
    <3>3. (texts \o f) \o o = texts \o (f \o o)
      BY <1>1, <2>3, ConcatAssociative
    <3> QED BY <3>1, <3>2, <3>3
  <2>5. Last(sp) = c
    <3> HIDE DEF tf
    <3> QED BY <2>3, <2>4, LastOfBoth
  <2> DEFINE S == Texts \cup {c}
  <2>6. Within(texts, S) = texts
    BY <1>1, WithinAll
  <2>7. Within(f, S) = <<>>
    <3>1. (Calls \ {c}) \cap S = {}
      BY KindsApart
    <3> HIDE DEF S
    <3> QED BY <2>2, <3>1, WithinNone
  <2>8. Within(o, S) = o
    BY <2>3, WithinOne
  <2>9. Within(sp, S) = texts \o o
    <3> HIDE DEF o, S
    <3>1. Within(tf, S) = Within(texts, S) \o Within(f, S)
      BY <1>1, <2>3, WithinConcat
    <3>2. Within(tf, S) = texts
      BY <1>1, <2>6, <2>7, <3>1, ConcatEmptySeq
    <3> HIDE DEF tf
    <3>3. Within(tf \o o, S) = Within(tf, S) \o Within(o, S)
      BY <2>3, <2>4, WithinConcat
    <3> QED BY <2>4, <2>8, <3>2, <3>3
  <2>10. all = texts \o o
    BY <1>11, <2>5, <2>9
  <2>11. J(all) = texts \o J(o)
    <3> HIDE DEF o, all
    <3> QED BY <1>8, <2>3, <2>10
  <2>12. J(o) = <<c, Args(c.id)>>
    <3>1. Each(WholeOf, o) = <<WholeOf[c]>>
      BY <2>3, WholeIs, EachOne
    <3> DEFINE x == WholeOf[c]
    <3>2. x = <<c, Args(c.id)>> /\ x \in Seq(Items)
      BY <2>3, WholeIs, OneMade
    <3> HIDE DEF x, o
    <3>3. Joined(<<x>>) = x
      BY <3>2, JoinedOne
    <3> QED BY <3>1, <3>2, <3>3 DEF J, x
  <2>13. CallsArrive(called, together) = <<c, Args(c.id)>>
    <3>1. LastCall(Joined(Each(WholeOf, f \o <<c>>))) = <<c, Args(c.id)>>
      BY <2>2, LastCallArrives
    <3>2. LastCall(J(called)) = <<c, Args(c.id)>>
      BY <2>1, <3>1 DEF J
    <3> QED BY <1>4, <1>11, <3>2
  <2> HIDE DEF all
  <2> QED BY <1>6, <2>11, <2>12, <2>13 DEF texts, called, sp
<1> QED
  BY <1>9, <1>10, <1>11

\* No call comes before itself.
LEMMA NotEarlier ==
    ASSUME NEW a, NEW r \in Int, NEW k \in Int, a = <<r, k>>
    PROVE  ~Earlier(a, a)
<1>1. a[1] = r /\ a[2] = k
  OBVIOUS
<1> HIDE DEF Earlier
<1>2. ~(r < r) /\ ~(k < k)
  OBVIOUS
<1> QED
  BY <1>1, <1>2, Zenon DEF Earlier

\* Calls are known by their type.
LEMMA TypeOfCall ==
    ASSUME NEW c \in Spk \cup {Other}
    PROVE  c.type = "call" <=> c \in Calls
<1>1. \A x \in Texts : x.type = "text"
  BY DEF Texts, Text
<1>2. \A x \in Calls : x.type = "call"
  BY DEF Calls, Call
<1>3. Other.type = "other"
  BY DEF Other
<1> QED
  BY <1>1, <1>2, <1>3 DEF Spk

\* What is spoken of a reply.
LEMMA SpokenIs ==
    ASSUME WireBounds, NEW r \in 1..MaxReplies, NEW said \in Said(r)
    PROVE  /\ said \in Sayings /\ Spoken(said) \in Seq(Spk)
           /\ provider = "openai" => OpenAISpoken(Spoken(said))
<1> DEFINE p == said.pieces
           sp == Spoken(said)
           V == Spk \cup {Other}
<1>1. /\ p \in Seq(Uttered(r)) /\ Ordered(p, InRow(r))
      /\ p \in Pieces(r) /\ said.string \in BOOLEAN
  BY ReplySaid
<1>2. Uttered(r) \subseteq V
  BY UtteredKinds DEF Sayable, Spk
<1>3. p \in Seq(V)
  <2> HIDE DEF p, V
  <2> QED BY <1>1, <1>2, SeqMonotonic
<1>4. said \in Sayings
  <2>1. said = [string |-> said.string, pieces |-> said.pieces]
    BY DEF Said
  <2> QED BY <1>1, <1>3, <2>1 DEF Sayings, Spk
<1>5. sp = Within(p, Spk \ {Text(Empty)})
  BY DEF Spoken, Spk
<1>6. sp \in Seq(Spk)
  <2>1. Within(p, Spk \ {Text(Empty)}) \in Seq(V \cap (Spk \ {Text(Empty)}))
    <3> HIDE DEF p, V
    <3> QED BY <1>3, WithinIsSeq
  <2>2. V \cap (Spk \ {Text(Empty)}) \subseteq Spk
    OBVIOUS
  <2> QED BY <1>5, <2>1, <2>2, SeqMonotonic
<1>7. ASSUME provider = "openai" PROVE OpenAISpoken(sp)
  <2> DEFINE R == {q \in V \X V : q[1] \in Calls => q[2] \in Calls}
  <2>1. \A i, j \in 1..Len(p) : i < j /\ p[i].type = "call" => p[j].type = "call"
    <3>1. DOMAIN p = 1..Len(p)
      <4> HIDE DEF p
      <4> QED BY <1>3, LenProperties
    <3>2. \A i, j \in DOMAIN p : i < j /\ p[i].type = "call" => p[j].type = "call"
      BY <1>7 DEF Said
    <3> QED BY <3>1, <3>2
  <2>2. \A i \in 1..Len(p) : p[i] \in V /\ (p[i].type = "call" <=> p[i] \in Calls)
    <3>1. \A i \in 1..Len(p) : p[i] \in V
      <4> HIDE DEF p, V
      <4> QED BY <1>3, ElementOfSeq
    <3> QED BY <3>1, TypeOfCall
  <2>3. Ordered(p, R)
    BY <2>1, <2>2 DEF Ordered
  <2> HIDE DEF R, p, V
  <2>4. sp \in Seq(Uttered(r)) /\ Ordered(sp, R) /\ Ordered(sp, InRow(r))
    BY <1>1, <1>3, <1>5, <2>3, WithinOrdered, WithinIsPart
  <2>5. ASSUME NEW i \in 1..Len(sp), NEW j \in 1..Len(sp), i < j, sp[i] \in Calls
        PROVE  sp[j] \in Calls /\ sp[j] # sp[i]
    <3> DEFINE a == sp[i]
               b == sp[j]
    <3>1. <<a, b>> \in R /\ <<a, b>> \in InRow(r)
      BY <2>4, <2>5 DEF Ordered
    <3>2. b \in Calls
      BY <2>5, <3>1 DEF R
    <3>3. a \in Calls /\ a \in Uttered(r)
      BY <2>4, <2>5, ElementOfSeq
    <3> HIDE DEF a, b
    <3>4. Earlier(a.id, b.id)
      BY <3>1, <3>2, <3>3 DEF InRow
    <3>5. PICK k \in 1..MaxBlocks : a = Call(<<r, k>>)
      BY <3>3, UtteredKinds
    <3>6. a.id = <<r, k>>
      BY <3>5 DEF Call
    <3>7. r \in Int /\ k \in Int
      BY DEF WireBounds
    <3>8. ~Earlier(a.id, a.id)
      BY <3>6, <3>7, NotEarlier
    <3>9. b # a
      BY <3>4, <3>8
    <3> QED BY <3>2, <3>9 DEF a, b
  <2> HIDE DEF sp
  <2> QED BY <1>6, <2>5 DEF OpenAISpoken
<1> QED
  BY <1>4, <1>6, <1>7

\* What the server sends for a reply is orderly, and brings what it promised.
LEMMA SentIs ==
    ASSUME WireBounds, NEW r \in 1..MaxReplies, NEW said \in Said(r), NEW together \in BOOLEAN,
           provider \in {"openai", "anthropic"}
    PROVE  /\ said \in Sayings
           /\ Orderly(provider, Sent(said, together))
           /\ ToCome(provider, Sent(said, together)) = PromisedOf(provider, said, together)
<1>1. /\ said \in Sayings /\ Spoken(said) \in Seq(Spk)
      /\ provider = "openai" => OpenAISpoken(Spoken(said))
  BY SpokenIs
<1>2. CASE provider = "openai"
  <2> DEFINE l == OpenAILines(said, together)
             z == Within(Spoken(said), Texts) \o CallsArrive(Within(Spoken(said), Calls), together)
  <2>1. Sent(said, together) = l
    BY <1>2 DEF Sent
  <2>2. Orderly("openai", l) /\ ToCome("openai", l) = z
    BY <1>1, <1>2, OpenAISends
  <2>3. PromisedOf("openai", said, together) = z
    BY <1>1, <1>2, OpenAIPromise
  <2> HIDE DEF l, z
  <2> QED BY <1>1, <1>2, <2>1, <2>2, <2>3
<1>3. CASE provider = "anthropic"
  <2> DEFINE l == AnthropicLines(said, together)
             z == Joined(Each(WholeOf, Spoken(said)))
  <2>1. Sent(said, together) = l
    BY <1>3 DEF Sent
  <2>2. Orderly("anthropic", l) /\ ToCome("anthropic", l) = z
    BY <1>1, AnthropicSends
  <2>3. PromisedOf("anthropic", said, together) = z
    BY <1>1, AnthropicPromise
  <2> HIDE DEF l, z
  <2> QED BY <1>1, <1>3, <2>1, <2>2, <2>3
<1> QED
  BY <1>2, <1>3

-----------------------------------------------------------------------------
(* The whole stream.                                                        *)

\* No chunks, no content.
LEMMA NothingCollected ==
    ASSUME chunks = <<>>
    PROVE  Collected = <<>>
<1>1. [k \in DOMAIN <<>> |-> chunks[k].items] = <<>>
  OBVIOUS
<1>2. [k \in DOMAIN chunks |-> chunks[k].items] = <<>>
  BY <1>1
<1> QED
  BY <1>2, JoinedEmpty DEF Collected

\* A reply is opened: nothing has arrived and everything is to come.
LEMMA OpenKeeps ==
    ASSUME WireBounds, WireInv, StreamInv, OpenStream
    PROVE  StreamInv'
<1>1. PICK said \in Said(1), together \in BOOLEAN, by \in Disturbers :
         \E at \in 0..Len(Sent(said, together)), n \in 0..(Len(Sent(said, together)) + 2) :
           LET all == Disturbed(Sent(said, together), at, by)
           IN  \E end \in IF n < Len(all) THEN {"cut", "long"} ELSE {"whole"} :
                 /\ ~said.string /\ n <= Len(all)
                 /\ lines' = SubSeq(all, 1, n)
                 /\ stream' = [open |-> TRUE, said |-> said, together |-> together, by |-> by,
                               end |-> end]
  BY DEF OpenStream, Disturbers
<1> DEFINE sent == Sent(said, together)
<1>2. PICK at \in 0..Len(sent), n \in 0..(Len(sent) + 2), end \in {"whole", "cut", "long"} :
           /\ n <= Len(Disturbed(sent, at, by))
           /\ lines' = SubSeq(Disturbed(sent, at, by), 1, n)
           /\ stream' = [open |-> TRUE, said |-> said, together |-> together, by |-> by,
                         end |-> end]
           /\ end # "whole" <=> n < Len(Disturbed(sent, at, by))
  BY <1>1
<1> DEFINE all == Disturbed(sent, at, by)
           cut == end # "whole"
           whole == PromisedOf(provider, said, together)
<1>3. pc = "wait" /\ ~stream.open /\ UNCHANGED <<vars, chunks>>
  BY DEF OpenStream
<1>4. provider \in {"openai", "anthropic"} /\ chunks = <<>> /\ chunks \in Seq(ChunkSet)
  BY <1>3 DEF StreamInv, StreamShape
<1>5. 1 \in 1..MaxReplies
  BY <1>3 DEF WireInv, Happened, WireBounds, OpenStream
<1>6. said \in Sayings /\ Orderly(provider, sent) /\ ToCome(provider, sent) = whole
  BY <1>4, <1>5, SentIs
<1> HIDE DEF sent, whole
<1>7. Arriving(provider, sent, by, all)
  BY <1>6, DisturbedArrives
<1> HIDE DEF all
<1>8. Sound(provider, by, FALSE, all) /\ (provider = "anthropic" => Aligned(all))
  BY <1>7 DEF Arriving
<1>9. PICK d \in Seq(Items) : (by # "error" => d = <<>>) /\ whole = ToCome(provider, all) \o d
  BY <1>6, <1>7 DEF Arriving
<1>10. all \in Seq(Line) /\ Len(all) \in Nat /\ n \in 0..Len(all) /\ cut \in BOOLEAN
  <2>1. all \in Seq(Line)
    BY <1>8 DEF Sound
  <2>2. Len(all) \in Nat
    BY <2>1, LenProperties
  <2>3. n <= Len(all)
    BY <1>2 DEF all
  <2> QED BY <2>1, <2>2, <2>3
<1>11. Flow(provider, whole, by, cut, SubSeq(all, 1, n), <<>>)
  <2>1. cut <=> n < Len(all)
    BY <1>2 DEF all
  <2> HIDE DEF cut
  <2> QED BY <1>8, <1>9, <1>10, <2>1, Opening
<1>12. /\ stream' \in Streams /\ stream'.open /\ stream'.by = by /\ stream'.end = end
       /\ stream'.said = said /\ stream'.together = together
  <2>1. stream' = [open |-> TRUE, said |-> said, together |-> together, by |-> by, end |-> end]
    BY <1>2
  <2> QED BY <1>6, <1>10, <2>1 DEF Streams
<1>13. provider' = provider /\ chunks' = chunks /\ lines' = SubSeq(all, 1, n)
  BY <1>2, <1>3 DEF vars, all
<1>14. Promised' = whole
  <2>1. Promised' = PromisedOf(provider', stream'.said, stream'.together)
    BY DEF Promised, PromisedOf
  <2> QED BY <1>12, <1>13, <2>1 DEF whole
<1>15. Collected' = <<>>
  <2>1. Collected = <<>>
    BY <1>4, NothingCollected
  <2>2. Collected' = Collected
    BY <1>13 DEF Collected
  <2> QED BY <2>1, <2>2
<1>20. Short' = cut
  BY <1>12 DEF Short
<1> HIDE DEF cut
<1>16. Flow(provider', Promised', stream'.by, Short', lines', Collected')
  BY <1>11, <1>12, <1>13, <1>14, <1>15, <1>20
<1>17. Coming(lines, Collected)'
  BY <1>16 DEF Coming
<1>18. ChunksInOrder'
  <2>1. \/ IsPrefix(Collected', Promised')
        \/ /\ provider' = "anthropic" /\ stream'.by \in Strangers
           /\ \E k \in DOMAIN Promised' : IsPrefix(Collected', RemoveAt(Promised', k))
    <3> DEFINE pr == provider'
               w == Promised'
               b == stream'.by
               c == Short'
               ls == lines'
               got == Collected'
    <3>1. Flow(pr, w, b, c, ls, got)
      BY <1>16
    <3> HIDE DEF pr, w, b, c, ls, got
    <3>2. \/ IsPrefix(got, w)
          \/ /\ pr = "anthropic" /\ b \in Strangers
             /\ \E k \in DOMAIN w : IsPrefix(got, RemoveAt(w, k))
      BY <3>1, FlowInOrder
    <3> QED BY <3>2 DEF pr, w, b, got
  <2> QED BY <2>1 DEF ChunksInOrder, Strangers
<1>19. StreamShape'
  BY <1>4, <1>12, <1>13 DEF StreamShape
<1> QED
  BY <1>12, <1>17, <1>18, <1>19 DEF StreamInv

\* No stream is open.
LEMMA StreamBegins ==
    ASSUME StreamInit, WireAssumption, WireBounds
    PROVE  StreamInv
<1>1. provider \in {"openai", "anthropic"} /\ chunks = <<>>
  BY DEF StreamInit, Init, WireAssumption
<1>2. stream = [open |-> FALSE, said |-> [string |-> FALSE, pieces |-> <<>>],
                together |-> FALSE, by |-> "nothing", end |-> "whole"]
  BY DEF StreamInit
<1>3. stream \in Streams /\ ~stream.open /\ stream.said.pieces = <<>>
  <2>1. <<>> \in Seq(Texts \cup Calls \cup {Other})
    BY EmptySeq
  <2>2. [string |-> FALSE, pieces |-> <<>>] \in Sayings
    BY <2>1 DEF Sayings
  <2> QED BY <1>2, <2>2 DEF Streams, Disturbers
<1>4. chunks \in Seq(ChunkSet)
  BY <1>1, EmptySeq
<1>5. Promised = <<>>
  <2>1. Spoken(stream.said) = <<>>
    BY <1>3, WithinEmpty DEF Spoken
  <2>2. Promised = Joined([k \in DOMAIN <<>> |-> Whole(<<>>[k])])
    BY <2>1, Zenon DEF Promised
  <2>3. [k \in DOMAIN <<>> |-> Whole(<<>>[k])] = <<>>
    OBVIOUS
  <2> QED BY <2>2, <2>3, JoinedEmpty
<1>6. Collected = <<>>
  BY <1>1, NothingCollected
<1>7. ChunksInOrder
  <2>1. <<>> \in Seq(Items)
    BY EmptySeq
  <2>2. <<>> \o <<>> = <<>>
    BY <2>1, ConcatEmptySeq
  <2> DEFINE c == <<>>
             d == <<>>
  <2>3. c \in Seq(Items) /\ d \in Seq(Items)
    BY <2>1
  <2> HIDE DEF c, d
  <2>4. IsPrefix(c, c \o d)
    BY <2>3, Beginning
  <2>5. IsPrefix(<<>>, <<>>)
    BY <2>2, <2>4 DEF c, d
  <2> QED BY <1>5, <1>6, <2>5 DEF ChunksInOrder
<1>8. WholeReplyArrives
  BY <1>1 DEF WholeReplyArrives
<1> QED
  BY <1>1, <1>3, <1>4, <1>7, <1>8 DEF StreamInv, StreamShape

\* Nothing changes that belongs to the reply.
LEMMA StreamStays ==
    ASSUME StreamInv, UNCHANGED <<provider, streamVars>>,
           pc' = pc \/ chunks = <<>>
    PROVE  StreamInv'
<1>1. UNCHANGED <<provider, stream, lines, chunks>>
  BY DEF streamVars
<1>2. Promised' = Promised /\ Collected' = Collected
  BY <1>1 DEF Promised, Collected
<1>3. StreamShape' /\ (stream.open => Coming(lines, Collected)')
  BY <1>1, <1>2 DEF StreamInv, StreamShape, Coming, Short
<1>4. ChunksInOrder'
  BY <1>1, <1>2 DEF StreamInv, ChunksInOrder
<1>5. ~stream.open => WholeReplyArrives'
  BY <1>1, <1>2 DEF StreamInv, WholeReplyArrives
<1> QED
  BY <1>1, <1>3, <1>4, <1>5 DEF StreamInv

\* After a reply that was streamed the session is over.
LEMMA OverIsOver ==
    ASSUME Next
    PROVE  pc # "over" /\ provider' = provider
  BY DEF Next, Ask, ChatFails, Chat, AnswerCall

\* No step disturbs what is coming.
LEMMA StreamStep ==
    ASSUME WireBounds, WireInv, StreamInv, StreamNext \/ UNCHANGED <<vars, streamVars>>
    PROVE  StreamInv'
<1>1. CASE ~stream.open /\ Next /\ UNCHANGED streamVars
  <2>1. pc # "over" /\ provider' = provider
    BY <1>1, OverIsOver
  <2>2. chunks = <<>>
    BY <1>1, <2>1 DEF StreamInv
  <2> QED BY <1>1, <2>1, <2>2, StreamStays DEF streamVars
<1>2. CASE OpenStream
  BY <1>2, OpenKeeps
<1>3. CASE RecvOpenAI
  BY <1>3, RecvOpenAIKeeps
<1>4. CASE RecvAnthropic
  BY <1>4, RecvAnthropicKeeps
<1>5. CASE UNCHANGED <<vars, streamVars>>
  BY <1>5, StreamStays DEF vars, streamVars
<1> QED
  BY <1>1, <1>2, <1>3, <1>4, <1>5 DEF StreamNext

\* openai.go and anthropic.go, Recv: what arrives of a streamed reply is its
\* content from the beginning on, in order; at most one piece may be missing,
\* behind a line that has slipped in between an event of Anthropic's and its data.
THEOREM ChunksAreInOrder == StreamSpec => []ChunksInOrder
<1> DEFINE Inv == WireInv /\ StreamInv
<1>1. StreamInit => Inv
  BY WireAssumption, WireBounds, WireInit, StreamBegins DEF StreamInit
<1>2. Inv /\ [StreamNext]_<<vars, streamVars>> => Inv'
  BY WireBounds, WireStreamStep, StreamStep
<1>3. Inv => ChunksInOrder
  BY DEF StreamInv
<1> QED
  BY <1>1, <1>2, <1>3, PTL DEF StreamSpec

\* openai.go and anthropic.go, Recv: a reply that was sent to its end arrives as
\* a whole and ends with a chunk that is done, or Recv says that it could not be
\* read; this it never says of a reply whose lines all came and fit the scanner,
\* and where it returns neither a chunk nor an error the connection was cut off.
\* (A stream that is open has not ended.)
THEOREM RepliesArriveWhole == StreamSpec => []WholeReplyArrives
<1> DEFINE Inv == WireInv /\ StreamInv
<1>1. StreamInit => Inv
  BY WireAssumption, WireBounds, WireInit, StreamBegins DEF StreamInit
<1>2. Inv /\ [StreamNext]_<<vars, streamVars>> => Inv'
  BY WireBounds, WireStreamStep, StreamStep
<1>3. Inv => WholeReplyArrives
  BY DEF StreamInv, WholeReplyArrives
<1> QED
  BY <1>1, <1>2, <1>3, PTL DEF StreamSpec
===============================================================================
