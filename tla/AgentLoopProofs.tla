--------------------------- MODULE AgentLoopProofs ----------------------------
(***************************************************************************)
(* What compaction does to a conversation, and what holds of a conversation *)
(* that is compacted again and again (CompactionMC) and of AgentLoop, for   *)
(* every token limit, rendering, budget, prompt, reply length and number of *)
(* calls.                                                                   *)
(***************************************************************************)
EXTENDS AgentLoop, CompactionMC, RecursionTheorems

-----------------------------------------------------------------------------
(* The operators of Compaction.                                             *)

\* The lines of a message in a summary have a length.
LEMMA PartsLenIsNat ==
    ASSUME NEW CallIds, NEW m \in Message(CallIds)
    PROVE  PartsLen(m) \in Nat
<1> DEFINE line(body) == Tag(m.role) + body + 1
<1>1. m.text \in Nat /\ Len(m.calls) \in Nat /\ Len(m.answers) \in Nat
  BY DEF Message
<1>2. Tag(m.role) \in Nat
  BY DEF Message, Roles, Tag
<1>3. Clip(m.text) \in Nat
  BY <1>1 DEF Clip, ClipLen
<1>4. line(Clip(m.text)) \in Nat /\ line(CallLen) \in Nat /\ line(ResultLen) \in Nat
  BY <1>2, <1>3, RenderAssumption
<1>5. \A a, b \in Nat : a * b \in Nat
  OBVIOUS
<1>6. Len(m.calls) * line(CallLen) \in Nat /\ Len(m.answers) * line(ResultLen) \in Nat
  <2> HIDE DEF line
  <2> QED BY <1>1, <1>4, <1>5
<1>7. PartsLen(m) = (IF m.text > 0 THEN line(Clip(m.text)) ELSE 0)
                      + Len(m.calls) * line(CallLen) + Len(m.answers) * line(ResultLen)
  BY DEF PartsLen
<1>8. (IF m.text > 0 THEN line(Clip(m.text)) ELSE 0) \in Nat
  <2> HIDE DEF line
  <2> QED BY <1>4
<1>9. \A a, b, c \in Nat : a + b + c \in Nat
  OBVIOUS
<1> HIDE DEF line
<1> QED
  BY <1>6, <1>7, <1>8, <1>9, Zenon

\* A summary has a length.
LEMMA SummaryLenIsNat ==
    ASSUME NEW CallIds, NEW ms \in Seq(Message(CallIds))
    PROVE  SummaryLen(ms) \in Nat
<1> DEFINE f == [i \in 1..Len(ms) |-> PartsLen(ms[i])]
<1>1. Len(ms) \in Nat /\ \A i \in 1..Len(ms) : ms[i] \in Message(CallIds)
  BY LenProperties, ElementOfSeq
<1>2. f \in [1..Len(ms) -> Nat]
  BY <1>1, PartsLenIsNat
<1>3. Total(f, Len(ms)) \in Nat
  <2> HIDE DEF f
  <2> QED BY <1>1, <1>2, TotalIsNat
<1> QED
  BY <1>3 DEF SummaryLen

\* The message that replaces the head of a conversation is a system message
\* without calls (summarizeMessages and the two compact methods).
LEMMA SummaryMessageShape ==
    ASSUME NEW CallIds, NEW head \in Seq(Message(CallIds)), head # <<>>, NEW header \in Nat
    PROVE  /\ SummaryMessage(header, head) \in Message(CallIds)
           /\ SummaryMessage(header, head).role = "system"
           /\ SummaryMessage(header, head).calls = <<>>
<1>1. head[1] \in Message(CallIds)
  BY EmptySeq, ElementOfSeq
<1>2. Tag(head[1].role) \in Nat
  BY <1>1 DEF Message, Roles, Tag
<1>3. TaskKept(head[1]) \in Nat
  BY <1>1 DEF Message, TaskKept, ClipLen
<1>4. SummaryLen(head) \in Nat
  BY SummaryLenIsNat
<1>5. head[1].taskAt \in Nat
  BY <1>1 DEF Message
<1>6. <<>> \in Seq(CallIds)
  BY EmptySeq
<1>7. /\ header + SummaryLen(head) \in Nat
      /\ header + Tag(head[1].role) + head[1].taskAt \in Nat
  BY <1>2, <1>4, <1>5
<1>8. "system" \in Roles
  BY DEF Roles
<1> QED
  BY <1>3, <1>6, <1>7, <1>8 DEF SummaryMessage, Message

\* ms with its head cut: a summary in front of the last messages of ms.
CutOf(CallIds, ms, cut) ==
    /\ cut.compacted = TRUE
    /\ cut.messages \in Seq(Message(CallIds))
    /\ Len(cut.messages) >= 1
    /\ Len(cut.messages) < Len(ms)
    /\ cut.messages[1].role = "system"
    /\ cut.messages[1].calls = <<>>
    /\ \A j \in 2..Len(cut.messages) :
         cut.messages[j] = ms[j + Len(ms) - Len(cut.messages)]

LEMMA SummarizedShape ==
    ASSUME NEW CallIds, NEW ms \in Seq(Message(CallIds)), NEW header \in Nat,
           NEW tail \in Nat, Len(ms) >= tail + 2
    PROVE  /\ CutOf(CallIds, ms, Summarized(header, tail, ms))
           /\ Len(Summarized(header, tail, ms).messages) = tail + 1
<1> DEFINE cut == Len(ms) - tail
           head == SubSeq(ms, 1, cut)
           rest == SubSeq(ms, cut + 1, Len(ms))
           S == SummaryMessage(header, head)
<1>1. Len(ms) \in Nat /\ \A i \in 1..Len(ms) : ms[i] \in Message(CallIds)
  BY LenProperties, ElementOfSeq
<1>2. cut \in Nat /\ cut >= 2 /\ cut <= Len(ms)
  BY <1>1
<1>3. head \in Seq(Message(CallIds)) /\ head # <<>>
  <2>1. head \in Seq(Message(CallIds)) /\ Len(head) = cut
    BY <1>1, <1>2, SubSeqProperties
  <2>2. Len(<<>>) = 0
    OBVIOUS
  <2> HIDE DEF head, cut
  <2> QED BY <2>1, <2>2, <1>2
<1>4. /\ rest \in Seq(Message(CallIds))
      /\ Len(rest) = tail
      /\ \A i \in 1..tail : rest[i] = ms[cut + i]
  <2>1. \A i \in cut + 1 .. Len(ms) : ms[i] \in Message(CallIds)
    BY <1>1, <1>2
  <2>2. cut + 1 \in Int /\ Len(ms) \in Int
    BY <1>1, <1>2
  <2>3. /\ SubSeq(ms, cut + 1, Len(ms)) \in Seq(Message(CallIds))
        /\ Len(SubSeq(ms, cut + 1, Len(ms)))
             = IF cut + 1 <= Len(ms) THEN Len(ms) - (cut + 1) + 1 ELSE 0
        /\ \A i \in 1 .. Len(ms) - (cut + 1) + 1 :
             SubSeq(ms, cut + 1, Len(ms))[i] = ms[cut + 1 + i - 1]
    <3> HIDE DEF cut
    <3> QED BY <2>1, <2>2, SubSeqProperties
  <2> QED BY <2>3, <1>1
<1>5. S \in Message(CallIds) /\ S.role = "system" /\ S.calls = <<>>
  <2> HIDE DEF head
  <2> QED BY <1>3, SummaryMessageShape
<1>6. <<S>> \in Seq(Message(CallIds)) /\ Len(<<S>>) = 1 /\ <<S>>[1] = S
  <2> HIDE DEF S
  <2> QED BY <1>5
<1>7. /\ <<S>> \o rest \in Seq(Message(CallIds))
      /\ Len(<<S>> \o rest) = 1 + tail
      /\ \A i \in 1 .. 1 + tail :
           (<<S>> \o rest)[i] = IF i <= 1 THEN <<S>>[i] ELSE rest[i - 1]
  <2> HIDE DEF S, rest
  <2> QED BY <1>4, <1>6, ConcatProperties
<1> DEFINE out == <<S>> \o rest
<1>8. out[1] = S /\ \A j \in 2 .. 1 + tail : out[j] = ms[j + Len(ms) - (1 + tail)]
  <2>1. out[1] = S
    <3> HIDE DEF S, rest
    <3> QED BY <1>6, <1>7
  <2>2. ASSUME NEW j \in 2 .. 1 + tail PROVE out[j] = ms[j + Len(ms) - (1 + tail)]
    <3>1. out[j] = rest[j - 1]
      <4> HIDE DEF S, rest
      <4> QED BY <1>7
    <3>2. rest[j - 1] = ms[cut + (j - 1)]
      <4> HIDE DEF rest, cut
      <4> QED BY <1>4
    <3>3. cut + (j - 1) = j + Len(ms) - (1 + tail)
      BY <1>1
    <3> QED BY <3>1, <3>2, <3>3
  <2> QED BY <2>1, <2>2
<1>9. Summarized(header, tail, ms) = [messages |-> out, compacted |-> TRUE]
  BY DEF Summarized
<1>10. Len(ms) > 1 + tail
  BY <1>1
<1>11. Len(out) = 1 + tail /\ out \in Seq(Message(CallIds)) /\ 1 + tail >= 1
  BY <1>7
<1>12. out[1].role = "system" /\ out[1].calls = <<>>
  BY <1>5, <1>8
<1>13. /\ Summarized(header, tail, ms).messages = out
       /\ Summarized(header, tail, ms).compacted = TRUE
  BY <1>9
<1> HIDE DEF out
<1> QED
  BY <1>8, <1>10, <1>11, <1>12, <1>13 DEF CutOf

\* AutoCompact leaves a conversation as it is or cuts its head, in either mode.
LEMMA AutoCompactShape ==
    ASSUME NEW CallIds, NEW ms \in Seq(Message(CallIds))
    PROVE  \/ AutoCompact(ms) = [messages |-> ms, compacted |-> FALSE]
           \/ CutOf(CallIds, ms, AutoCompact(ms))
<1>1. Len(ms) \in Nat
  BY LenProperties
<1>2. \/ CompactLight(ms) = [messages |-> ms, compacted |-> FALSE]
      \/ CutOf(CallIds, ms, CompactLight(ms))
  <2>1. CASE Len(ms) < 2 * LightTail
    BY <2>1 DEF CompactLight, Unchanged
  <2>2. CASE ~(Len(ms) < 2 * LightTail)
    <3>1. Len(ms) >= LightTail + 2 /\ LightTail \in Nat /\ LightHeader \in Nat
      BY <2>2, <1>1 DEF LightTail, LightHeader
    <3>2. CutOf(CallIds, ms, Summarized(LightHeader, LightTail, ms))
      BY <3>1, SummarizedShape
    <3> QED BY <2>2, <3>2 DEF CompactLight
  <2> QED BY <2>1, <2>2
<1>3. \/ CompactAggressive(ms) = [messages |-> ms, compacted |-> FALSE]
      \/ CutOf(CallIds, ms, CompactAggressive(ms))
  <2>1. CASE Len(ms) < 2 * AggressiveTail
    BY <2>1, <1>2 DEF CompactAggressive
  <2>2. CASE ~(Len(ms) < 2 * AggressiveTail)
    <3>1. /\ Len(ms) >= AggressiveTail + 2
          /\ AggressiveTail \in Nat
          /\ AggressiveHeader \in Nat
      BY <2>2, <1>1 DEF AggressiveTail, AggressiveHeader
    <3>2. CutOf(CallIds, ms, Summarized(AggressiveHeader, AggressiveTail, ms))
      BY <3>1, SummarizedShape
    <3> QED BY <2>2, <3>2 DEF CompactAggressive
  <2> QED BY <2>1, <2>2
<1> QED
  BY <1>2, <1>3 DEF AutoCompact, Compact, Unchanged

\* The token guard lets the conversation or a last part of it through.
LEMMA GuardShape ==
    ASSUME NEW CallIds, NEW ms \in Seq(Message(CallIds)), NEW systemLen
    PROVE  LET out == GuardRequest(systemLen, ms)
           IN  /\ out \in Seq(Message(CallIds))
               /\ Len(out) <= Len(ms)
               /\ \A j \in 1..Len(out) : out[j] = ms[j + Len(ms) - Len(out)]
<1> DEFINE from == Len(ms) \div 2 + 1
           half == SubSeq(ms, from, Len(ms))
<1>1. Len(ms) \in Nat /\ \A i \in 1..Len(ms) : ms[i] \in Message(CallIds)
  BY LenProperties, ElementOfSeq
<1>2. CASE GuardRequest(systemLen, ms) = ms
  BY <1>1, <1>2
<1>3. CASE GuardRequest(systemLen, ms) = half /\ Len(ms) > 2
  <2>1. from \in Int /\ from >= 1 /\ from <= Len(ms)
    BY <1>1, <1>3
  <2>2. /\ half \in Seq(Message(CallIds))
        /\ Len(half) = IF from <= Len(ms) THEN Len(ms) - from + 1 ELSE 0
        /\ \A i \in 1 .. Len(ms) - from + 1 : half[i] = ms[from + i - 1]
    <3>1. \A i \in from .. Len(ms) : ms[i] \in Message(CallIds)
      BY <1>1, <2>1
    <3> HIDE DEF from
    <3> QED BY <1>1, <2>1, <3>1, SubSeqProperties
  <2>3. /\ Len(half) = Len(ms) - from + 1
        /\ \A j \in 1 .. Len(half) : half[j] = ms[j + Len(ms) - Len(half)]
    <3> HIDE DEF half, from
    <3>1. Len(half) = Len(ms) - from + 1
      BY <2>1, <2>2
    <3>2. ASSUME NEW j \in 1 .. Len(half)
          PROVE  half[j] = ms[j + Len(ms) - Len(half)]
      <4>1. half[j] = ms[from + j - 1]
        BY <3>1, <2>2
      <4>2. j + Len(ms) - Len(half) = from + j - 1
        BY <1>1, <2>1, <3>1
      <4> QED BY <4>1, <4>2
    <3> QED BY <3>1, <3>2
  <2> HIDE DEF half, from
  <2> QED BY <1>1, <1>3, <2>1, <2>2, <2>3
<1> QED
  BY <1>2, <1>3 DEF GuardRequest

-----------------------------------------------------------------------------
(* A conversation that is compacted again and again.                        *)

\* What AutoCompact does depends on the length of the list, and on nothing
\* else once the tokens have decided the mode.
LEMMA AutoCompactIs ==
    ASSUME NEW ms, Len(ms) \in Nat
    PROVE  \/ AutoCompact(ms) = Unchanged(ms)
           \/ Len(ms) >= 10 /\ AutoCompact(ms) = Summarized(LightHeader, LightTail, ms)
           \/ Len(ms) >= 6 /\ AutoCompact(ms) = Summarized(AggressiveHeader, AggressiveTail, ms)
<1>1. \/ CompactLight(ms) = Unchanged(ms)
      \/ Len(ms) >= 10 /\ CompactLight(ms) = Summarized(LightHeader, LightTail, ms)
  <2>1. 2 * LightTail = 10
    BY DEF LightTail
  <2> QED BY <2>1 DEF CompactLight
<1>2. \/ CompactAggressive(ms) = CompactLight(ms)
      \/ Len(ms) >= 6 /\ CompactAggressive(ms) = Summarized(AggressiveHeader, AggressiveTail, ms)
  <2>1. 2 * AggressiveTail = 6
    BY DEF AggressiveTail
  <2> QED BY <2>1 DEF CompactAggressive
<1>3. AutoCompact(ms) \in {Unchanged(ms), CompactLight(ms), CompactAggressive(ms)}
  <2>1. \A level : Compact(ms, level) \in {Unchanged(ms), CompactLight(ms), CompactAggressive(ms)}
    BY Zenon DEF Compact
  <2> QED BY <2>1, Zenon DEF AutoCompact
<1> QED
  BY <1>1, <1>2, <1>3

\* AutoCompact leaves a list alone, or makes one of four or six messages of it.
LEMMA LengthAfter ==
    ASSUME NEW CallIds, NEW ms \in Seq(Message(CallIds))
    PROVE  \/ AutoCompact(ms) = Unchanged(ms)
           \/ /\ Len(ms) >= 6 /\ AutoCompact(ms).messages \in Seq(Message(CallIds))
              /\ Len(AutoCompact(ms).messages) = 4
           \/ /\ Len(ms) >= 10 /\ AutoCompact(ms).messages \in Seq(Message(CallIds))
              /\ Len(AutoCompact(ms).messages) = 6
<1>1. Len(ms) \in Nat
  BY LenProperties
<1>2. CASE Len(ms) >= 10 /\ AutoCompact(ms) = Summarized(LightHeader, LightTail, ms)
  <2>1. LightHeader \in Nat /\ LightTail \in Nat /\ Len(ms) >= LightTail + 2 /\ LightTail + 1 = 6
    BY <1>1, <1>2 DEF LightHeader, LightTail
  <2>2. /\ CutOf(CallIds, ms, Summarized(LightHeader, LightTail, ms))
        /\ Len(Summarized(LightHeader, LightTail, ms).messages) = LightTail + 1
    BY <2>1, SummarizedShape
  <2> QED BY <1>2, <2>1, <2>2 DEF CutOf
<1>3. CASE Len(ms) >= 6 /\ AutoCompact(ms) = Summarized(AggressiveHeader, AggressiveTail, ms)
  <2>1. /\ AggressiveHeader \in Nat /\ AggressiveTail \in Nat
        /\ Len(ms) >= AggressiveTail + 2 /\ AggressiveTail + 1 = 4
    BY <1>1, <1>3 DEF AggressiveHeader, AggressiveTail
  <2>2. /\ CutOf(CallIds, ms, Summarized(AggressiveHeader, AggressiveTail, ms))
        /\ Len(Summarized(AggressiveHeader, AggressiveTail, ms).messages) = AggressiveTail + 1
    BY <2>1, SummarizedShape
  <2> QED BY <1>3, <2>1, <2>2 DEF CutOf
<1> QED
  BY <1>1, <1>2, <1>3, AutoCompactIs

LEMMA ThirdRoundIdle ==
    ASSUME NEW CallIds, NEW ms \in Seq(Message(CallIds))
    PROVE  ~AutoCompact(AutoCompact(AutoCompact(ms).messages).messages).compacted
<1>0. \A l : Unchanged(l).messages = l /\ Unchanged(l).compacted = FALSE
  BY DEF Unchanged
<1>1. ASSUME NEW l \in Seq(Message(CallIds)), ~(Len(l) >= 6)
      PROVE  AutoCompact(l) = Unchanged(l)
  <2>1. Len(l) \in Nat
    BY LenProperties
  <2> QED BY <1>1, <2>1, LengthAfter
<1>2. ASSUME NEW l \in Seq(Message(CallIds)), ~(Len(l) >= 10)
      PROVE  ~AutoCompact(AutoCompact(l).messages).compacted
  <2>1. CASE AutoCompact(l) = Unchanged(l)
    BY <1>0, <2>1
  <2>2. CASE AutoCompact(l) # Unchanged(l)
    <3> DEFINE k == AutoCompact(l).messages
    <3>1. k \in Seq(Message(CallIds)) /\ Len(k) = 4
      BY <1>2, <2>2, LengthAfter
    <3> HIDE DEF k
    <3>3. ~(Len(k) >= 6)
      BY <3>1
    <3>2. AutoCompact(k) = Unchanged(k)
      BY <1>1, <3>1, <3>3, Zenon
    <3> QED BY <1>0, <3>2 DEF k
  <2> QED BY <2>1, <2>2
<1>3. CASE AutoCompact(ms) = Unchanged(ms)
  <2>1. AutoCompact(ms).messages = ms
    BY <1>0, <1>3
  <2>2. AutoCompact(AutoCompact(ms).messages) = Unchanged(ms)
    BY <1>3, <2>1
  <2> QED BY <1>0, <1>3, <2>2
<1>4. CASE AutoCompact(ms) # Unchanged(ms)
  <2> DEFINE k == AutoCompact(ms).messages
  <2>3. k \in Seq(Message(CallIds)) /\ (Len(k) = 4 \/ Len(k) = 6)
    BY <1>4, LengthAfter, Zenon
  <2>1. k \in Seq(Message(CallIds)) /\ ~(Len(k) >= 10)
    <3> DEFINE n == Len(k)
    <3>1. n = 4 \/ n = 6
      BY <2>3
    <3> HIDE DEF n
    <3>2. ~(n >= 10)
      BY <3>1
    <3> QED BY <2>3, <3>2 DEF n
  <2> HIDE DEF k
  <2>2. ~AutoCompact(AutoCompact(k).messages).compacted
    BY <1>2, <2>1
  <2> QED BY <2>2 DEF k
<1> QED
  BY <1>3, <1>4

-----------------------------------------------------------------------------
(* The task in a growing conversation.                                      *)

TalkIds == {"call"}

\* The task has moved by at most a header and a tag in each compaction, and
\* has been cut at the clip.
TaskPlaced ==
    /\ conversation \in Seq(Message(TalkIds)) /\ conversation # <<>>
    /\ rounds \in Nat
    /\ conversation[1].role \in {"user", "system"}
    /\ conversation[1].taskAt <= 43 + 52 * rounds
    /\ rounds <= 4 => conversation[1].taskLen > 0

LEMMA TalkBegins ==
    ASSUME TalkInit
    PROVE  TaskPlaced
<1>0. PICK lead \in LeadLens : conversation = <<Task(lead)>> /\ rounds = 0
  BY DEF TalkInit
<1> DEFINE m == Task(lead)
<1>1. <<>> \in Seq(TalkIds) /\ PromptLen \in Nat /\ PromptLen > 0 /\ lead \in Nat /\ lead <= 43
  BY EmptySeq, TalkAssumption, LeadAssumption
<1>2. m \in Message(TalkIds) /\ m.role = "user" /\ m.taskAt = lead /\ m.taskLen = PromptLen
  <2>1. lead + PromptLen \in Nat
    BY <1>1
  <2> QED BY <1>1, <2>1 DEF Task, Message, Roles
<1>3. conversation = <<m>> /\ rounds = 0
  BY <1>0
<1> HIDE DEF m
<1>4. <<m>> \in Seq(Message(TalkIds)) /\ <<m>> # <<>> /\ <<m>>[1] = m
  <2>1. \A S : \A x \in S : <<x>> \in Seq(S) /\ <<x>> # <<>> /\ <<x>>[1] = x
    OBVIOUS
  <2> QED BY <1>2, <2>1, Zenon
<1>5. conversation \in Seq(Message(TalkIds)) /\ conversation # <<>> /\ conversation[1] = m
  BY <1>3, <1>4, Zenon
<1> QED
  BY <1>1, <1>2, <1>3, <1>5 DEF TaskPlaced

LEMMA TalkGrows ==
    ASSUME TaskPlaced, Grow
    PROVE  TaskPlaced'
<1> DEFINE V == Message(TalkIds)
<1>1. PICK text \in TurnTexts, n \in 1..TurnCalls :
        conversation' = Append(conversation,
                               Said("assistant", text, [k \in 1..n |-> "call"], <<>>))
                          \o [k \in 1..n |-> Said("tool", 0, <<>>, <<"call">>)]
  BY DEF Grow
<1> DEFINE m == Said("assistant", text, [k \in 1..n |-> "call"], <<>>)
           r == Said("tool", 0, <<>>, <<"call">>)
           rs == [k \in 1..n |-> r]
           one == Append(conversation, m)
<1>2. n \in Nat /\ text \in Nat
  BY TalkAssumption, TalkBounds
<1>3. m \in V
  <2>1. [k \in 1..n |-> "call"] \in Seq(TalkIds)
    BY <1>2, SeqDef DEF TalkIds
  <2>2. <<>> \in Seq(TalkIds)
    BY EmptySeq
  <2> DEFINE c == [k \in 1..n |-> "call"]
  <2>3. c \in Seq(TalkIds)
    BY <2>1
  <2> HIDE DEF c
  <2>4. Said("assistant", text, c, <<>>) \in V
    BY <1>2, <2>2, <2>3 DEF Said, Message, Roles
  <2> QED BY <2>4 DEF c
<1>4. r \in V
  <2>1. <<"call">> \in Seq(TalkIds) /\ <<>> \in Seq(TalkIds)
    BY EmptySeq DEF TalkIds
  <2> DEFINE c == <<"call">>
  <2> HIDE DEF c
  <2>2. c \in Seq(TalkIds)
    BY <2>1 DEF c
  <2>3. Said("tool", 0, <<>>, c) \in V
    BY <2>1, <2>2 DEF Said, Message, Roles
  <2> QED BY <2>3 DEF c
<1> HIDE DEF V, m, r
<1>5. rs \in Seq(V)
  <2>1. rs \in [1..n -> V]
    BY <1>4
  <2> HIDE DEF rs
  <2> QED BY <1>2, <2>1, SeqDef
<1>6. conversation \in Seq(V) /\ conversation # <<>> /\ Len(conversation) \in Nat \ {0}
  BY EmptySeq DEF TaskPlaced, V
<1>7. one \in Seq(V) /\ Len(one) = Len(conversation) + 1 /\ one[1] = conversation[1]
  BY <1>3, <1>6, AppendProperties
<1>8. conversation' = one \o rs /\ rounds' = rounds
  BY <1>1 DEF Grow, m, r
<1> HIDE DEF one, rs
<1>9. /\ conversation' \in Seq(V) /\ Len(conversation') = Len(one) + Len(rs)
      /\ conversation'[1] = one[1]
  <2> DEFINE c == one \o rs
  <2>1. /\ c \in Seq(V) /\ Len(c) = Len(one) + Len(rs) /\ Len(one) \in Nat /\ Len(rs) \in Nat
        /\ \A i \in 1..Len(one) + Len(rs) : c[i] = IF i <= Len(one) THEN one[i] ELSE rs[i - Len(one)]
    BY <1>5, <1>7, ConcatProperties, LenProperties
  <2> HIDE DEF c
  <2>2. 1 \in 1..Len(one) + Len(rs) /\ 1 <= Len(one)
    BY <1>6, <1>7, <2>1
  <2>3. c[1] = one[1]
    BY <2>1, <2>2
  <2> QED BY <1>8, <2>1, <2>3 DEF c
<1>10. conversation' # <<>>
  <2>1. Len(conversation') > 0
    BY <1>5, <1>6, <1>7, <1>9, LenProperties
  <2> QED BY <2>1, EmptySeq
<1> QED
  BY <1>7, <1>8, <1>9, <1>10 DEF TaskPlaced, V

\* A compaction moves the task behind a header and a tag, and clips it.
LEMMA TaskMoves ==
    ASSUME NEW CallIds, NEW ms \in Seq(Message(CallIds)), NEW header \in Nat, NEW tail \in Nat,
           Len(ms) >= tail + 2
    PROVE  LET out == Summarized(header, tail, ms).messages
           IN  /\ out[1].role = "system"
               /\ out[1].taskAt = header + Tag(ms[1].role) + ms[1].taskAt
               /\ out[1].taskLen = TaskKept(ms[1])
<1> DEFINE cut == Len(ms) - tail
           head == SubSeq(ms, 1, cut)
           rest == SubSeq(ms, cut + 1, Len(ms))
           S == SummaryMessage(header, head)
           o == <<S>>
           V == Message(CallIds)
<1>1. Len(ms) \in Nat /\ cut \in Nat /\ cut >= 2 /\ cut <= Len(ms)
  BY LenProperties
<1>2. head \in Seq(V) /\ head # <<>> /\ head[1] = ms[1]
  <2> HIDE DEF cut
  <2>1. \A i \in 1..cut : ms[i] \in V
    BY <1>1, ElementOfSeq
  <2> HIDE DEF V
  <2>2. /\ head \in Seq(V) /\ Len(head) = IF 1 <= cut THEN cut - 1 + 1 ELSE 0
        /\ \A i \in 1..cut - 1 + 1 : head[i] = ms[1 + i - 1]
    BY <1>1, <2>1, SubSeqProperties
  <2> HIDE DEF head
  <2>3. Len(head) = cut /\ 1 \in 1..cut - 1 + 1 /\ 1 + 1 - 1 = 1
    BY <1>1, <2>2
  <2>4. head[1] = ms[1]
    BY <2>2, <2>3
  <2>5. head # <<>>
    BY <1>1, <2>3, EmptySeq
  <2> QED BY <2>2, <2>4, <2>5
<1>3. rest \in Seq(V)
  <2> HIDE DEF cut
  <2>1. \A i \in cut + 1..Len(ms) : i \in 1..Len(ms)
    BY <1>1
  <2>2. \A i \in cut + 1..Len(ms) : ms[i] \in V
    BY <2>1, ElementOfSeq
  <2> HIDE DEF V
  <2>3. cut + 1 \in Int /\ Len(ms) \in Int
    BY <1>1
  <2> QED BY <2>2, <2>3, SubSeqProperties
<1>4. /\ S \in V /\ S.role = "system" /\ S.taskLen = TaskKept(ms[1])
      /\ S.taskAt = header + Tag(ms[1].role) + ms[1].taskAt
  <2> HIDE DEF head
  <2>1. S \in V /\ S.role = "system"
    BY <1>2, SummaryMessageShape
  <2>2. S.taskLen = TaskKept(head[1]) /\ S.taskAt = header + Tag(head[1].role) + head[1].taskAt
    BY DEF SummaryMessage
  <2> QED BY <1>2, <2>1, <2>2
<1>5. Summarized(header, tail, ms).messages = o \o rest
  BY DEF Summarized
<1> HIDE DEF S, V, rest
<1>6. o \in Seq(V) /\ Len(o) = 1 /\ o[1] = S
  <2>1. \A x \in V : <<x>> \in Seq(V) /\ Len(<<x>>) = 1 /\ <<x>>[1] = x
    OBVIOUS
  <2> QED BY <1>4, <2>1, Zenon
<1> HIDE DEF o
<1>7. (o \o rest)[1] = S
  <2> DEFINE c == o \o rest
  <2>1. /\ Len(rest) \in Nat
        /\ \A i \in 1..Len(o) + Len(rest) : c[i] = IF i <= Len(o) THEN o[i] ELSE rest[i - Len(o)]
    BY <1>3, <1>6, ConcatProperties, LenProperties
  <2> HIDE DEF c
  <2>2. 1 \in 1..Len(o) + Len(rest) /\ 1 <= Len(o)
    BY <1>6, <2>1
  <2>3. c[1] = o[1]
    BY <2>1, <2>2
  <2> QED BY <1>6, <2>3 DEF c
<1> QED
  BY <1>4, <1>5, <1>7

LEMMA TalkShrinks ==
    ASSUME TaskPlaced, Squeeze
    PROVE  TaskPlaced'
<1> DEFINE V == Message(TalkIds)
           first == conversation[1]
<1>1. /\ conversation \in Seq(V) /\ rounds \in Nat /\ rounds' = rounds + 1 /\ Len(conversation) \in Nat
      /\ first.role \in {"user", "system"} /\ first.taskAt <= 43 + 52 * rounds
      /\ rounds <= 4 => first.taskLen > 0
  BY LenProperties DEF TaskPlaced, Squeeze
<1>2. first \in V
  <2>1. Len(conversation) \in Nat \ {0}
    BY EmptySeq DEF TaskPlaced
  <2>2. 1 \in 1..Len(conversation)
    BY <2>1
  <2> QED BY <1>1, <2>2, ElementOfSeq
<1>3. AutoCompact(conversation) # Unchanged(conversation)
  BY DEF Squeeze, Unchanged
<1>4. PICK header \in {LightHeader, AggressiveHeader}, tail \in {LightTail, AggressiveTail} :
        Len(conversation) >= tail + 2 /\ AutoCompact(conversation) = Summarized(header, tail, conversation)
  <2>1. CASE Len(conversation) >= 10 /\ AutoCompact(conversation) = Summarized(LightHeader, LightTail, conversation)
    <3>1. Len(conversation) >= LightTail + 2
      BY <1>1, <2>1 DEF LightTail
    <3> QED BY <2>1, <3>1
  <2>2. CASE Len(conversation) >= 6 /\ AutoCompact(conversation) = Summarized(AggressiveHeader, AggressiveTail, conversation)
    <3>1. Len(conversation) >= AggressiveTail + 2
      BY <1>1, <2>2 DEF AggressiveTail
    <3> QED BY <2>2, <3>1
  <2> QED BY <1>1, <1>3, <2>1, <2>2, AutoCompactIs
<1> DEFINE out == Summarized(header, tail, conversation).messages
<1>5. header \in Nat /\ header <= 43 /\ tail \in Nat
  BY DEF LightHeader, AggressiveHeader, LightTail, AggressiveTail
<1> HIDE DEF first, V
<1>6. /\ out[1].role = "system" /\ out[1].taskLen = TaskKept(first)
      /\ out[1].taskAt = header + Tag(first.role) + first.taskAt
  BY <1>1, <1>4, <1>5, TaskMoves DEF V, first
<1>7. out \in Seq(V) /\ out # <<>>
  <2>1. CutOf(TalkIds, conversation, Summarized(header, tail, conversation))
    BY <1>1, <1>4, <1>5, SummarizedShape DEF V
  <2>2. out \in Seq(V) /\ Len(out) >= 1
    BY <2>1 DEF CutOf, V
  <2> QED BY <2>2, EmptySeq
<1>8. conversation' = out
  BY <1>4 DEF Squeeze
<1> HIDE DEF out
<1>9. first.taskAt \in Nat /\ first.taskLen \in Nat /\ first.text \in Nat
  BY <1>2 DEF V, Message
<1>10. Tag(first.role) \in Nat /\ Tag(first.role) <= 9
  BY <1>1 DEF Tag
<1>11. out[1].taskAt <= 43 + 52 * rounds'
  BY <1>1, <1>5, <1>6, <1>9, <1>10
<1>12. rounds' <= 4 => out[1].taskLen > 0
  <2>1. ASSUME rounds' <= 4 PROVE TaskKept(first) > 0
    <3>1. rounds <= 3 /\ first.taskAt <= 199 /\ first.taskLen > 0
      BY <1>1, <1>9, <2>1
    <3> QED BY <1>9, <3>1 DEF TaskKept, ClipLen
  <2> QED BY <1>6, <2>1
<1> QED
  BY <1>1, <1>6, <1>7, <1>8, <1>11, <1>12 DEF TaskPlaced, V

LEMMA TalkStep ==
    ASSUME TaskPlaced, TalkNext \/ UNCHANGED talkVars
    PROVE  TaskPlaced'
<1>1. CASE UNCHANGED talkVars
  BY <1>1 DEF TaskPlaced, talkVars
<1> QED
  BY <1>1, TalkGrows, TalkShrinks DEF TalkNext

\* The user's task is still in the conversation after four compactions
\* (ctxmgr/manager.go, summarizeMessages), for every prompt, whatever step it is
\* put to, every token limit and every rendering.
THEOREM TaskOutlivesFourCompactions == TalkSpec => []TaskSurvivesFourCompactions
<1>1. TalkInit => TaskPlaced
  BY TalkBegins
<1>2. TaskPlaced /\ [TalkNext]_talkVars => TaskPlaced'
  BY TalkStep
<1>3. TaskPlaced => TaskSurvivesFourCompactions
  BY DEF TaskPlaced, TaskSurvivesFourCompactions
<1> QED
  BY <1>1, <1>2, <1>3, PTL DEF TalkSpec

\* After two rounds a third finds nothing to do (AutoCompact).
THEOREM ThirdRoundFindsNothing == TalkSpec => []TwoRoundsSettle
<1>1. TalkInit => TaskPlaced
  BY TalkBegins
<1>2. TaskPlaced /\ [TalkNext]_talkVars => TaskPlaced'
  BY TalkStep
<1>3. TaskPlaced => TwoRoundsSettle
  BY ThirdRoundIdle DEF TaskPlaced, TwoRoundsSettle
<1> QED
  BY <1>1, <1>2, <1>3, PTL DEF TalkSpec

-----------------------------------------------------------------------------
(* Types.                                                                   *)

LEMMA SayType ==
    ASSUME NEW role \in Roles, NEW text \in Nat,
           NEW calls \in Seq(Ids), NEW answers \in Seq(Ids)
    PROVE  Say(role, text, calls, answers) \in Message(Ids)
  BY DEF Say, Message

LEMMA UserMessageType ==
    ASSUME NEW len \in Nat
    PROVE  UserMessage(len) \in Message(Ids)
<1>1. <<>> \in Seq(Ids)
  BY EmptySeq
<1> QED
  BY <1>1 DEF UserMessage, Say, Message, Roles

LEMMA EmptyReplyType == EmptyReply \in Message(Ids)
<1>1. <<>> \in Seq(Ids)
  BY EmptySeq
<1> QED
  BY <1>1, SayType DEF EmptyReply, Roles

LEMMA RepliesType ==
    ASSUME NEW i \in Nat, NEW r \in Replies(i)
    PROVE  r \in Message(Ids) /\ r.role = "assistant"
<1>1. PICK t \in TextLens, n \in 0..MaxCalls :
        r = Say("assistant", t, [k \in 1..n |-> <<i, k>>], <<>>)
  BY DEF Replies
<1>2. [k \in 1..n |-> <<i, k>>] \in Seq(Ids)
  <2>1. n \in Nat
    BY ReplyAssumption
  <2>2. \A k \in 1..n : <<i, k>> \in Ids
    BY DEF Ids
  <2> QED BY <2>1, <2>2
<1>3. <<>> \in Seq(Ids) /\ t \in Nat /\ "assistant" \in Roles
  BY EmptySeq, ReplyAssumption DEF Roles
<1>4. r \in Message(Ids)
  BY <1>1, <1>2, <1>3, SayType
<1>5. r.role = "assistant"
  BY <1>1 DEF Say
<1> QED
  BY <1>4, <1>5

LEMMA ToolResultType ==
    ASSUME NEW call \in Ids
    PROVE  ToolResultMessage(call) \in Message(Ids)
<1>1. <<>> \in Seq(Ids) /\ <<call>> \in Seq(Ids)
  BY EmptySeq
<1> QED
  BY <1>1, SayType DEF ToolResultMessage, Roles

\* The books stay of their type when they are kept.
LEMMA MemoryType ==
    ASSUME NEW m \in Memory
    PROVE  /\ [m EXCEPT !.responses = @ + 1] \in Memory
           /\ [m EXCEPT !.tools = @ + 1] \in Memory
           /\ [m EXCEPT !.insights = @ + 1] \in Memory
  BY DEF Memory

LEMMA ProfileType ==
    ASSUME NEW p \in Profile
    PROVE  /\ [p EXCEPT !.failures = @ + 1] \in Profile
           /\ [p EXCEPT !.usage = @ + 1] \in Profile
           /\ \A success \in BOOLEAN :
                [p EXCEPT !.usage = @ + 1,
                          !.failures = IF success THEN @ ELSE @ + 1] \in Profile
<1>1. [p EXCEPT !.failures = @ + 1] \in Profile
  BY DEF Profile
<1>2. [p EXCEPT !.usage = @ + 1] \in Profile
  BY DEF Profile
<1>3. ASSUME NEW u \in Nat, NEW f \in Nat
      PROVE  [p EXCEPT !.usage = u, !.failures = f] \in Profile
  BY DEF Profile
<1>4. ASSUME NEW success \in BOOLEAN
      PROVE  [p EXCEPT !.usage = @ + 1,
                       !.failures = IF success THEN @ ELSE @ + 1] \in Profile
  <2>1. p.usage + 1 \in Nat /\ (IF success THEN p.failures ELSE p.failures + 1) \in Nat
    BY DEF Profile
  <2> QED BY <1>3, <2>1
<1> QED
  BY <1>1, <1>2, <1>4

LEMMA ResultType ==
    ASSUME NEW r \in StepResult, NEW h \in Seq(Message(Ids)), NEW f \in BOOLEAN
    PROVE  /\ [r EXCEPT !.steps = @ + 1] \in StepResult
           /\ [r EXCEPT !.steps = @ + 1, !.messages = h] \in StepResult
           /\ [r EXCEPT !.steps = @ + 1, !.messages = h, !.finished = f] \in StepResult
           /\ [r EXCEPT !.toolResults = @ + 1, !.messages = h] \in StepResult
<1>1. r.steps + 1 \in Nat /\ r.toolResults + 1 \in Nat
  BY DEF StepResult
<1>2. ASSUME NEW n \in Nat
      PROVE  /\ [r EXCEPT !.steps = n] \in StepResult
             /\ [r EXCEPT !.steps = n, !.messages = h] \in StepResult
             /\ [r EXCEPT !.steps = n, !.messages = h, !.finished = f] \in StepResult
             /\ [r EXCEPT !.toolResults = n, !.messages = h] \in StepResult
  BY DEF StepResult
<1> QED
  BY <1>1, <1>2

\* The conversation after the check for compaction at the top of a step.
LEMMA RefreshedShape ==
    ASSUME messages \in Seq(Message(Ids)), NEW elapsed \in BOOLEAN
    PROVE  \/ Refreshed(elapsed) = [messages |-> messages, compacted |-> FALSE]
           \/ CutOf(Ids, messages, Refreshed(elapsed))
  BY AutoCompactShape DEF Refreshed, Unchanged

LEMMA RefreshType ==
    ASSUME TypeOK, NEW elapsed \in BOOLEAN, Refresh(elapsed)
    PROVE  /\ messages' \in Seq(Message(Ids))
           /\ memory' \in Memory
<1>1. messages' \in Seq(Message(Ids))
  <2>1. messages' = Refreshed(elapsed).messages /\ messages \in Seq(Message(Ids))
    BY DEF Refresh, TypeOK
  <2>2. CASE Refreshed(elapsed) = [messages |-> messages, compacted |-> FALSE]
    BY <2>1, <2>2
  <2>3. CASE CutOf(Ids, messages, Refreshed(elapsed))
    BY <2>1, <2>3 DEF CutOf
  <2> QED BY <2>1, <2>2, <2>3, RefreshedShape
<1>2. memory' \in Memory
  BY MemoryType DEF TypeOK, Refresh
<1> QED
  BY <1>1, <1>2

LEMMA NextCallType ==
    ASSUME TypeOK, TakeUpCall
    PROVE  NextCall \in Ids
<1>1. reply.calls \in Seq(Ids)
  BY DEF TypeOK, Message
<1>2. called + 1 \in 1..Len(reply.calls)
  BY <1>1, LenProperties DEF TakeUpCall, TypeOK
<1> QED
  BY <1>1, <1>2, ElementOfSeq DEF NextCall

LEMMA InitType == Init => TypeOK
<1> SUFFICES ASSUME Init PROVE TypeOK
  OBVIOUS
<1>1. budget \in Nat \ {0}
  BY StepsAssumption DEF Init, Budget
<1>2. messages \in Seq(Message(Ids))
  BY UserMessageType, PromptAssumption, EmptySeq DEF Init
<1>3. <<>> \in Seq(Message(Ids)) /\ <<>> \in Seq(Record)
  BY EmptySeq
<1> QED
  BY <1>1, <1>2, <1>3, EmptyReplyType DEF Init, TypeOK, StepResult, Memory, Profile

LEMMA NextType == TypeOK /\ [Next]_vars => TypeOK'
<1> SUFFICES ASSUME TypeOK, [Next]_vars PROVE TypeOK'
  OBVIOUS
<1>1. CASE PrepareRequest
  <2>1. PICK elapsed \in BOOLEAN : Refresh(elapsed)
    BY <1>1 DEF PrepareRequest
  <2>2. /\ messages' \in Seq(Message(Ids))
        /\ memory' \in Memory
    BY <2>1, RefreshType
  <2>3. request' \in Seq(Message(Ids))
    BY <1>1, <2>2, GuardShape DEF PrepareRequest
  <2> QED BY <1>1, <2>2, <2>3 DEF PrepareRequest, TypeOK
<1>2. CASE PreModelHookFails
  <2>1. PICK elapsed \in BOOLEAN : Refresh(elapsed)
    BY <1>2 DEF PreModelHookFails
  <2>2. /\ messages' \in Seq(Message(Ids))
        /\ memory' \in Memory
    BY <2>1, RefreshType
  <2> QED BY <1>2, <2>2 DEF PreModelHookFails, TypeOK
<1>3. CASE ChatFails
  BY <1>3, ProfileType DEF ChatFails, TypeOK
<1>4. CASE PostModelHookFails
  BY <1>4, ResultType DEF PostModelHookFails, TypeOK
<1>5. CASE ReceiveReply
  <2>1. PICK r \in Replies(step) :
          /\ Accept(r)
          /\ result' = [result EXCEPT !.steps = @ + 1,
                                      !.messages = Append(@, r),
                                      !.finished = r.calls = <<>>]
          /\ pc' = IF r.calls = <<>> THEN "final" ELSE "tools"
    BY <1>5 DEF ReceiveReply
  <2>2. r \in Message(Ids)
    BY RepliesType DEF TypeOK
  <2>3. reply' \in Message(Ids) /\ called' \in Nat /\ messages' \in Seq(Message(Ids))
    BY <2>1, <2>2, AppendProperties DEF Accept, TypeOK
  <2>4. result' \in StepResult
    <3>1. Append(result.messages, r) \in Seq(Message(Ids))
      BY <2>2, AppendProperties DEF TypeOK, StepResult
    <3>2. (r.calls = <<>>) \in BOOLEAN
      OBVIOUS
    <3> QED BY <2>1, <3>1, <3>2, ResultType DEF TypeOK
  <2>5. memory' \in Memory
    BY <1>5, MemoryType DEF ReceiveReply, TypeOK
  <2> QED BY <1>5, <2>1, <2>3, <2>4, <2>5 DEF ReceiveReply, TypeOK
<1>6. CASE ReceiveEmptyReply
  <2>1. reply' \in Message(Ids) /\ called' \in Nat /\ messages' \in Seq(Message(Ids))
    BY <1>6, EmptyReplyType, AppendProperties DEF ReceiveEmptyReply, Accept, TypeOK
  <2>2. Append(result.messages, EmptyReply) \in Seq(Message(Ids))
    BY EmptyReplyType, AppendProperties DEF TypeOK, StepResult
  <2>3. result' \in StepResult
    BY <1>6, <2>2, ResultType DEF ReceiveEmptyReply, TypeOK
  <2> QED BY <1>6, <2>1, <2>3 DEF ReceiveEmptyReply, TypeOK
<1>7. CASE RunTool
  <2>1. NextCall \in Ids
    BY <1>7, NextCallType DEF RunTool
  <2>2. ToolResultMessage(NextCall) \in Message(Ids)
    BY <2>1, ToolResultType
  <2>3. /\ Append(messages, ToolResultMessage(NextCall)) \in Seq(Message(Ids))
        /\ Append(result.messages, ToolResultMessage(NextCall)) \in Seq(Message(Ids))
    BY <2>2, AppendProperties DEF TypeOK, StepResult
  <2>4. profile' \in Profile
    BY <1>7, ProfileType DEF RunTool, TypeOK
  <2>5. result' \in StepResult
    BY <1>7, <2>3, ResultType DEF RunTool, TypeOK
  <2>6. memory' \in Memory
    BY <1>7, MemoryType DEF RunTool, TypeOK
  <2> QED BY <1>7, <2>3, <2>4, <2>5, <2>6 DEF RunTool, TakeUpCall, TypeOK
<1>8. CASE PreToolHookFails
  <2>1. profile' \in Profile
    BY <1>8, ProfileType DEF PreToolHookFails, TypeOK
  <2> QED BY <1>8, <2>1 DEF PreToolHookFails, TakeUpCall, TypeOK
<1>9. CASE NextStep
  BY <1>9 DEF NextStep, TypeOK
<1>10. CASE Conclude
  <2> DEFINE rec == [steps |-> result.steps, toolCalls |-> result.toolResults,
                     success |-> result.finished]
  <2>1. rec \in Record
    BY DEF TypeOK, Record, StepResult
  <2>2. Append(profile.records, rec) \in Seq(Record)
    <3> HIDE DEF rec
    <3> QED BY <2>1, AppendProperties DEF TypeOK, Profile
  <2> QED BY <1>10, <2>2 DEF Conclude, TypeOK, Profile
<1>11. CASE UNCHANGED vars
  BY <1>11 DEF vars, TypeOK
<1> QED
  BY <1>1, <1>2, <1>3, <1>4, <1>5, <1>6, <1>7, <1>8, <1>9, <1>10, <1>11 DEF Next

\* All variables keep their types; in particular every summary is a message
\* with a length, whatever was summarized.
THEOREM TypeCorrect == Spec => []TypeOK
  BY InitType, NextType, PTL DEF Spec

-----------------------------------------------------------------------------
(* Threads: calls and their answers.                                        *)

\* Any last part of a conversation that is a last part of a history with all
\* calls answered is threaded: the two cuts, of compaction and of the guard,
\* can only separate answers at the very front from their calls.
LEMMA SuffixThreaded ==
    ASSUME NEW h \in Seq(Message(Ids)), NEW ms \in Seq(Message(Ids)),
           NEW rq \in Seq(Message(Ids)), NEW lead \in {0, 1},
           \A i \in 1..Len(h) : \A k \in 1..Len(h[i].calls) :
             i + k <= Len(h) /\ h[i + k].answers = <<h[i].calls[k]>>,
           \A p \in 1..Len(h) : h[p].role = "tool" =>
             \E q \in 1..p - 1 :
               /\ p - q \in 1..Len(h[q].calls)
               /\ h[p].answers = <<h[q].calls[p - q]>>
               /\ \A r \in q + 1 .. p : h[r].role = "tool",
           Len(ms) - lead <= Len(h),
           \A j \in lead + 1 .. Len(ms) : ms[j] = h[Len(h) - Len(ms) + j],
           lead = 1 => ms[1].calls = <<>> /\ ms[1].role \notin {"assistant", "tool"},
           Len(rq) <= Len(ms),
           \A j \in 1..Len(rq) : rq[j] = ms[j + Len(ms) - Len(rq)]
    PROVE  Threaded(rq)
<1> DEFINE e == Len(ms) - Len(rq)
           d == Len(h) - Len(ms)
<1>1. /\ Len(h) \in Nat /\ Len(ms) \in Nat /\ Len(rq) \in Nat
      /\ DOMAIN rq = 1..Len(rq)
  BY LenProperties
<1>2. e \in Nat /\ d \in Int /\ d >= 0 - lead
  BY <1>1
\* A message of rq behind the lead is a message of h.
<1>3. ASSUME NEW i \in 1..Len(rq), i + e > lead
      PROVE  /\ i + e + d \in 1..Len(h)
             /\ rq[i] = h[i + e + d]
  <2>1. i + e \in lead + 1 .. Len(ms) /\ i + e = i + Len(ms) - Len(rq)
    BY <1>1, <1>2, <1>3
  <2>2. rq[i] = ms[i + e]
    BY <2>1
  <2>3. ms[i + e] = h[Len(h) - Len(ms) + (i + e)]
    <3> HIDE DEF e
    <3> QED BY <2>1
  <2>4. Len(h) - Len(ms) + (i + e) = i + e + d
    BY <1>1, <1>2
  <2>5. i + e + d >= 1 /\ i + e + d <= Len(h) /\ i + e + d \in Int
    BY <1>1, <1>2, <1>3
  <2> QED BY <2>2, <2>3, <2>4, <2>5
<1>4. ASSUME NEW i \in 1..Len(rq), ~(i + e > lead)
      PROVE  rq[i].calls = <<>> /\ rq[i].role \notin {"assistant", "tool"}
  <2>1. lead = 1 /\ i + e = 1
    BY <1>1, <1>2, <1>4
  <2>2. rq[i] = ms[1]
    <3>1. i + Len(ms) - Len(rq) = 1
      BY <2>1, <1>1
    <3> QED BY <3>1
  <2> QED BY <2>1, <2>2
<1>5. \A i \in 1..Len(rq) : DOMAIN rq[i].calls = 1..Len(rq[i].calls) /\ Len(rq[i].calls) \in Nat
  <2>1. \A i \in 1..Len(rq) : rq[i] \in Message(Ids)
    BY ElementOfSeq
  <2>2. \A m \in Message(Ids) : m.calls \in Seq(Ids)
    BY DEF Message
  <2> QED BY <2>1, <2>2, LenProperties
<1>6. ASSUME NEW i \in 1..Len(rq), NEW k \in 1..Len(rq[i].calls)
      PROVE  i + k <= Len(rq) /\ rq[i + k].answers = <<rq[i].calls[k]>>
  <2>1. i + e > lead
    <3>1. SUFFICES ASSUME ~(i + e > lead) PROVE FALSE
      OBVIOUS
    <3>2. Len(rq[i].calls) = 0
      BY <1>4, <3>1
    <3> QED BY <3>2
  <2>2. i + e + d \in 1..Len(h) /\ rq[i] = h[i + e + d]
    BY <1>3, <2>1
  <2>3. k \in 1..Len(h[i + e + d].calls) /\ k \in Int /\ k >= 1
    BY <2>2, <1>5
  <2>4. /\ (i + e + d) + k <= Len(h)
        /\ h[(i + e + d) + k].answers = <<h[i + e + d].calls[k]>>
    <3> HIDE DEF e, d
    <3> QED BY <2>2, <2>3
  <2>5. i + k <= Len(rq) /\ i + k \in 1..Len(rq) /\ (i + k) + e > lead
    <3>1. (i + e + d) + k <= Len(h)
      BY <2>4
    <3> QED BY <1>1, <1>2, <2>1, <2>3, <3>1
  <2>6. rq[i + k] = h[(i + k) + e + d]
    <3> HIDE DEF e, d
    <3> QED BY <1>3, <2>5
  <2>7. (i + k) + e + d = (i + e + d) + k
    BY <1>1, <1>2, <2>3
  <2> HIDE DEF e, d
  <2> QED BY <2>2, <2>4, <2>5, <2>6, <2>7
<1>7. ASSUME NEW j \in 1..Len(rq), rq[j].role = "tool"
      PROVE  \/ \A i \in 1..j : rq[i].role # "assistant"
             \/ \E i \in 1..j : \E k \in 1..Len(rq[i].calls) :
                  rq[j].answers = <<rq[i].calls[k]>>
  <2>1. j + e > lead
    BY <1>4, <1>7
  <2>2. j + e + d \in 1..Len(h) /\ rq[j] = h[j + e + d]
    BY <1>3, <2>1
  <2>3. PICK q \in 1 .. (j + e + d) - 1 :
          /\ (j + e + d) - q \in 1..Len(h[q].calls)
          /\ h[j + e + d].answers = <<h[q].calls[(j + e + d) - q]>>
          /\ \A r \in q + 1 .. j + e + d : h[r].role = "tool"
    <3> HIDE DEF e, d
    <3> QED BY <2>2, <1>7
  <2> DEFINE i0 == q - d - e
  <2>4. i0 \in Int /\ i0 + e + d = q /\ i0 < j
    BY <1>1, <1>2, <2>2, <2>3
  <2>5. CASE i0 >= 1 /\ i0 + e > lead
    <3>1. i0 \in 1..Len(rq) /\ i0 \in 1..j
      BY <1>1, <2>4, <2>5
    <3>2. rq[i0] = h[q]
      <4>1. rq[i0] = h[i0 + e + d]
        <5> HIDE DEF e, d, i0
        <5> QED BY <1>3, <3>1, <2>5
      <4> QED BY <4>1, <2>4
    <3>3. (j + e + d) - q \in 1..Len(rq[i0].calls)
          /\ rq[j].answers = <<rq[i0].calls[(j + e + d) - q]>>
      <4> HIDE DEF e, d, i0
      <4> QED BY <3>2, <2>2, <2>3
    <3> HIDE DEF e, d, i0
    <3> QED BY <3>1, <3>3
  <2>6. CASE ~(i0 >= 1 /\ i0 + e > lead)
    <3>1. ASSUME NEW i \in 1..j PROVE rq[i].role # "assistant"
      <4>0. i \in 1..Len(rq)
        BY <1>1
      <4>1. CASE ~(i + e > lead)
        BY <1>4, <4>0, <4>1
      <4>2. CASE i + e > lead
        <5>1. i + e + d \in q + 1 .. j + e + d
          BY <1>1, <1>2, <2>3, <2>4, <2>6, <4>2
        <5>2. rq[i] = h[i + e + d]
          <6> HIDE DEF e, d
          <6> QED BY <1>3, <4>0, <4>2
        <5>3. h[i + e + d].role = "tool"
          <6> HIDE DEF e, d
          <6> QED BY <5>1, <2>3
        <5> QED BY <5>2, <5>3
      <4> QED BY <4>1, <4>2
    <3> QED BY <3>1
  <2> QED BY <2>5, <2>6
<1>8. \A i \in DOMAIN rq : \A k \in DOMAIN rq[i].calls :
         i + k <= Len(rq) /\ rq[i + k].answers = <<rq[i].calls[k]>>
  BY <1>1, <1>5, <1>6
<1>9. ASSUME NEW j \in DOMAIN rq, rq[j].role = "tool"
      PROVE  \/ \A i \in 1..j : rq[i].role # "assistant"
             \/ \E i \in 1..j : \E k \in DOMAIN rq[i].calls :
                  rq[j].answers = <<rq[i].calls[k]>>
  <2>1. j \in 1..Len(rq) /\ \A i \in 1..j : i \in 1..Len(rq)
    BY <1>1, <1>9
  <2>2. \A i \in 1..j : DOMAIN rq[i].calls = 1..Len(rq[i].calls)
    BY <2>1, <1>5
  <2> QED BY <1>7, <1>9, <2>1, <2>2
<1> QED
  BY <1>8, <1>9, Zenon DEF Threaded
-----------------------------------------------------------------------------
(* The inductive invariant behind the claims about the conversation.        *)

\* The full history is the loop's own: replies, and answers without calls.
HistoryShape ==
    \A p \in 1..Len(History) :
      /\ History[p].role \in {"assistant", "tool"}
      /\ History[p].role = "tool" => History[p].calls = <<>>

\* While calls are carried out the history ends with the reply that made
\* them and the answers to those already taken up.
CurrentReply ==
    pc = "tools" =>
      /\ called <= Len(reply.calls)
      /\ NoneRefused =>
           /\ called < Len(History)
           /\ History[Len(History) - called] = reply
           /\ \A p \in Len(History) - called + 1 .. Len(History) : History[p].role = "tool"

\* An answer stands among the answers behind the reply with its call.
AnswersHaveCalls ==
    NoneRefused =>
      \A p \in 1..Len(History) : History[p].role = "tool" =>
        \E q \in 1..p - 1 :
          /\ p - q \in 1..Len(History[q].calls)
          /\ History[p].answers = <<History[q].calls[p - q]>>
          /\ \A r \in q + 1 .. p : History[r].role = "tool"

\* What stands in front of the loop's own messages makes no calls.
LeadShape == Lead = 1 => messages[1].calls = <<>>

ThreadInv ==
    /\ HistoryShape
    /\ CurrentReply
    /\ CallsAnswered
    /\ AnswersHaveCalls
    /\ LeadShape
    /\ ConversationIsRecent
    /\ RequestThreaded

-----------------------------------------------------------------------------
(* The inductive invariants behind the budget and the books.                *)

\* The replies counted, against the loop counter, wherever Execute is.
StepsCounted ==
    /\ result.steps <= budget
    /\ pc \in {"top", "chat", "tools"} =>
         /\ step < budget
         /\ result.steps = IF pc = "tools" THEN step + 1 ELSE step
         /\ ~result.finished
    /\ result.finished =>
         /\ Len(History) > 0
         /\ History[Len(History)].role = "assistant"
         /\ History[Len(History)].calls = <<>>
    /\ pc \in {"final", "done"} /\ ~result.finished => result.steps = budget
    /\ ~result.finished /\ pc # "panicked" =>
         \A p \in 1..Len(History) :
           History[p].role = "assistant" => History[p].calls # <<>>

-----------------------------------------------------------------------------
(* Steps on the conversation: it is cut, or it grows with the history.      *)

LEMMA HistoryType ==
    ASSUME TypeOK
    PROVE  /\ History \in Seq(Message(Ids))
           /\ Len(History) \in Nat
           /\ DOMAIN History = 1..Len(History)
           /\ \A p \in 1..Len(History) :
                /\ History[p] \in Message(Ids)
                /\ History[p].calls \in Seq(Ids)
                /\ Len(History[p].calls) \in Nat
                /\ DOMAIN History[p].calls = 1..Len(History[p].calls)
<1>1. History \in Seq(Message(Ids))
  BY DEF TypeOK, StepResult, History
<1>2. \A m \in Message(Ids) : m.calls \in Seq(Ids)
  BY DEF Message
<1> QED
  BY <1>1, <1>2, LenProperties, ElementOfSeq

\* Compaction keeps a last part of the conversation behind a new lead.
LEMMA RefreshRecent ==
    ASSUME TypeOK, LeadShape, ConversationIsRecent,
           NEW elapsed \in BOOLEAN, Refresh(elapsed), result' = result
    PROVE  ConversationIsRecent' /\ LeadShape'
<1> DEFINE new == Refreshed(elapsed).messages
<1>1. messages' = new /\ History' = History
  BY DEF Refresh, History
<1>2. messages \in Seq(Message(Ids)) /\ Len(messages) \in Nat
  BY LenProperties DEF TypeOK
<1>3. Lead \in {0, 1}
  BY DEF Lead
<1>4. CASE Refreshed(elapsed) = [messages |-> messages, compacted |-> FALSE]
  <2>1. messages' = messages
    BY <1>1, <1>4
  <2>2. Lead' = Lead
    BY <2>1 DEF Lead
  <2> QED BY <1>1, <2>1, <2>2 DEF ConversationIsRecent, LeadShape
<1>5. CASE CutOf(Ids, messages, Refreshed(elapsed))
  <2>1. /\ new \in Seq(Message(Ids)) /\ Len(new) \in Nat
        /\ Len(new) >= 1 /\ Len(new) < Len(messages)
        /\ new[1].role = "system" /\ new[1].calls = <<>>
        /\ \A j \in 2..Len(new) : new[j] = messages[j + Len(messages) - Len(new)]
    BY <1>5, LenProperties DEF CutOf
  <2>2. messages' # <<>> /\ messages'[1] = new[1]
    <3> HIDE DEF new
    <3> QED BY <1>1, <2>1
  <2>3. Lead' = 1
    BY <2>1, <2>2 DEF Lead
  <2>4. LeadShape'
    BY <2>1, <2>2 DEF LeadShape
  <2> HIDE DEF new
  <2>5. Len(new) - 1 <= Len(History)
    BY <1>2, <1>3, <2>1, HistoryType DEF ConversationIsRecent
  <2>6. ASSUME NEW j \in 2..Len(new)
        PROVE  new[j] = History[Len(History) - Len(new) + j]
    <3> DEFINE at == j + Len(messages) - Len(new)
    <3>1. at \in Lead + 1 .. Len(messages)
      BY <1>2, <1>3, <2>1
    <3>2. messages[at] = History[Len(History) - Len(messages) + at]
      <4> HIDE DEF at
      <4> QED BY <3>1 DEF ConversationIsRecent
    <3>3. Len(History) - Len(messages) + at = Len(History) - Len(new) + j
      BY <1>2, <2>1, HistoryType
    <3> QED BY <2>1, <3>2, <3>3
  <2> QED BY <1>1, <2>3, <2>4, <2>5, <2>6 DEF ConversationIsRecent
<1> QED
  BY <1>2, <1>4, <1>5, RefreshedShape

\* A reply or an answer is the last message of both.
LEMMA AppendRecent ==
    ASSUME TypeOK, LeadShape, ConversationIsRecent,
           NEW m \in Message(Ids), m.role \in {"assistant", "tool"},
           messages' = Append(messages, m), History' = Append(History, m)
    PROVE  ConversationIsRecent' /\ LeadShape'
<1>1. messages \in Seq(Message(Ids)) /\ Len(messages) \in Nat
  BY LenProperties DEF TypeOK
<1>2. /\ Len(messages') = Len(messages) + 1
      /\ messages' # <<>>
      /\ messages'[Len(messages) + 1] = m
      /\ \A j \in 1..Len(messages) : messages'[j] = messages[j]
  <2>1. Len(messages') = Len(messages) + 1
    BY <1>1, AppendProperties
  <2>2. messages' # <<>>
    BY <1>1, <2>1
  <2> QED BY <1>1, <2>1, <2>2, AppendProperties
<1>3. /\ Len(History') = Len(History) + 1
      /\ History'[Len(History) + 1] = m
      /\ \A p \in 1..Len(History) : History'[p] = History[p]
      /\ Len(History) \in Nat
  BY HistoryType, AppendProperties
<1>4. Lead' = Lead /\ Lead \in {0, 1} /\ (Lead = 1 => messages'[1] = messages[1])
  <2>1. CASE messages = <<>>
    <3>1. messages'[1] = m
      BY <1>2, <2>1
    <3> QED BY <1>2, <2>1, <3>1 DEF Lead
  <2>2. CASE messages # <<>>
    <3>1. 1 \in 1..Len(messages)
      BY <1>1, <2>2, EmptySeq
    <3>2. messages'[1] = messages[1]
      BY <1>2, <3>1
    <3> QED BY <1>2, <2>2, <3>2 DEF Lead
  <2> QED BY <2>1, <2>2
<1>5. LeadShape'
  BY <1>4 DEF LeadShape
<1>6. Len(messages') - Lead' <= Len(History')
  BY <1>1, <1>2, <1>3, <1>4 DEF ConversationIsRecent
<1>7. ASSUME NEW j \in Lead' + 1 .. Len(messages')
      PROVE  messages'[j] = History'[Len(History') - Len(messages') + j]
  <2>1. CASE j = Len(messages')
    <3>1. Len(History') - Len(messages') + j = Len(History) + 1
      BY <1>1, <1>2, <1>3, <2>1
    <3> QED BY <1>2, <1>3, <2>1, <3>1
  <2>2. CASE j # Len(messages')
    <3>1. j \in Lead + 1 .. Len(messages) /\ j \in 1..Len(messages)
      BY <1>1, <1>2, <1>4, <2>2
    <3>2. messages[j] = History[Len(History) - Len(messages) + j]
      BY <3>1 DEF ConversationIsRecent
    <3>3. /\ Len(History') - Len(messages') + j = Len(History) - Len(messages) + j
          /\ Len(History) - Len(messages) + j \in 1..Len(History)
      <4>1. Len(messages) - Lead <= Len(History)
        BY DEF ConversationIsRecent
      <4> QED BY <1>1, <1>2, <1>3, <1>4, <3>1, <4>1
    <3> QED BY <1>2, <1>3, <3>1, <3>2, <3>3
  <2> QED BY <2>1, <2>2
<1> QED
  BY <1>5, <1>6, <1>7 DEF ConversationIsRecent

-----------------------------------------------------------------------------
(* Steps on the threads.                                                    *)

\* The answer to the next call goes behind the answers already there.
LEMMA AnswerThread ==
    ASSUME TypeOK, HistoryShape, CurrentReply, CallsAnswered, AnswersHaveCalls,
           NoneRefused' => NoneRefused,
           TakeUpCall, NextCall \in Ids,
           History' = Append(History, ToolResultMessage(NextCall))
    PROVE  HistoryShape' /\ CurrentReply' /\ CallsAnswered' /\ AnswersHaveCalls'
<1> DEFINE n == Len(History)
           m == ToolResultMessage(NextCall)
<1>1. /\ pc = "tools" /\ pc' = "tools" /\ reply' = reply
      /\ called \in Nat /\ called' = called + 1
      /\ called + 1 \in 1..Len(reply.calls) /\ called + 1 <= Len(reply.calls)
      /\ DOMAIN reply.calls = 1..Len(reply.calls) /\ Len(reply.calls) \in Nat
  <2>1. reply.calls \in Seq(Ids)
    BY DEF TypeOK, Message
  <2> QED BY <2>1, LenProperties DEF TakeUpCall, TypeOK
<1>2. m.role = "tool" /\ m.calls = <<>> /\ m.answers = <<NextCall>>
  BY DEF ToolResultMessage, Say
<1>3. /\ n \in Nat /\ Len(History') = n + 1
      /\ History'[n + 1] = m
      /\ \A p \in 1..n : History'[p] = History[p]
      /\ DOMAIN History' = 1..n + 1
  <2>1. m \in Message(Ids)
    BY ToolResultType
  <2>2. History \in Seq(Message(Ids)) /\ n \in Nat
    BY HistoryType
  <2>3. History' = Append(History, m)
    OBVIOUS
  <2> HIDE DEF m
  <2>4. History' \in Seq(Message(Ids)) /\ Len(History') = n + 1
    BY <2>1, <2>2, <2>3, AppendProperties
  <2> QED BY <2>1, <2>2, <2>3, <2>4, AppendProperties, LenProperties
<1> HIDE DEF m, n
<1>4. ASSUME NEW p \in 1..n + 1, p \notin 1..n PROVE p = n + 1
  BY <1>3, <1>4
<1>5. HistoryShape'
  BY <1>2, <1>3, <1>4 DEF HistoryShape, n
<1>6. NoneRefused =>
        /\ called < n /\ History[n - called] = reply
        /\ n - called \in 1..n
        /\ \A p \in n - called + 1 .. n : History[p].role = "tool"
  BY <1>1, <1>3 DEF CurrentReply, n
<1>7. CurrentReply'
  <2>1. called' <= Len(reply'.calls)
    BY <1>1
  <2>2. ASSUME NoneRefused'
        PROVE  /\ called' < Len(History')
               /\ History'[Len(History') - called'] = reply'
               /\ \A p \in Len(History') - called' + 1 .. Len(History') :
                    History'[p].role = "tool"
    <3>1. Len(History') - called' = n - called /\ called' < Len(History')
      BY <1>1, <1>3, <1>6, <2>2
    <3>2. History'[n - called] = reply'
      BY <1>1, <1>3, <1>6, <2>2
    <3>3. ASSUME NEW p \in n - called + 1 .. Len(History') PROVE History'[p].role = "tool"
      <4>1. p = n + 1 \/ (p \in n - called + 1 .. n /\ p \in 1..n)
        BY <1>1, <1>3, <1>6, <2>2
      <4> QED BY <1>2, <1>3, <1>6, <2>2, <4>1
    <3> QED BY <3>1, <3>2, <3>3
  <2> QED BY <2>1, <2>2 DEF CurrentReply
<1>8. CallsAnswered'
  <2> SUFFICES ASSUME NoneRefused',
                      NEW i \in DOMAIN History', NEW k \in DOMAIN History'[i].calls
               PROVE  \/ /\ i + k <= Len(History')
                         /\ History'[i + k] = ToolResultMessage(History'[i].calls[k])
                      \/ i = Len(History') - called' /\ k > called'
    BY <1>1 DEF CallsAnswered
  <2>0. i \in 1..n + 1 /\ Len(History') = n + 1
    BY <1>3
  <2>1. i \in 1..n
    <3>1. SUFFICES ASSUME i = n + 1 PROVE FALSE
      BY <1>4, <2>0
    <3>2. DOMAIN History'[i].calls = {}
      <4>1. DOMAIN <<>> = {}
        OBVIOUS
      <4> QED BY <1>2, <1>3, <3>1, <4>1
    <3> QED BY <3>2
  <2>2. /\ History'[i] = History[i] /\ k \in DOMAIN History[i].calls
        /\ k \in Nat /\ k >= 1
    <3>1. History'[i] = History[i] /\ k \in DOMAIN History[i].calls
      BY <1>3, <2>1
    <3>2. DOMAIN History[i].calls = 1..Len(History[i].calls) /\ Len(History[i].calls) \in Nat
      BY <2>1, HistoryType DEF n
    <3> QED BY <3>1, <3>2
  <2>3. CASE i + k <= n /\ History[i + k] = ToolResultMessage(History[i].calls[k])
    <3>1. i + k \in 1..n /\ i + k <= n + 1
      BY <1>3, <2>1, <2>2, <2>3
    <3> QED BY <1>3, <2>0, <2>2, <2>3, <3>1
  <2>4. CASE i = n - called /\ k > called
    <3>1. CASE k = called + 1
      <4>1. i + k = n + 1
        BY <1>1, <1>3, <2>4, <3>1
      <4>2. History[i].calls[k] = NextCall
        BY <1>6, <2>4, <3>1 DEF NextCall
      <4>3. i + k <= Len(History')
        BY <1>3, <2>0, <4>1
      <4> QED BY <1>3, <2>2, <4>1, <4>2, <4>3 DEF m
    <3>2. CASE k # called + 1
      <4>1. i = Len(History') - called' /\ k > called'
        BY <1>1, <1>3, <2>0, <2>2, <2>4, <3>2
      <4> QED BY <4>1
    <3> QED BY <3>1, <3>2
  <2>5. i \in DOMAIN History
    BY <2>1, HistoryType DEF n
  <2> QED BY <2>2, <2>3, <2>4, <2>5 DEF CallsAnswered, n
<1>9. AnswersHaveCalls'
  <2> SUFFICES ASSUME NoneRefused', NEW p \in 1..n + 1, History'[p].role = "tool"
               PROVE  \E q \in 1..p - 1 :
                        /\ p - q \in 1..Len(History'[q].calls)
                        /\ History'[p].answers = <<History'[q].calls[p - q]>>
                        /\ \A r \in q + 1 .. p : History'[r].role = "tool"
    BY <1>3 DEF AnswersHaveCalls
  <2>1. CASE p \in 1..n
    <3>1. PICK q \in 1..p - 1 :
            /\ p - q \in 1..Len(History[q].calls)
            /\ History[p].answers = <<History[q].calls[p - q]>>
            /\ \A r \in q + 1 .. p : History[r].role = "tool"
      BY <1>3, <2>1 DEF AnswersHaveCalls, n
    <3>2. q \in 1..n /\ \A r \in q + 1 .. p : r \in 1..n
      BY <1>3, <2>1
    <3> QED BY <1>3, <2>1, <3>1, <3>2
  <2>2. CASE p = n + 1
    <3> DEFINE q == n - called
    <3>1. q \in 1..n /\ q \in 1..p - 1 /\ p - q = called + 1
      BY <1>1, <1>3, <1>6, <2>2
    <3>2. History'[q] = reply
      BY <1>3, <1>6
    <3>3. History'[p].answers = <<reply.calls[called + 1]>>
      BY <1>2, <1>3, <2>2 DEF NextCall
    <3>4. ASSUME NEW r \in q + 1 .. p PROVE History'[r].role = "tool"
      <4>1. r = n + 1 \/ (r \in n - called + 1 .. n /\ r \in 1..n)
        BY <1>1, <1>3, <3>1, <2>2
      <4> QED BY <1>2, <1>3, <1>6, <4>1
    <3> HIDE DEF q
    <3> QED BY <1>1, <3>1, <3>2, <3>3, <3>4
  <2> QED BY <1>4, <2>1, <2>2
<1> QED
  BY <1>5, <1>7, <1>8, <1>9

\* A reply opens its calls behind a history without open ones.
LEMMA ReplyThread ==
    ASSUME TypeOK, HistoryShape, CallsAnswered, AnswersHaveCalls, pc = "chat",
           NoneRefused' => NoneRefused,
           NEW r \in Message(Ids), r.role = "assistant",
           reply' = r, called' = 0, History' = Append(History, r),
           pc' = "tools" \/ r.calls = <<>>
    PROVE  HistoryShape' /\ CurrentReply' /\ CallsAnswered' /\ AnswersHaveCalls'
<1> DEFINE n == Len(History)
<1>1. /\ n \in Nat /\ Len(History') = n + 1
      /\ History'[n + 1] = r
      /\ \A p \in 1..n : History'[p] = History[p]
      /\ DOMAIN History' = 1..n + 1
  <2>1. History \in Seq(Message(Ids)) /\ n \in Nat
    BY HistoryType
  <2>2. History' \in Seq(Message(Ids)) /\ Len(History') = n + 1
    BY <2>1, AppendProperties
  <2> QED BY <2>1, <2>2, AppendProperties, LenProperties
<1>2. DOMAIN r.calls = 1..Len(r.calls) /\ Len(r.calls) \in Nat
  <2>1. r.calls \in Seq(Ids)
    BY DEF Message
  <2> QED BY <2>1, LenProperties
<1> HIDE DEF n
<1>3. ASSUME NEW p \in 1..n + 1, p \notin 1..n PROVE p = n + 1
  BY <1>1, <1>3
<1>4. HistoryShape'
  BY <1>1, <1>3 DEF HistoryShape, n
<1>5. CurrentReply'
  <2>1. \A p \in Len(History') - 0 + 1 .. Len(History') : FALSE
    BY <1>1
  <2>2. 0 < Len(History') /\ Len(History') - 0 = n + 1 /\ 0 <= Len(r.calls)
    BY <1>1, <1>2
  <2> QED BY <1>1, <2>1, <2>2 DEF CurrentReply
<1>6. CallsAnswered'
  <2> SUFFICES ASSUME NoneRefused',
                      NEW i \in DOMAIN History', NEW k \in DOMAIN History'[i].calls
               PROVE  \/ /\ i + k <= Len(History')
                         /\ History'[i + k] = ToolResultMessage(History'[i].calls[k])
                      \/ pc' = "tools" /\ i = Len(History') - called' /\ k > called'
    BY DEF CallsAnswered
  <2>0. i \in 1..n + 1 /\ Len(History') = n + 1
    BY <1>1
  <2>1. CASE i = n + 1
    <3>1. k \in 1..Len(r.calls)
      BY <1>1, <1>2, <2>1
    <3>2. k > 0 /\ r.calls # <<>> /\ i = Len(History') - 0
      BY <1>1, <1>2, <2>0, <2>1, <3>1
    <3> QED BY <3>2
  <2>2. CASE i \in 1..n
    <3>1. k \in DOMAIN History[i].calls /\ i \in DOMAIN History /\ History'[i] = History[i]
      BY <1>1, <2>2, HistoryType DEF n
    <3>2. i + k <= n /\ History[i + k] = ToolResultMessage(History[i].calls[k])
      BY <3>1 DEF CallsAnswered, n
    <3>3. k \in Nat /\ k >= 1
      <4>1. DOMAIN History[i].calls = 1..Len(History[i].calls) /\ Len(History[i].calls) \in Nat
        BY <2>2, HistoryType DEF n
      <4> QED BY <3>1, <4>1
    <3>4. i + k \in 1..n /\ i + k <= Len(History')
      BY <1>1, <2>0, <2>2, <3>2, <3>3
    <3> QED BY <1>1, <3>1, <3>2, <3>4
  <2> QED BY <1>3, <2>0, <2>1, <2>2
<1>7. AnswersHaveCalls'
  <2> SUFFICES ASSUME NoneRefused', NEW p \in 1..n + 1, History'[p].role = "tool"
               PROVE  \E q \in 1..p - 1 :
                        /\ p - q \in 1..Len(History'[q].calls)
                        /\ History'[p].answers = <<History'[q].calls[p - q]>>
                        /\ \A s \in q + 1 .. p : History'[s].role = "tool"
    BY <1>1 DEF AnswersHaveCalls
  <2>1. p \in 1..n
    BY <1>1, <1>3
  <2>2. PICK q \in 1..p - 1 :
          /\ p - q \in 1..Len(History[q].calls)
          /\ History[p].answers = <<History[q].calls[p - q]>>
          /\ \A s \in q + 1 .. p : History[s].role = "tool"
    BY <1>1, <2>1 DEF AnswersHaveCalls, n
  <2>3. q \in 1..n /\ \A s \in q + 1 .. p : s \in 1..n
    BY <1>1, <2>1
  <2> QED BY <1>1, <2>1, <2>2, <2>3
<1> QED
  BY <1>4, <1>5, <1>6, <1>7

\* What the guard lets through of a recent conversation is threaded.
LEMMA RequestFits ==
    ASSUME TypeOK, HistoryShape, CallsAnswered, AnswersHaveCalls, NoneRefused,
           pc = "top", messages' \in Seq(Message(Ids)), result' = result,
           ConversationIsRecent', LeadShape',
           request' = GuardRequest(SystemLen, messages')
    PROVE  Threaded(request')
<1>1. History' = History
  BY DEF History
<1>2. Lead' \in {0, 1} /\ (Lead' = 1 => messages'[1].role \notin {"assistant", "tool"})
  BY DEF Lead
<1>3. \A i \in 1..Len(History) : \A k \in 1..Len(History[i].calls) :
        i + k <= Len(History) /\ History[i + k].answers = <<History[i].calls[k]>>
  <2>1. \A call : ToolResultMessage(call).answers = <<call>>
    BY DEF ToolResultMessage, Say
  <2>2. ASSUME NEW i \in 1..Len(History), NEW k \in 1..Len(History[i].calls)
        PROVE  i + k <= Len(History) /\ History[i + k].answers = <<History[i].calls[k]>>
    <3>1. i \in DOMAIN History /\ k \in DOMAIN History[i].calls
      BY HistoryType
    <3>2. i + k <= Len(History) /\ History[i + k] = ToolResultMessage(History[i].calls[k])
      BY <3>1 DEF CallsAnswered
    <3> QED BY <2>1, <3>2
  <2> QED BY <2>2
<1>4. /\ request' \in Seq(Message(Ids))
      /\ Len(request') <= Len(messages')
      /\ \A j \in 1..Len(request') : request'[j] = messages'[j + Len(messages') - Len(request')]
  BY GuardShape
<1>5. \A p \in 1..Len(History) : History[p].role = "tool" =>
        \E q \in 1..p - 1 :
          /\ p - q \in 1..Len(History[q].calls)
          /\ History[p].answers = <<History[q].calls[p - q]>>
          /\ \A r \in q + 1 .. p : History[r].role = "tool"
  BY DEF AnswersHaveCalls
<1>6. /\ Len(messages') - Lead' <= Len(History)
      /\ \A j \in Lead' + 1 .. Len(messages') :
           messages'[j] = History[Len(History) - Len(messages') + j]
  BY <1>1 DEF ConversationIsRecent
<1>7. Lead' = 1 => messages'[1].calls = <<>>
  BY DEF LeadShape
<1>8. History \in Seq(Message(Ids))
  BY HistoryType
<1> DEFINE h == History
           ms == messages'
           rq == request'
           lead == Lead'
<1> HIDE DEF h, ms, rq, lead
<1>9. Threaded(rq)
  BY <1>2, <1>3, <1>4, <1>5, <1>6, <1>7, <1>8, SuffixThreaded DEF h, ms, rq, lead
<1> QED
  BY <1>9 DEF rq

LEMMA InitThread == Init => ThreadInv
<1> SUFFICES ASSUME Init PROVE ThreadInv
  OBVIOUS
<1>1. /\ History = <<>> /\ Len(History) = 0 /\ DOMAIN History = {}
      /\ pc = "top"
  BY DEF Init, History
<1>2. HistoryShape /\ CurrentReply /\ CallsAnswered /\ AnswersHaveCalls /\ RequestThreaded
  BY <1>1 DEF HistoryShape, CurrentReply, CallsAnswered, AnswersHaveCalls, RequestThreaded
<1>3. LeadShape /\ ConversationIsRecent
  <2>1. CASE messages = <<>>
    <3>1. Lead = 0 /\ Len(messages) = 0
      BY <2>1 DEF Lead
    <3> QED BY <1>1, <3>1 DEF LeadShape, ConversationIsRecent
  <2>2. CASE \E len \in PromptLens : messages = <<UserMessage(len)>>
    <3>1. /\ Len(messages) = 1 /\ messages # <<>>
          /\ messages[1].role = "user" /\ messages[1].calls = <<>>
      BY <2>2 DEF UserMessage, Say
    <3>2. Lead = 1
      BY <3>1 DEF Lead
    <3> QED BY <1>1, <3>1, <3>2 DEF LeadShape, ConversationIsRecent
  <2> QED BY <2>1, <2>2 DEF Init
<1> QED
  BY <1>2, <1>3 DEF ThreadInv

\* Steps that leave conversation and history alone and start no request.
LEMMA QuietThread ==
    ASSUME TypeOK, ThreadInv, History' = History, messages' = messages,
           NoneRefused' => NoneRefused,
           pc' \notin {"chat", "tools"},
           pc = "tools" => called = Len(reply.calls)
    PROVE  ThreadInv'
<1>1. HistoryShape' /\ CurrentReply' /\ AnswersHaveCalls' /\ RequestThreaded'
  BY DEF ThreadInv, HistoryShape, CurrentReply, AnswersHaveCalls, RequestThreaded
<1>2. LeadShape' /\ ConversationIsRecent'
  <2>1. Lead' = Lead
    BY DEF Lead
  <2> QED BY <2>1 DEF ThreadInv, LeadShape, ConversationIsRecent
<1>3. CallsAnswered'
  <2> SUFFICES ASSUME NoneRefused',
                      NEW i \in DOMAIN History, NEW k \in DOMAIN History[i].calls
               PROVE  /\ i + k <= Len(History)
                      /\ History[i + k] = ToolResultMessage(History[i].calls[k])
    BY DEF CallsAnswered
  <2>1. \/ /\ i + k <= Len(History)
           /\ History[i + k] = ToolResultMessage(History[i].calls[k])
        \/ pc = "tools" /\ i = Len(History) - called /\ k > called
    BY DEF ThreadInv, CallsAnswered
  <2>2. SUFFICES ASSUME pc = "tools", i = Len(History) - called, k > called
                 PROVE  FALSE
    BY <2>1
  <2>3. History[i] = reply /\ called = Len(reply.calls)
    BY <2>2 DEF ThreadInv, CurrentReply
  <2>4. k \in 1..called /\ called \in Nat
    BY <2>3, HistoryType DEF TypeOK
  <2> QED BY <2>2, <2>4
<1> QED
  BY <1>1, <1>2, <1>3 DEF ThreadInv

\* A refusal is never made good: RunTool counts the use and its result.
LEMMA RefusalsStay ==
    ASSUME TypeOK, profile.usage >= memory.tools, [Next]_vars
    PROVE  /\ NoneRefused' => NoneRefused
           /\ PreToolHookFails => ~NoneRefused'
<1>0. /\ memory \in Memory /\ profile \in Profile
      /\ memory.tools \in Nat /\ profile.usage \in Nat
  BY DEF TypeOK, Memory, Profile
<1>1. ASSUME NEW elapsed \in BOOLEAN, Refresh(elapsed)
      PROVE  memory'.tools = memory.tools
  BY <1>0, <1>1 DEF Refresh, Memory
<1>2. CASE PrepareRequest \/ PreModelHookFails
  BY <1>1, <1>2 DEF PrepareRequest, PreModelHookFails, NoneRefused, PreToolHookFails, TakeUpCall
<1>3. CASE ChatFails
  <2>1. profile'.usage = profile.usage
    BY <1>0, <1>3 DEF ChatFails, Profile
  <2> QED BY <1>3, <2>1 DEF ChatFails, NoneRefused, PreToolHookFails, TakeUpCall
<1>4. CASE PostModelHookFails \/ ReceiveEmptyReply \/ NextStep
  BY <1>4 DEF PostModelHookFails, ReceiveEmptyReply, NextStep, NoneRefused,
              PreToolHookFails, TakeUpCall
<1>5. CASE ReceiveReply
  <2>1. memory'.tools = memory.tools
    BY <1>0, <1>5 DEF ReceiveReply, Memory
  <2> QED BY <1>5, <2>1 DEF ReceiveReply, NoneRefused, PreToolHookFails, TakeUpCall
<1>6. CASE RunTool
  <2>1. memory'.tools = memory.tools + 1
    BY <1>0, <1>6 DEF RunTool, Memory
  <2>2. profile'.usage = profile.usage + 1
    BY <1>0, <1>6 DEF RunTool, Profile
  <2>3. memory' # memory
    BY <1>0, <2>1
  <2> QED BY <1>0, <2>1, <2>2, <2>3 DEF NoneRefused, PreToolHookFails
<1>7. CASE PreToolHookFails
  <2>1. profile'.usage = profile.usage + 1 /\ memory' = memory
    BY <1>0, <1>7 DEF PreToolHookFails, Profile
  <2> QED BY <1>0, <2>1 DEF NoneRefused
<1>8. CASE Conclude
  <2>1. profile'.usage = profile.usage
    BY <1>0, <1>8 DEF Conclude, Profile
  <2> QED BY <1>8, <2>1 DEF Conclude, NoneRefused, PreToolHookFails, TakeUpCall
<1>9. CASE UNCHANGED vars
  <2>1. memory' = memory /\ profile' = profile
    BY <1>9 DEF vars
  <2>2. ~PreToolHookFails
    <3>1. SUFFICES ASSUME PreToolHookFails PROVE FALSE
      OBVIOUS
    <3>2. called' = called + 1 /\ called' = called /\ called \in Nat
      BY <1>9, <3>1 DEF PreToolHookFails, TakeUpCall, vars, TypeOK
    <3> QED BY <3>2
  <2> QED BY <2>1, <2>2 DEF NoneRefused
<1> QED
  BY <1>2, <1>3, <1>4, <1>5, <1>6, <1>7, <1>8, <1>9 DEF Next

LEMMA NextThread ==
    TypeOK /\ TypeOK' /\ profile.usage >= memory.tools /\ ThreadInv /\ [Next]_vars
      => ThreadInv'
<1> SUFFICES ASSUME TypeOK, TypeOK', profile.usage >= memory.tools, ThreadInv, [Next]_vars
             PROVE  ThreadInv'
  OBVIOUS
<1>0. result \in StepResult
  BY DEF TypeOK
<1> NoneRefused' => NoneRefused
  BY RefusalsStay
<1>1. CASE PrepareRequest
  <2>1. PICK elapsed \in BOOLEAN : Refresh(elapsed)
    BY <1>1 DEF PrepareRequest
  <2>2. /\ pc = "top" /\ pc' = "chat" /\ result' = result /\ History' = History
        /\ request' = GuardRequest(SystemLen, messages')
    BY <1>1 DEF PrepareRequest, History
  <2>3. ConversationIsRecent' /\ LeadShape'
    BY <2>1, <2>2, RefreshRecent DEF ThreadInv
  <2>4. RequestThreaded'
    <3>1. messages' \in Seq(Message(Ids))
      BY DEF TypeOK
    <3>2. NoneRefused => Threaded(request')
      BY <2>2, <2>3, <3>1, RequestFits DEF ThreadInv
    <3>3. Threaded(request') = Threaded(request)'
      BY DEF Threaded
    <3> QED BY <3>2, <3>3 DEF RequestThreaded
  <2>5. HistoryShape' /\ CurrentReply' /\ CallsAnswered' /\ AnswersHaveCalls'
    BY <2>2 DEF ThreadInv, HistoryShape, CurrentReply, CallsAnswered, AnswersHaveCalls
  <2> QED BY <2>3, <2>4, <2>5 DEF ThreadInv
<1>2. CASE PreModelHookFails
  <2>1. PICK elapsed \in BOOLEAN : Refresh(elapsed)
    BY <1>2 DEF PreModelHookFails
  <2>2. pc = "top" /\ pc' = "refused" /\ result' = result /\ History' = History
    BY <1>2 DEF PreModelHookFails, History
  <2>3. ConversationIsRecent' /\ LeadShape'
    BY <2>1, <2>2, RefreshRecent DEF ThreadInv
  <2>4. HistoryShape' /\ CurrentReply' /\ CallsAnswered' /\ AnswersHaveCalls' /\ RequestThreaded'
    BY <2>2 DEF ThreadInv, HistoryShape, CurrentReply, CallsAnswered, AnswersHaveCalls, RequestThreaded
  <2> QED BY <2>3, <2>4 DEF ThreadInv
<1>3. CASE ChatFails
  BY <1>3, QuietThread DEF ChatFails, History
<1>4. CASE PostModelHookFails
  <2>1. History' = History
    BY <1>0, <1>4 DEF PostModelHookFails, StepResult, History
  <2> QED BY <1>4, <2>1, QuietThread DEF PostModelHookFails
<1>5. CASE ReceiveReply
  <2>1. PICK r \in Replies(step) :
          /\ Accept(r)
          /\ result' = [result EXCEPT !.steps = @ + 1,
                                      !.messages = Append(@, r),
                                      !.finished = r.calls = <<>>]
          /\ pc' = IF r.calls = <<>> THEN "final" ELSE "tools"
    BY <1>5 DEF ReceiveReply
  <2>2. r \in Message(Ids) /\ r.role = "assistant"
    BY RepliesType DEF TypeOK
  <2>3. History' = Append(History, r)
    BY <1>0, <2>1 DEF StepResult, History
  <2>4. ConversationIsRecent' /\ LeadShape'
    BY <2>1, <2>2, <2>3, AppendRecent DEF Accept, ThreadInv
  <2>5. HistoryShape' /\ CurrentReply' /\ CallsAnswered' /\ AnswersHaveCalls'
    BY <1>5, <2>1, <2>2, <2>3, ReplyThread DEF ReceiveReply, Accept, ThreadInv
  <2>6. RequestThreaded'
    BY <2>1 DEF RequestThreaded
  <2> QED BY <2>4, <2>5, <2>6 DEF ThreadInv
<1>6. CASE ReceiveEmptyReply
  <2>1. EmptyReply.role = "assistant" /\ EmptyReply.calls = <<>>
    BY DEF EmptyReply, Say
  <2>2. History' = Append(History, EmptyReply)
    BY <1>0, <1>6 DEF ReceiveEmptyReply, StepResult, History
  <2>3. ConversationIsRecent' /\ LeadShape'
    BY <1>6, <2>1, <2>2, EmptyReplyType, AppendRecent DEF ReceiveEmptyReply, Accept, ThreadInv
  <2>4. HistoryShape' /\ CurrentReply' /\ CallsAnswered' /\ AnswersHaveCalls'
    BY <1>6, <2>1, <2>2, EmptyReplyType, ReplyThread DEF ReceiveEmptyReply, Accept, ThreadInv
  <2>5. RequestThreaded'
    BY <1>6 DEF RequestThreaded, ReceiveEmptyReply
  <2> QED BY <2>3, <2>4, <2>5 DEF ThreadInv
<1>7. CASE RunTool
  <2>1. TakeUpCall /\ pc' = "tools"
    BY <1>7 DEF RunTool, TakeUpCall
  <2>2. NextCall \in Ids
    BY <2>1, NextCallType
  <2>3. /\ ToolResultMessage(NextCall) \in Message(Ids)
        /\ ToolResultMessage(NextCall).role = "tool"
    BY <2>2, ToolResultType DEF ToolResultMessage, Say
  <2>4. /\ History' = Append(History, ToolResultMessage(NextCall))
        /\ messages' = Append(messages, ToolResultMessage(NextCall))
    BY <1>0, <1>7 DEF RunTool, StepResult, History
  <2>5. ConversationIsRecent' /\ LeadShape'
    BY <2>3, <2>4, AppendRecent DEF ThreadInv
  <2>6. HistoryShape' /\ CurrentReply' /\ CallsAnswered' /\ AnswersHaveCalls'
    BY <2>1, <2>2, <2>4, AnswerThread DEF ThreadInv
  <2>7. RequestThreaded'
    BY <2>1 DEF RequestThreaded
  <2> QED BY <2>5, <2>6, <2>7 DEF ThreadInv
<1>8. CASE PreToolHookFails
  <2>1. /\ ~NoneRefused' /\ TakeUpCall /\ pc' = "tools"
        /\ messages' = messages /\ History' = History
    BY <1>8, RefusalsStay DEF PreToolHookFails, TakeUpCall, History
  <2>2. CurrentReply'
    <3>1. called \in Nat /\ Len(reply.calls) \in Nat
      BY LenProperties DEF TypeOK, Message
    <3> QED BY <2>1, <3>1 DEF TakeUpCall, CurrentReply
  <2>3. HistoryShape' /\ CallsAnswered' /\ AnswersHaveCalls' /\ RequestThreaded'
    BY <2>1 DEF ThreadInv, HistoryShape, CallsAnswered, AnswersHaveCalls, RequestThreaded
  <2>4. Lead' = Lead
    BY <2>1 DEF Lead
  <2>5. LeadShape' /\ ConversationIsRecent'
    BY <2>1, <2>4 DEF ThreadInv, LeadShape, ConversationIsRecent
  <2> QED BY <2>2, <2>3, <2>5 DEF ThreadInv
<1>9. CASE NextStep
  BY <1>9, QuietThread DEF NextStep, History
<1>10. CASE Conclude
  BY <1>10, QuietThread DEF Conclude, History
<1>11. CASE UNCHANGED vars
  <2>1. /\ Lead' = Lead /\ History' = History
        /\ pc' = pc /\ called' = called /\ reply' = reply
        /\ messages' = messages /\ request' = request
    BY <1>11 DEF vars, Lead, History
  <2> QED BY <2>1 DEF ThreadInv, HistoryShape, CurrentReply, CallsAnswered, AnswersHaveCalls,
                    LeadShape, ConversationIsRecent, RequestThreaded, Threaded
<1> QED
  BY <1>1, <1>2, <1>3, <1>4, <1>5, <1>6, <1>7, <1>8, <1>9, <1>10, <1>11 DEF Next

-----------------------------------------------------------------------------
(* The budget and the books.                                                *)

\* The history as it grows, and the messages of one role in it.
LEMMA HistoryGrows ==
    ASSUME TypeOK, NEW m \in Message(Ids), History' = Append(History, m)
    PROVE  /\ Len(History') = Len(History) + 1 /\ Len(History') \in Nat
           /\ History'[Len(History')] = m
           /\ \A p \in 1..Len(History') :
                \/ p = Len(History') /\ History'[p] = m
                \/ p \in 1..Len(History) /\ History'[p] = History[p]
<1>1. History \in Seq(Message(Ids)) /\ Len(History) \in Nat
  BY HistoryType
<1>2. /\ Len(History') = Len(History) + 1
      /\ History'[Len(History) + 1] = m
      /\ \A p \in 1..Len(History) : History'[p] = History[p]
  BY <1>1, AppendProperties
<1>3. \A p \in 1..Len(History) + 1 : p = Len(History) + 1 \/ p \in 1..Len(History)
  BY <1>1
<1> QED
  BY <1>1, <1>2, <1>3

LEMMA SayingCounts ==
    ASSUME TypeOK, NEW m \in Message(Ids), History' = Append(History, m), NEW role
    PROVE  /\ Cardinality(Saying(role)) \in Nat
           /\ Cardinality(Saying(role)') = Cardinality(Saying(role))
                                            + (IF m.role = role THEN 1 ELSE 0)
<1> DEFINE n == Len(History)
<1>1. /\ History \in Seq(Message(Ids)) /\ n \in Nat /\ DOMAIN History = 1..n
  BY HistoryType
<1>2. /\ DOMAIN History' = 1..n + 1 /\ History'[n + 1] = m
      /\ \A p \in 1..n : History'[p] = History[p]
  <2>1. History' \in Seq(Message(Ids)) /\ Len(History') = n + 1
    BY <1>1, AppendProperties
  <2> QED BY <1>1, <2>1, AppendProperties, LenProperties
<1>3. IsFiniteSet(Saying(role)) /\ Cardinality(Saying(role)) \in Nat
  <2>1. IsFiniteSet(1..n)
    BY <1>1, FS_Interval
  <2>2. Saying(role) \subseteq 1..n
    BY <1>1 DEF Saying
  <2> QED BY <2>1, <2>2, FS_Subset, FS_CardinalityType
<1>4. n + 1 \notin Saying(role)
  BY <1>1 DEF Saying
<1>5. Saying(role)' = IF m.role = role THEN Saying(role) \cup {n + 1} ELSE Saying(role)
  <2>1. \A p \in 1..n + 1 : p \in 1..n \/ p = n + 1
    BY <1>1
  <2>2. 1..n \subseteq 1..n + 1 /\ n + 1 \in 1..n + 1
    BY <1>1
  <2> HIDE DEF n
  <2>3. Saying(role)' = {p \in DOMAIN History' : History'[p].role = role}
    BY DEF Saying
  <2> QED BY <1>1, <1>2, <2>1, <2>2, <2>3 DEF Saying
<1>6. CASE m.role = role
  <2>1. Cardinality(Saying(role) \cup {n + 1}) = Cardinality(Saying(role)) + 1
    BY <1>3, <1>4, FS_AddElement
  <2> QED BY <1>3, <1>5, <1>6, <2>1
<1>7. CASE m.role # role
  BY <1>3, <1>5, <1>7
<1> QED
  BY <1>6, <1>7

LEMMA InitSteps == Init => StepsCounted
<1> SUFFICES ASSUME Init PROVE StepsCounted
  OBVIOUS
<1>1. budget \in Nat \ {0}
  BY InitType DEF TypeOK
<1>2. Len(History) = 0 /\ History = <<>>
  BY DEF Init, History
<1> QED
  BY <1>1, <1>2 DEF Init, StepsCounted

LEMMA NextSteps == TypeOK /\ StepsCounted /\ [Next]_vars => StepsCounted'
<1> SUFFICES ASSUME TypeOK, StepsCounted, [Next]_vars PROVE StepsCounted'
  OBVIOUS
<1>0. /\ step \in Nat /\ budget \in Nat /\ result \in StepResult
      /\ result.steps \in Nat /\ result.finished \in BOOLEAN
  BY DEF TypeOK, StepResult
<1>1. CASE PrepareRequest
  BY <1>1 DEF PrepareRequest, StepsCounted, History
<1>2. CASE PreModelHookFails
  BY <1>2 DEF PreModelHookFails, StepsCounted, History
<1>3. CASE ChatFails
  BY <1>3 DEF ChatFails, StepsCounted, History
<1>4. CASE PostModelHookFails
  <2>1. /\ result'.steps = result.steps + 1 /\ result'.finished = result.finished
        /\ History' = History
    BY <1>0, <1>4 DEF PostModelHookFails, StepResult, History
  <2> QED BY <1>0, <1>4, <2>1 DEF PostModelHookFails, StepsCounted
<1>5. CASE ReceiveReply
  <2>1. PICK r \in Replies(step) :
          /\ Accept(r)
          /\ result' = [result EXCEPT !.steps = @ + 1,
                                      !.messages = Append(@, r),
                                      !.finished = r.calls = <<>>]
          /\ pc' = IF r.calls = <<>> THEN "final" ELSE "tools"
    BY <1>5 DEF ReceiveReply
  <2>2. r \in Message(Ids) /\ r.role = "assistant"
    BY RepliesType DEF TypeOK
  <2>3. /\ History' = Append(History, r)
        /\ result'.steps = result.steps + 1
        /\ result'.finished = (r.calls = <<>>)
    BY <1>0, <2>1 DEF StepResult, History
  <2>4. /\ Len(History') > 0 /\ History'[Len(History')] = r
        /\ \A p \in 1..Len(History') :
             History'[p] = r \/ (p \in 1..Len(History) /\ History'[p] = History[p])
    BY <2>2, <2>3, HistoryGrows, HistoryType
  <2>5. pc = "chat" /\ step' = step /\ budget' = budget
    BY <1>5 DEF ReceiveReply
  <2>6. result.steps = step /\ step < budget /\ ~result.finished
    BY <2>5 DEF StepsCounted
  <2>7. \A p \in 1..Len(History) : History[p].role = "assistant" => History[p].calls # <<>>
    BY <2>5, <2>6 DEF StepsCounted
  <2>8. result'.steps <= budget' /\ result'.steps = step' + 1 /\ step' < budget'
    BY <1>0, <2>3, <2>5, <2>6
  <2>9. r.calls # <<>> =>
          \A p \in 1..Len(History') :
            History'[p].role = "assistant" => History'[p].calls # <<>>
    BY <2>4, <2>7
  <2>10. CASE r.calls = <<>>
    <3>1. pc' = "final" /\ result'.finished = TRUE
      BY <2>1, <2>3, <2>10
    <3> QED BY <2>2, <2>4, <2>8, <2>10, <3>1 DEF StepsCounted
  <2>11. CASE r.calls # <<>>
    <3>1. pc' = "tools" /\ result'.finished = FALSE
      BY <2>1, <2>3, <2>11
    <3> QED BY <2>8, <2>9, <2>11, <3>1 DEF StepsCounted
  <2> QED BY <2>10, <2>11
<1>6. CASE ReceiveEmptyReply
  <2>1. /\ result'.steps = result.steps + 1 /\ result'.finished = result.finished
        /\ pc = "chat" /\ pc' = "panicked" /\ step' = step /\ budget' = budget
    BY <1>0, <1>6 DEF ReceiveEmptyReply, StepResult
  <2>2. result.steps = step /\ step < budget /\ ~result.finished
    BY <2>1 DEF StepsCounted
  <2> QED BY <1>0, <2>1, <2>2 DEF StepsCounted
<1>7. CASE RunTool
  <2>1. TakeUpCall /\ pc' = "tools" /\ pc = "tools"
    BY <1>7 DEF RunTool, TakeUpCall
  <2>2. NextCall \in Ids
    BY <2>1, NextCallType
  <2> DEFINE m == ToolResultMessage(NextCall)
  <2>3. m \in Message(Ids) /\ m.role = "tool"
    BY <2>2, ToolResultType DEF ToolResultMessage, Say
  <2>4. /\ History' = Append(History, m)
        /\ result'.steps = result.steps /\ result'.finished = result.finished
    BY <1>0, <1>7 DEF RunTool, StepResult, History
  <2> HIDE DEF m
  <2>5. \A p \in 1..Len(History') :
          History'[p] = m \/ (p \in 1..Len(History) /\ History'[p] = History[p])
    BY <2>3, <2>4, HistoryGrows
  <2>6. \A p \in 1..Len(History') : History'[p].role = "assistant" => History'[p].calls # <<>>
    BY <2>1, <2>3, <2>5 DEF StepsCounted
  <2>7. step' = step /\ budget' = budget
    BY <2>1 DEF TakeUpCall
  <2> QED BY <1>0, <2>1, <2>4, <2>6, <2>7 DEF StepsCounted
<1>8. CASE PreToolHookFails
  BY <1>8 DEF PreToolHookFails, TakeUpCall, StepsCounted, History
<1>9. CASE NextStep
  BY <1>0, <1>9 DEF NextStep, StepsCounted, History
<1>10. CASE Conclude
  BY <1>10 DEF Conclude, StepsCounted, History
<1>11. CASE UNCHANGED vars
  BY <1>11 DEF vars, StepsCounted, History
<1> QED
  BY <1>1, <1>2, <1>3, <1>4, <1>5, <1>6, <1>7, <1>8, <1>9, <1>10, <1>11 DEF Next

\* Execute stops for one of its two reasons only: the model's last word made
\* no calls, or exactly the budgeted number of replies was used up.
THEOREM AlwaysStopsForAReason == Spec => []StopsForAReason
<1>1. Init => TypeOK /\ StepsCounted
  BY InitType, InitSteps
<1>2. (TypeOK /\ StepsCounted) /\ [Next]_vars => (TypeOK /\ StepsCounted)'
  BY NextType, NextSteps
<1>3. TypeOK /\ StepsCounted => StopsForAReason
  <2> SUFFICES ASSUME TypeOK, StepsCounted PROVE StopsForAReason
    OBVIOUS
  <2>1. \A p \in Saying("assistant") : p \in 1..Len(History) /\ History[p].role = "assistant"
    BY HistoryType DEF Saying
  <2> QED BY <2>1 DEF StepsCounted, StopsForAReason
<1> QED
  BY <1>1, <1>2, <1>3, PTL DEF Spec

\* The books agree, and as long as the session goes well they agree with
\* the count of replies in the result, too.
BooksInv ==
    /\ BooksAgree
    /\ pc \in {"top", "chat", "tools", "final"} => result.steps = memory.responses

LEMMA InitBooks == Init => BooksInv
<1> SUFFICES ASSUME Init PROVE BooksInv
  OBVIOUS
<1>1. History = <<>> /\ DOMAIN History = {}
  BY DEF Init, History
<1>2. \A role : Cardinality(Saying(role)) = 0
  <2>1. \A role : Saying(role) = {}
    BY <1>1 DEF Saying
  <2> QED BY <2>1, FS_EmptySet
<1> QED
  BY <1>2 DEF Init, BooksInv, BooksAgree

\* The books after a step that says nothing.
LEMMA QuietBooks ==
    ASSUME TypeOK, BooksInv, History' = History,
           memory'.responses = memory.responses, memory'.tools = memory.tools,
           result'.toolResults = result.toolResults,
           result'.finished = result.finished,
           profile'.usage = profile.usage, profile'.records = profile.records,
           pc \notin {"panicked", "done"}, pc' \notin {"panicked", "done"},
           \/ pc \in {"top", "chat", "tools", "final"} /\ result'.steps = result.steps
           \/ pc' \notin {"top", "chat", "tools", "final"}
    PROVE  BooksInv'
<1>1. \A role : Saying(role)' = Saying(role)
  BY DEF Saying
<1> QED
  BY <1>1 DEF BooksInv, BooksAgree

LEMMA NextBooks == TypeOK /\ BooksInv /\ [Next]_vars => BooksInv'
<1> SUFFICES ASSUME TypeOK, BooksInv, [Next]_vars PROVE BooksInv'
  OBVIOUS
<1>0. /\ result \in StepResult /\ memory \in Memory /\ profile \in Profile
      /\ result.steps \in Nat /\ result.toolResults \in Nat
      /\ memory.responses \in Nat /\ memory.tools \in Nat
      /\ profile.usage \in Nat /\ profile.records \in Seq(Record)
  BY DEF TypeOK, StepResult, Memory, Profile
<1>1. ASSUME NEW elapsed \in BOOLEAN, Refresh(elapsed)
      PROVE  memory'.responses = memory.responses /\ memory'.tools = memory.tools
  BY <1>0, <1>1 DEF Refresh, Memory
<1>2. CASE PrepareRequest
  BY <1>1, <1>2, QuietBooks DEF PrepareRequest, History
<1>3. CASE PreModelHookFails
  BY <1>1, <1>3, QuietBooks DEF PreModelHookFails, History
<1>4. CASE ChatFails
  <2>1. profile'.usage = profile.usage /\ profile'.records = profile.records
    BY <1>0, <1>4 DEF ChatFails, Profile
  <2> QED BY <1>4, <2>1, QuietBooks DEF ChatFails, History
<1>5. CASE PostModelHookFails
  <2>1. /\ result'.toolResults = result.toolResults /\ result'.finished = result.finished
        /\ History' = History
    BY <1>0, <1>5 DEF PostModelHookFails, StepResult, History
  <2> QED BY <1>5, <2>1, QuietBooks DEF PostModelHookFails
<1>6. CASE ReceiveReply
  <2>1. PICK r \in Replies(step) :
          /\ result' = [result EXCEPT !.steps = @ + 1,
                                      !.messages = Append(@, r),
                                      !.finished = r.calls = <<>>]
          /\ pc' \in {"final", "tools"}
    BY <1>6 DEF ReceiveReply
  <2>2. r \in Message(Ids) /\ r.role = "assistant"
    BY RepliesType DEF TypeOK
  <2>3. /\ History' = Append(History, r)
        /\ result'.steps = result.steps + 1
        /\ result'.toolResults = result.toolResults
    BY <1>0, <2>1 DEF StepResult, History
  <2>4. /\ Cardinality(Saying("assistant")') = Cardinality(Saying("assistant")) + 1
        /\ Cardinality(Saying("tool")') = Cardinality(Saying("tool"))
        /\ Cardinality(Saying("assistant")) \in Nat
    BY <2>2, <2>3, SayingCounts
  <2>5. /\ pc = "chat" /\ profile' = profile
        /\ memory'.responses = memory.responses + 1 /\ memory'.tools = memory.tools
    BY <1>0, <1>6 DEF ReceiveReply, Memory
  <2>6. profile.records = <<>> /\ profile'.records = <<>> /\ profile'.usage = profile.usage
    BY <1>0, <2>5, EmptySeq DEF BooksInv, BooksAgree
  <2> QED BY <1>0, <2>1, <2>3, <2>4, <2>5, <2>6 DEF BooksInv, BooksAgree
<1>7. CASE ReceiveEmptyReply
  <2>1. EmptyReply.role = "assistant"
    BY DEF EmptyReply, Say
  <2>2. /\ History' = Append(History, EmptyReply)
        /\ result'.toolResults = result.toolResults
    BY <1>0, <1>7 DEF ReceiveEmptyReply, StepResult, History
  <2>3. /\ Cardinality(Saying("assistant")') = Cardinality(Saying("assistant")) + 1
        /\ Cardinality(Saying("tool")') = Cardinality(Saying("tool"))
        /\ Cardinality(Saying("assistant")) \in Nat
    BY <2>1, <2>2, EmptyReplyType, SayingCounts
  <2>4. pc = "chat" /\ pc' = "panicked" /\ profile' = profile /\ memory' = memory
    BY <1>7 DEF ReceiveEmptyReply
  <2>5. profile.records = <<>> /\ profile'.records = <<>> /\ profile'.usage = profile.usage
    BY <1>0, <2>4, EmptySeq DEF BooksInv, BooksAgree
  <2> QED BY <1>0, <2>2, <2>3, <2>4, <2>5 DEF BooksInv, BooksAgree
<1>8. CASE RunTool
  <2>1. TakeUpCall /\ pc' = "tools" /\ pc = "tools"
    BY <1>8 DEF RunTool, TakeUpCall
  <2>2. /\ ToolResultMessage(NextCall) \in Message(Ids)
        /\ ToolResultMessage(NextCall).role = "tool"
    BY <2>1, NextCallType, ToolResultType DEF ToolResultMessage, Say
  <2>3. /\ History' = Append(History, ToolResultMessage(NextCall))
        /\ result'.toolResults = result.toolResults + 1
        /\ result'.steps = result.steps
    BY <1>0, <1>8 DEF RunTool, StepResult, History
  <2>4. /\ Cardinality(Saying("assistant")') = Cardinality(Saying("assistant"))
        /\ Cardinality(Saying("assistant")) \in Nat
        /\ Cardinality(Saying("tool")') = Cardinality(Saying("tool")) + 1
    BY <2>2, <2>3, SayingCounts
  <2>5. memory'.responses = memory.responses /\ memory'.tools = memory.tools + 1
    BY <1>0, <1>8 DEF RunTool, Memory
  <2>6. profile'.usage = profile.usage + 1 /\ profile'.records = profile.records
    BY <1>0, <1>8 DEF RunTool, Profile
  <2>7. profile.records = <<>>
    BY <1>0, <2>1, EmptySeq DEF BooksInv, BooksAgree
  <2> QED BY <1>0, <2>1, <2>3, <2>4, <2>5, <2>6, <2>7 DEF BooksInv, BooksAgree
<1>9. CASE PreToolHookFails
  <2>1. profile'.usage = profile.usage + 1 /\ profile'.records = profile.records
    BY <1>0, <1>9 DEF PreToolHookFails, Profile
  <2>2. /\ pc = "tools" /\ pc' = "tools"
        /\ result' = result /\ memory' = memory /\ History' = History
    BY <1>9 DEF PreToolHookFails, TakeUpCall, History
  <2>3. \A role : Saying(role)' = Saying(role)
    BY <2>2 DEF Saying
  <2> QED BY <1>0, <2>1, <2>2, <2>3 DEF BooksInv, BooksAgree
<1>10. CASE NextStep
  BY <1>10, QuietBooks DEF NextStep, History
<1>11. CASE Conclude
  <2> DEFINE rec == [steps |-> result.steps, toolCalls |-> result.toolResults,
                     success |-> result.finished]
  <2>1. /\ pc = "final" /\ pc' = "done" /\ result' = result /\ memory' = memory
        /\ History' = History
    BY <1>11 DEF Conclude, History
  <2>2. \A role : Saying(role)' = Saying(role)
    BY <2>1 DEF Saying
  <2>3. profile.records = <<>>
    BY <1>0, <2>1, EmptySeq DEF BooksInv, BooksAgree
  <2>4. profile'.usage = profile.usage /\ profile'.records = <<rec>>
    <3> HIDE DEF rec
    <3> QED BY <1>0, <1>11, <2>3 DEF Conclude, Profile, rec
  <2>5. rec = [steps |-> memory'.responses, toolCalls |-> memory'.tools,
               success |-> result'.finished]
    BY <2>1 DEF BooksInv, BooksAgree
  <2>6. \A i \in DOMAIN profile'.records : profile'.records[i] = rec
    <3> HIDE DEF rec
    <3> QED BY <2>4
  <2>7. Len(profile'.records) = 1
    BY <2>4
  <2> HIDE DEF rec
  <2> QED BY <1>0, <2>1, <2>2, <2>4, <2>5, <2>6, <2>7 DEF BooksInv, BooksAgree
<1>12. CASE UNCHANGED vars
  <2>1. \A role : Saying(role)' = Saying(role)
    BY <1>12 DEF vars, Saying, History
  <2> QED BY <1>12, <2>1 DEF vars, BooksInv, BooksAgree
<1> QED
  BY <1>2, <1>3, <1>4, <1>5, <1>6, <1>7, <1>8, <1>9, <1>10, <1>11, <1>12 DEF Next

\* Memory, profile and result tell the same story at every moment, however
\* the session ends.
THEOREM BooksAlwaysAgree == Spec => []BooksAgree
<1>1. Init => TypeOK /\ BooksInv
  BY InitType, InitBooks
<1>2. (TypeOK /\ BooksInv) /\ [Next]_vars => (TypeOK /\ BooksInv)'
  BY NextType, NextBooks
<1>3. BooksInv => BooksAgree
  BY DEF BooksInv
<1> QED
  BY <1>1, <1>2, <1>3, PTL DEF Spec

\* The invariant about conversation, calls and answers, up to the first call
\* a hook refuses. It needs the books: a refusal is seen in them for ever.
THEOREM ThreadsKept == Spec => []ThreadInv
<1>1. Init => TypeOK /\ BooksInv /\ ThreadInv
  BY InitType, InitBooks, InitThread
<1>2. (TypeOK /\ BooksInv /\ ThreadInv) /\ [Next]_vars => (TypeOK /\ BooksInv /\ ThreadInv)'
  <2>1. BooksInv => profile.usage >= memory.tools
    BY DEF BooksInv, BooksAgree
  <2> QED BY <2>1, NextType, NextBooks, NextThread
<1> QED
  BY <1>1, <1>2, PTL DEF Spec

\* Every call is answered right behind its reply, in order and once.
THEOREM CallsAlwaysAnswered == Spec => []CallsAnswered
<1>1. ThreadInv => CallsAnswered
  BY DEF ThreadInv
<1> QED
  BY <1>1, ThreadsKept, PTL

\* However often the context is compacted, what is left is the end of the
\* full history behind at most one prompt or summary.
THEOREM ConversationAlwaysRecent == Spec => []ConversationIsRecent
<1>1. ThreadInv => ConversationIsRecent
  BY DEF ThreadInv
<1> QED
  BY <1>1, ThreadsKept, PTL

\* Nothing sent to a provider has an open call, or an answer without its
\* call behind the first reply, whatever compaction and the guard cut off.
THEOREM RequestsAlwaysThreaded == Spec => []RequestThreaded
<1>1. ThreadInv => RequestThreaded
  BY DEF ThreadInv
<1> QED
  BY <1>1, ThreadsKept, PTL

-----------------------------------------------------------------------------
(* The promise of ToolProtocol: every step of the loop is one the protocol   *)
(* allows.                                                                   *)


\* Calls carry the number of their step, so those of the current step are new:
\* the answers in the history are older, or answer calls of the current reply.
CallsDated ==
    /\ pc = "tools" =>
         /\ called <= Len(reply.calls)
         /\ \A k \in 1..Len(reply.calls) : reply.calls[k][1] = step
    /\ \A i \in 1..Len(History) : History[i].role = "tool" =>
         /\ History[i].answers[1][1] \in Nat
         /\ IF pc = "tools" THEN History[i].answers[1][1] <= step
                            ELSE pc \in {"top", "chat"} => History[i].answers[1][1] < step

Carried == {History[i].answers[1] : i \in Saying("tool")}

ToBeCarried == IF pc = "tools" THEN SubSeq(reply.calls, called + 1, Len(reply.calls)) ELSE <<>>

Turn ==
    CASE pc = "top"   -> "agent"
      [] pc = "chat"  -> "model"
      [] pc = "tools" -> "tools"
      [] OTHER        -> "over"

Consulted ==
    IF pc \in {"top", "refused"} \/ (pc \in {"final", "done"} /\ ~result.finished)
    THEN step ELSE step + 1

-----------------------------------------------------------------------------
(* The history and what was carried out.                                    *)

LEMMA HistoryPlaces ==
    ASSUME TypeOK, NEW m \in Message(Ids), History' = Append(History, m)
    PROVE  /\ Len(History') = Len(History) + 1
           /\ \A i \in 1..Len(History) : i \in 1..Len(History') /\ History'[i] = History[i]
           /\ \A i \in 1..Len(History') :
                (i \in 1..Len(History) /\ History'[i] = History[i])
                \/ (i = Len(History) + 1 /\ History'[i] = m)
           /\ Len(History) + 1 \in 1..Len(History') /\ History'[Len(History) + 1] = m
           /\ DOMAIN History' = 1..Len(History')
<1>1. History \in Seq(Message(Ids)) /\ Len(History) \in Nat
  BY HistoryType
<1>2. /\ Len(History') = Len(History) + 1
      /\ \A i \in 1..Len(History) : History'[i] = History[i]
      /\ History'[Len(History) + 1] = m
      /\ History' \in Seq(Message(Ids))
  BY <1>1, AppendProperties
<1>3. DOMAIN History' = 1..Len(History')
  BY <1>2, LenProperties
<1> QED
  BY <1>1, <1>2, <1>3

LEMMA CarriedAfterReply ==
    ASSUME TypeOK, NEW m \in Message(Ids), m.role = "assistant", History' = Append(History, m)
    PROVE  Carried' = Carried
<1>1. DOMAIN History = 1..Len(History)
  BY HistoryType
<1>2. \A i \in DOMAIN History' : History'[i].role = "tool" =>
        i \in DOMAIN History /\ History'[i] = History[i]
  BY <1>1, HistoryPlaces
<1>3. \A i \in DOMAIN History : i \in DOMAIN History' /\ History'[i] = History[i]
  BY <1>1, HistoryPlaces
<1>4. Saying("tool")' = Saying("tool")
  BY <1>2, <1>3 DEF Saying
<1>5. \A i \in Saying("tool") : History'[i] = History[i]
  BY <1>3 DEF Saying
<1> QED
  BY <1>4, <1>5 DEF Carried

LEMMA CarriedAfterAnswer ==
    ASSUME TypeOK, NEW c \in Ids, History' = Append(History, ToolResultMessage(c))
    PROVE  Carried' = Carried \cup {c}
<1> DEFINE m == ToolResultMessage(c)
<1>1. m \in Message(Ids) /\ m.role = "tool" /\ m.answers[1] = c
  BY ToolResultType DEF ToolResultMessage, Say
<1> HIDE DEF m
<1>2. DOMAIN History = 1..Len(History)
  BY HistoryType
<1>3. History' = Append(History, m)
  BY DEF m
<1>4. \A i \in DOMAIN History : i \in DOMAIN History' /\ History'[i] = History[i]
  BY <1>1, <1>2, <1>3, HistoryPlaces
<1>5. /\ Len(History) + 1 \in DOMAIN History' /\ History'[Len(History) + 1] = m
      /\ \A i \in DOMAIN History' : i \in DOMAIN History \/ i = Len(History) + 1
  BY <1>1, <1>2, <1>3, HistoryPlaces
<1>6. Saying("tool")' = Saying("tool") \cup {Len(History) + 1}
  BY <1>1, <1>4, <1>5 DEF Saying
<1>7. \A i \in Saying("tool") : History'[i] = History[i]
  BY <1>4 DEF Saying
<1>8. Carried' = {History'[i].answers[1] : i \in Saying("tool")'}
  BY DEF Carried
<1>9. Carried' = {History'[i].answers[1] : i \in Saying("tool")} \cup {c}
  BY <1>1, <1>5, <1>6, <1>8
<1> QED
  BY <1>7, <1>9 DEF Carried

-----------------------------------------------------------------------------
(* Dates.                                                                   *)

LEMMA RepliesDated ==
    ASSUME NEW i \in Nat, NEW r \in Replies(i)
    PROVE  /\ r \in Message(Ids) /\ r.role = "assistant"
           /\ r.calls \in Seq(Ids) /\ DOMAIN r.calls = 1..Len(r.calls)
           /\ \A k \in 1..Len(r.calls) : r.calls[k] = <<i, k>>
<1>1. PICK t \in TextLens, n \in 0..MaxCalls :
        r = Say("assistant", t, [k \in 1..n |-> <<i, k>>], <<>>)
  BY DEF Replies
<1>2. r \in Message(Ids) /\ r.role = "assistant"
  BY RepliesType
<1>3. r.calls \in Seq(Ids)
  BY <1>2 DEF Message
<1>4. DOMAIN r.calls = 1..Len(r.calls)
  BY <1>3, LenProperties
<1>5. r.calls = [k \in 1..n |-> <<i, k>>]
  BY <1>1 DEF Say
<1>6. \A k \in 1..Len(r.calls) : r.calls[k] = <<i, k>>
  <2>1. \A k \in DOMAIN r.calls : r.calls[k] = <<i, k>>
    BY <1>5
  <2> QED BY <1>4, <2>1
<1> QED
  BY <1>2, <1>3, <1>4, <1>6

LEMMA InitDated == Init => CallsDated
<1> SUFFICES ASSUME Init PROVE CallsDated
  OBVIOUS
<1>1. pc = "top" /\ Len(History) = 0
  BY EmptySeq DEF Init, History
<1> QED
  BY <1>1 DEF CallsDated

LEMMA NextDated == TypeOK /\ CallsDated /\ [Next]_vars => CallsDated'
<1> SUFFICES ASSUME TypeOK, CallsDated, [Next]_vars PROVE CallsDated'
  OBVIOUS
<1>0. step \in Nat /\ result \in StepResult /\ called \in Nat
  BY DEF TypeOK
<1>1. CASE PrepareRequest \/ PreModelHookFails \/ ChatFails \/ Conclude
  BY <1>1 DEF PrepareRequest, PreModelHookFails, ChatFails, Conclude, CallsDated, History
<1>2. CASE PostModelHookFails
  <2>1. History' = History /\ pc' = "failed" /\ step' = step
    BY <1>0, <1>2 DEF PostModelHookFails, StepResult, History
  <2> QED BY <2>1 DEF CallsDated
<1>3. CASE ReceiveReply
  <2>1. PICK r \in Replies(step) :
          /\ Accept(r)
          /\ result' = [result EXCEPT !.steps = @ + 1,
                                      !.messages = Append(@, r),
                                      !.finished = r.calls = <<>>]
    BY <1>3 DEF ReceiveReply
  <2>2. /\ r \in Message(Ids) /\ r.role = "assistant"
        /\ \A k \in 1..Len(r.calls) : r.calls[k] = <<step, k>>
        /\ Len(r.calls) \in Nat
    BY <1>0, RepliesDated, LenProperties
  <2>3. /\ History' = Append(History, r) /\ reply' = r /\ called' = 0 /\ step' = step
        /\ pc = "chat" /\ pc' \in {"final", "tools"}
    BY <1>0, <1>3, <2>1 DEF StepResult, History, Accept, ReceiveReply
  <2>4. \A i \in 1..Len(History') : History'[i].role = "tool" =>
          i \in 1..Len(History) /\ History'[i] = History[i]
    BY <2>2, <2>3, HistoryPlaces
  <2>5. ASSUME NEW i \in 1..Len(History'), History'[i].role = "tool"
        PROVE  History'[i].answers[1][1] \in Nat /\ History'[i].answers[1][1] <= step
    <3>1. History[i].answers[1][1] \in Nat /\ History[i].answers[1][1] < step
      BY <2>3, <2>4, <2>5 DEF CallsDated
    <3> QED BY <1>0, <2>4, <2>5, <3>1
  <2>6. /\ called' <= Len(reply'.calls)
        /\ \A k \in 1..Len(reply'.calls) : reply'.calls[k][1] = step'
    BY <2>2, <2>3
  <2> QED BY <2>3, <2>5, <2>6 DEF CallsDated
<1>4. CASE ReceiveEmptyReply
  <2>1. History' = Append(History, EmptyReply) /\ pc' = "panicked" /\ step' = step
    BY <1>0, <1>4 DEF StepResult, History, ReceiveEmptyReply
  <2>2. EmptyReply \in Message(Ids) /\ EmptyReply.role = "assistant"
    BY EmptyReplyType DEF EmptyReply, Say
  <2>3. \A i \in 1..Len(History') : History'[i].role = "tool" =>
          i \in 1..Len(History) /\ History'[i] = History[i]
    BY <2>1, <2>2, HistoryPlaces
  <2> QED BY <2>1, <2>3 DEF CallsDated
<1>5. CASE RunTool
  <2>1. /\ pc = "tools" /\ called < Len(reply.calls) /\ called' = called + 1
        /\ UNCHANGED <<pc, step, reply>> /\ NextCall \in Ids
    BY <1>5, NextCallType DEF RunTool, TakeUpCall
  <2> DEFINE m == ToolResultMessage(NextCall)
  <2>2. m \in Message(Ids) /\ m.answers[1] = NextCall
    BY <2>1, ToolResultType DEF ToolResultMessage, Say
  <2>3. History' = Append(History, m)
    BY <1>0, <1>5 DEF StepResult, History, RunTool
  <2> HIDE DEF m
  <2>4. /\ Len(reply.calls) \in Nat /\ called + 1 \in 1..Len(reply.calls)
        /\ called + 1 <= Len(reply.calls)
    <3>1. reply.calls \in Seq(Ids)
      BY DEF TypeOK, Message
    <3> QED BY <1>0, <2>1, <3>1, LenProperties
  <2>5. NextCall[1] = step
    BY <2>1, <2>4 DEF NextCall, CallsDated
  <2>6. ASSUME NEW i \in 1..Len(History'), History'[i].role = "tool"
        PROVE  History'[i].answers[1][1] \in Nat /\ History'[i].answers[1][1] <= step
    <3>1. CASE i \in 1..Len(History) /\ History'[i] = History[i]
      BY <2>1, <2>6, <3>1 DEF CallsDated
    <3>2. CASE History'[i] = m
      BY <1>0, <2>2, <2>5, <3>2
    <3> QED BY <2>2, <2>3, <3>1, <3>2, HistoryPlaces
  <2> QED BY <2>1, <2>4, <2>6 DEF CallsDated
<1>6. CASE PreToolHookFails
  <2>1. /\ pc = "tools" /\ called < Len(reply.calls) /\ called' = called + 1
        /\ UNCHANGED <<pc, step, reply>> /\ History' = History
    BY <1>6 DEF PreToolHookFails, TakeUpCall, History
  <2>2. called + 1 <= Len(reply.calls)
    <3>1. reply.calls \in Seq(Ids)
      BY DEF TypeOK, Message
    <3> QED BY <1>0, <2>1, <3>1, LenProperties
  <2> QED BY <2>1, <2>2 DEF CallsDated
<1>7. CASE NextStep
  <2>1. /\ pc = "tools" /\ pc' \in {"top", "final"} /\ step' = step + 1 /\ History' = History
    BY <1>7 DEF NextStep, History
  <2>2. \A i \in 1..Len(History) : History[i].role = "tool" =>
          History[i].answers[1][1] \in Nat /\ History[i].answers[1][1] < step + 1
    BY <1>0, <2>1 DEF CallsDated
  <2> QED BY <2>1, <2>2 DEF CallsDated
<1>8. CASE UNCHANGED vars
  BY <1>8 DEF vars, CallsDated, History
<1> QED
  BY <1>1, <1>2, <1>3, <1>4, <1>5, <1>6, <1>7, <1>8 DEF Next

-----------------------------------------------------------------------------
(* The protocol's actions in terms of the loop.                             *)

LEMMA ProtocolActions ==
    /\ Protocol!Init <=>
         Turn = "agent" /\ budget \in Nat \ {0} /\ Consulted = 0
         /\ ToBeCarried = <<>> /\ Carried = {}
    /\ Protocol!Consult <=>
         /\ Turn = "agent" /\ Consulted < budget /\ ToBeCarried = <<>> /\ Turn' = "model"
         /\ Consulted' = Consulted + 1
         /\ UNCHANGED <<budget, ToBeCarried, Carried>>
    /\ Protocol!MakeCalls <=>
         /\ Turn = "model"
         /\ ToBeCarried' \in Seq(Ids) \ {<<>>}
         /\ \A i \in DOMAIN ToBeCarried' :
              /\ ToBeCarried'[i] \notin Carried
              /\ \A j \in DOMAIN ToBeCarried' : ToBeCarried'[i] = ToBeCarried'[j] => i = j
         /\ Turn' = "tools"
         /\ UNCHANGED <<budget, Consulted, Carried>>
    /\ Protocol!CarryOut <=>
         /\ Turn = "tools" /\ ToBeCarried # <<>> /\ ToBeCarried' = Tail(ToBeCarried)
         /\ Carried' = Carried \cup {Head(ToBeCarried)}
         /\ UNCHANGED <<Turn, budget, Consulted>>
    /\ Protocol!Refuse <=>
         /\ Turn = "tools" /\ ToBeCarried # <<>> /\ ToBeCarried' = Tail(ToBeCarried)
         /\ UNCHANGED <<Turn, budget, Consulted, Carried>>
    /\ Protocol!TurnDone <=>
         /\ Turn = "tools" /\ ToBeCarried = <<>>
         /\ Turn' = IF Consulted < budget THEN "agent" ELSE "over"
         /\ UNCHANGED <<budget, Consulted, ToBeCarried, Carried>>
    /\ Protocol!Stop <=>
         /\ Turn \in {"agent", "model"} /\ Turn' = "over"
         /\ UNCHANGED <<budget, Consulted, ToBeCarried, Carried>>
    /\ (UNCHANGED Protocol!vars) <=>
         UNCHANGED <<Turn, budget, Consulted, ToBeCarried, Carried>>
  BY DEF Protocol!Init, Protocol!Consult, Protocol!MakeCalls, Protocol!CarryOut,
         Protocol!Refuse, Protocol!TurnDone, Protocol!Stop, Protocol!vars,
         Turn, Consulted, ToBeCarried, Carried

LEMMA InitProtocol == Init => Protocol!Init
<1> SUFFICES ASSUME Init PROVE Protocol!Init
  OBVIOUS
<1>1. pc = "top" /\ step = 0 /\ History = <<>> /\ budget \in Nat \ {0}
  BY InitType DEF Init, History, TypeOK
<1>2. Saying("tool") = {}
  BY <1>1 DEF Saying
<1>3. Carried = {}
  BY <1>2 DEF Carried
<1> QED
  BY <1>1, <1>3, ProtocolActions DEF Turn, Consulted, ToBeCarried

-----------------------------------------------------------------------------
(* Every step of the loop.                                                  *)

\* A step that says nothing carries nothing out.
LEMMA SilentSteps == History' = History => Carried' = Carried
  BY DEF Carried, Saying

LEMMA ReplyMakesCalls ==
    ASSUME TypeOK, StepsCounted, CallsDated, ReceiveReply
    PROVE  Protocol!MakeCalls \/ Protocol!Stop
<1>0. step \in Nat /\ result \in StepResult
  BY DEF TypeOK
<1>1. PICK r \in Replies(step) :
        /\ Accept(r)
        /\ result' = [result EXCEPT !.steps = @ + 1,
                                    !.messages = Append(@, r),
                                    !.finished = r.calls = <<>>]
        /\ pc' = IF r.calls = <<>> THEN "final" ELSE "tools"
  BY DEF ReceiveReply
<1>2. /\ r \in Message(Ids) /\ r.role = "assistant"
      /\ r.calls \in Seq(Ids) /\ DOMAIN r.calls = 1..Len(r.calls)
      /\ \A k \in 1..Len(r.calls) : r.calls[k] = <<step, k>>
  BY <1>0, RepliesDated
<1>3. /\ History' = Append(History, r) /\ reply' = r /\ called' = 0
      /\ UNCHANGED <<step, budget>> /\ pc = "chat" /\ ~result.finished
      /\ result'.finished = (r.calls = <<>>)
  BY <1>0, <1>1 DEF StepResult, History, Accept, ReceiveReply, StepsCounted
<1>4. Carried' = Carried
  BY <1>2, <1>3, CarriedAfterReply
<1>5. Turn = "model" /\ ToBeCarried = <<>> /\ Consulted = step + 1
  BY <1>3 DEF Turn, ToBeCarried, Consulted
<1>6. CASE r.calls = <<>>
  <2>1. Turn' = "over" /\ ToBeCarried' = <<>> /\ Consulted' = step + 1
    BY <1>1, <1>3, <1>6 DEF Turn, ToBeCarried, Consulted
  <2> QED BY <1>3, <1>4, <1>5, <2>1, ProtocolActions
<1>7. CASE r.calls # <<>>
  <2>1. Turn' = "tools" /\ Consulted' = step + 1
    BY <1>1, <1>3, <1>7 DEF Turn, Consulted
  <2>2. ToBeCarried' = r.calls
    <3>1. ToBeCarried' = SubSeq(r.calls, 1, Len(r.calls))
      BY <1>1, <1>3, <1>7 DEF ToBeCarried
    <3> QED BY <1>2, <3>1, SubSeqFull
  <2>3. ASSUME NEW c \in Carried PROVE c[1] < step
    <3>1. PICK i \in Saying("tool") : c = History[i].answers[1]
      BY DEF Carried
    <3>2. i \in 1..Len(History) /\ History[i].role = "tool"
      BY <3>1, HistoryType DEF Saying
    <3> QED BY <1>3, <3>1, <3>2 DEF CallsDated
  <2>4. ASSUME NEW k \in 1..Len(r.calls) PROVE r.calls[k] \notin Carried
    <3>1. r.calls[k][1] = step
      BY <1>2
    <3> QED BY <1>0, <2>3, <3>1
  <2>5. ASSUME NEW k \in 1..Len(r.calls), NEW j \in 1..Len(r.calls), r.calls[k] = r.calls[j]
        PROVE  k = j
    <3>1. r.calls[k][2] = k /\ r.calls[j][2] = j
      BY <1>2
    <3> QED BY <2>5, <3>1
  <2> QED BY <1>2, <1>3, <1>4, <1>5, <1>7, <2>1, <2>2, <2>4, <2>5, ProtocolActions
<1> QED
  BY <1>6, <1>7

\* The call the inner loop takes up is the first of those to be carried out.
LEMMA CallTakenUp ==
    ASSUME TypeOK, CallsDated, TakeUpCall
    PROVE  /\ Turn = "tools" /\ ToBeCarried # <<>>
           /\ ToBeCarried' = Tail(ToBeCarried) /\ NextCall = Head(ToBeCarried)
           /\ UNCHANGED <<Turn, budget, Consulted>>
<1>1. /\ pc = "tools" /\ called < Len(reply.calls) /\ called' = called + 1
      /\ UNCHANGED <<pc, step, budget, reply>>
  BY DEF TakeUpCall
<1>2. reply.calls \in Seq(Ids) /\ Len(reply.calls) \in Nat /\ called \in Nat
  BY LenProperties DEF TypeOK, Message
<1>3. /\ called + 1 \in 1..Len(reply.calls)
      /\ Len(reply.calls) \in (called + 1)..Len(reply.calls)
      /\ (called + 1) + 1 = called' + 1
  BY <1>1, <1>2
<1>4. /\ Head(SubSeq(reply.calls, called + 1, Len(reply.calls))) = reply.calls[called + 1]
      /\ Tail(SubSeq(reply.calls, called + 1, Len(reply.calls))) =
           SubSeq(reply.calls, (called + 1) + 1, Len(reply.calls))
  BY <1>2, <1>3, HeadTailOfSubSeq
<1>5. SubSeq(reply.calls, called + 1, Len(reply.calls)) # <<>>
  <2>1. \A i \in (called + 1)..Len(reply.calls) : reply.calls[i] \in Ids
    BY <1>2, ElementOfSeq
  <2>2. Len(SubSeq(reply.calls, called + 1, Len(reply.calls))) # 0
    BY <1>1, <1>2, <2>1, SubSeqProperties
  <2> QED BY <2>2, EmptySeq
<1>6. ToBeCarried = SubSeq(reply.calls, called + 1, Len(reply.calls))
  BY <1>1 DEF ToBeCarried
<1>7. ToBeCarried' = SubSeq(reply.calls, (called + 1) + 1, Len(reply.calls))
  BY <1>1, <1>3 DEF ToBeCarried
<1>8. Turn = "tools" /\ Turn' = "tools" /\ Consulted = step + 1 /\ Consulted' = step + 1
  BY <1>1 DEF Turn, Consulted
<1> QED
  BY <1>1, <1>4, <1>5, <1>6, <1>7, <1>8 DEF NextCall

LEMMA NextProtocol ==
    TypeOK /\ StepsCounted /\ StepsCounted' /\ CallsDated /\ [Next]_vars
      => [Protocol!Next]_(Protocol!vars)
<1> SUFFICES ASSUME TypeOK, StepsCounted, StepsCounted', CallsDated, [Next]_vars
             PROVE  Protocol!Next \/ UNCHANGED Protocol!vars
  OBVIOUS
<1>0. step \in Nat /\ budget \in Nat /\ result \in StepResult
  BY DEF TypeOK
<1>1. CASE PrepareRequest
  <2>1. pc = "top" /\ pc' = "chat" /\ UNCHANGED <<step, budget, result>> /\ step < budget
    BY <1>1 DEF PrepareRequest, StepsCounted
  <2>2. Carried' = Carried
    BY <2>1, SilentSteps DEF History
  <2>3. /\ Turn = "agent" /\ Turn' = "model" /\ ToBeCarried = <<>> /\ ToBeCarried' = <<>>
        /\ Consulted = step /\ Consulted' = step + 1
    BY <2>1 DEF Turn, ToBeCarried, Consulted
  <2>4. Protocol!Consult
    BY <2>1, <2>2, <2>3, ProtocolActions
  <2> QED BY <2>4 DEF Protocol!Next
<1>2. CASE PreModelHookFails \/ ChatFails \/ PostModelHookFails
  <2>1. /\ (pc = "top" /\ pc' = "refused") \/ (pc = "chat" /\ pc' = "failed")
        /\ UNCHANGED <<step, budget>> /\ History' = History
    BY <1>0, <1>2 DEF PreModelHookFails, ChatFails, PostModelHookFails, StepResult, History
  <2>2. Carried' = Carried
    BY <2>1, SilentSteps
  <2>3. /\ Turn \in {"agent", "model"} /\ Turn' = "over"
        /\ ToBeCarried = <<>> /\ ToBeCarried' = <<>> /\ Consulted' = Consulted
    BY <2>1 DEF Turn, ToBeCarried, Consulted
  <2>4. Protocol!Stop
    BY <2>1, <2>2, <2>3, ProtocolActions
  <2> QED BY <2>4 DEF Protocol!Next
<1>3. CASE ReceiveReply
  BY <1>3, ReplyMakesCalls DEF Protocol!Next
<1>4. CASE ReceiveEmptyReply
  <2>1. /\ History' = Append(History, EmptyReply) /\ pc = "chat" /\ pc' = "panicked"
        /\ UNCHANGED <<step, budget>>
    BY <1>0, <1>4 DEF StepResult, History, ReceiveEmptyReply
  <2>2. EmptyReply \in Message(Ids) /\ EmptyReply.role = "assistant"
    BY EmptyReplyType DEF EmptyReply, Say
  <2>3. Carried' = Carried
    BY <2>1, <2>2, CarriedAfterReply
  <2>4. /\ Turn = "model" /\ Turn' = "over" /\ ToBeCarried = <<>> /\ ToBeCarried' = <<>>
        /\ Consulted' = Consulted
    BY <2>1 DEF Turn, ToBeCarried, Consulted
  <2>5. Protocol!Stop
    BY <2>1, <2>3, <2>4, ProtocolActions
  <2> QED BY <2>5 DEF Protocol!Next
<1>5. CASE RunTool
  <2>1. TakeUpCall /\ NextCall \in Ids
    BY <1>5, NextCallType DEF RunTool
  <2>2. History' = Append(History, ToolResultMessage(NextCall))
    BY <1>0, <1>5 DEF StepResult, History, RunTool
  <2>3. Carried' = Carried \cup {NextCall}
    BY <2>1, <2>2, CarriedAfterAnswer
  <2>4. Protocol!CarryOut
    BY <2>1, <2>3, CallTakenUp, ProtocolActions
  <2> QED BY <2>4 DEF Protocol!Next
<1>6. CASE PreToolHookFails
  <2>1. TakeUpCall /\ History' = History
    BY <1>6 DEF PreToolHookFails, History
  <2>2. Protocol!Refuse
    BY <2>1, SilentSteps, CallTakenUp, ProtocolActions
  <2> QED BY <2>2 DEF Protocol!Next
<1>7. CASE NextStep
  <2>1. /\ pc = "tools" /\ called = Len(reply.calls) /\ step' = step + 1
        /\ pc' = (IF step + 1 < budget THEN "top" ELSE "final")
        /\ UNCHANGED <<budget, result>> /\ ~result.finished
    BY <1>7 DEF NextStep, StepsCounted
  <2>2. Carried' = Carried
    BY <2>1, SilentSteps DEF History
  <2>3. ToBeCarried = <<>>
    <3>1. Len(reply.calls) \in Nat
      BY LenProperties DEF TypeOK, Message
    <3>2. SubSeq(reply.calls, called + 1, Len(reply.calls)) = <<>>
      BY <2>1, <3>1, SubSeqEmpty
    <3> QED BY <2>1, <3>2 DEF ToBeCarried
  <2>4. /\ Turn = "tools" /\ Turn' = (IF step + 1 < budget THEN "agent" ELSE "over")
        /\ Consulted = step + 1 /\ Consulted' = step + 1 /\ ToBeCarried' = <<>>
    BY <1>0, <2>1 DEF Turn, Consulted, ToBeCarried
  <2>5. Protocol!TurnDone
    BY <2>1, <2>2, <2>3, <2>4, ProtocolActions
  <2> QED BY <2>5 DEF Protocol!Next
<1>8. CASE Conclude
  <2>1. pc = "final" /\ pc' = "done" /\ UNCHANGED <<step, budget, result>>
    BY <1>8 DEF Conclude
  <2>2. Carried' = Carried
    BY <2>1, SilentSteps DEF History
  <2>3. /\ Turn' = Turn /\ ToBeCarried' = ToBeCarried /\ Consulted' = Consulted
    BY <2>1 DEF Turn, ToBeCarried, Consulted
  <2> QED BY <2>1, <2>2, <2>3, ProtocolActions
<1>9. CASE UNCHANGED vars
  <2>1. UNCHANGED <<Turn, budget, Consulted, ToBeCarried>> /\ History' = History
    BY <1>9 DEF vars, Turn, Consulted, ToBeCarried, History
  <2> QED BY <2>1, SilentSteps, ProtocolActions
<1> QED
  BY <1>1, <1>2, <1>3, <1>4, <1>5, <1>6, <1>7, <1>8, <1>9 DEF Next

\* Whatever the model says, the tools answer and the hooks forbid, and however
\* often the context is compacted: the model is consulted within the budget,
\* its calls are taken up one by one in its order, and no other is asked for
\* while one is open.
THEOREM LoopImplementsProtocol == Spec => ImplementsProtocol
<1> DEFINE Inv == TypeOK /\ StepsCounted /\ CallsDated
<1>1. Init => Inv
  BY InitType, InitSteps, InitDated
<1>2. Inv /\ [Next]_vars => Inv'
  BY NextType, NextSteps, NextDated
<1>3. Init => Protocol!Init
  BY InitProtocol
<1>4. Inv /\ Inv' /\ [Next]_vars => [Protocol!Next]_(Protocol!vars)
  BY NextProtocol
<1> QED
  BY <1>1, <1>2, <1>3, <1>4, PTL DEF Spec, ImplementsProtocol, Protocol!Spec
===============================================================================
