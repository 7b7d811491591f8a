------------------------------ MODULE Compaction ------------------------------
(***************************************************************************)
(* Context management: internal/ctxmgr/manager.go, and the token guard of   *)
(* internal/middleware/middleware.go, as operators on message lists.        *)
(*                                                                          *)
(* A message is abstracted to what compaction and the agent loop can tell   *)
(* apart: its role, the length of its text parts, the ids of the tool calls *)
(* it makes, the ids of the calls it answers (at most one), and where in    *)
(* its text the opening words of the user's task stand (the characters      *)
(* taskAt + 1 .. taskAt + taskLen; taskLen = 0 when it holds none of it).   *)
(***************************************************************************)
EXTENDS Integers, Sequences, Sums

CONSTANTS
    MaxTokens,  \* config.Session.MaxTokens, given to both the manager and the guard
    CallLen,    \* length of a rendered call in a summary, without the role tag
    ResultLen   \* length of a rendered result in a summary, without the role tag

ASSUME MaxTokensAssumption == MaxTokens \in Nat
ASSUME RenderAssumption == CallLen \in Nat \ {0} /\ ResultLen \in Nat \ {0}

Roles == {"system", "user", "assistant", "tool"}

\* All messages over a set Ids of tool call ids.
Message(Ids) ==
    [role: Roles, text: Nat, calls: Seq(Ids), answers: Seq(Ids),
     taskAt: Nat, taskLen: Nat]

-----------------------------------------------------------------------------
(* Token estimates: only the text of a part counts, four characters a token. *)

EstimateTokens(m) == m.text \div 4

EstimateMessages(ms) ==
    Total([i \in 1..Len(ms) |-> EstimateTokens(ms[i])], Len(ms))

ReservedTokens == MaxTokens \div 5

ShouldCompact(ms) == EstimateMessages(ms) > MaxTokens - ReservedTokens

-----------------------------------------------------------------------------
(* Summaries: every part of every message on a line of its own, behind a    *)
(* "[role] " tag; texts are cut after ClipLen characters.                   *)

ClipLen == 200

Clip(len) == IF len > ClipLen THEN ClipLen + 3 ELSE len

Tag(role) ==
    CASE role = "system"    -> 9
      [] role = "user"      -> 7
      [] role = "assistant" -> 12
      [] role = "tool"      -> 7

\* The lines of message m in a summary, each with its newline.
PartsLen(m) ==
    LET line(body) == Tag(m.role) + body + 1
    IN  (IF m.text > 0 THEN line(Clip(m.text)) ELSE 0)
          + Len(m.calls) * line(CallLen)
          + Len(m.answers) * line(ResultLen)

SummaryLen(ms) ==
    LET lines == Total([i \in 1..Len(ms) |-> PartsLen(ms[i])], Len(ms))
    IN  IF lines = 0 THEN 7 ELSE lines - 1      \* "(empty)"

\* Mutant: the last characters of a long text are kept, not the first.
MutantTaskKept(m) ==
    LET visible == m.taskAt + m.taskLen - (m.text - ClipLen)
    IN  IF m.text <= ClipLen \/ m.taskLen <= visible THEN m.taskLen
        ELSE IF visible > 0 THEN visible ELSE 0

\* The characters of the task that m contributes to a summary.
TaskKept(m) ==
    LET visible == ClipLen - m.taskAt
    IN  IF m.text <= ClipLen \/ m.taskLen <= visible THEN m.taskLen
        ELSE IF visible > 0 THEN visible ELSE 0

\* The message that replaces the head of a conversation. The task is only
\* ever in the first message: the user's prompt, then the last summary.
SummaryMessage(header, head) ==
    [role |-> "system", text |-> header + SummaryLen(head),
     calls |-> <<>>, answers |-> <<>>,
     taskAt |-> header + Tag(head[1].role) + head[1].taskAt,
     taskLen |-> TaskKept(head[1])]

-----------------------------------------------------------------------------
(* Compaction: a summary of the head in front of an untouched tail.         *)

LightTail == 5
AggressiveTail == 3
LightHeader == 43         \* "[Compacted - previous messages summarized]\n"
AggressiveHeader == 25    \* "[Aggressively compacted]\n"

Unchanged(ms) == [messages |-> ms, compacted |-> FALSE]

\* Mutant: the tail stops one message short of the end.
MutantSummarized(header, tail, ms) ==
    LET cut == Len(ms) - tail
    IN  [messages |-> <<SummaryMessage(header, SubSeq(ms, 1, cut))>>
                        \o SubSeq(ms, cut + 1, Len(ms) - 1),
         compacted |-> TRUE]

Summarized(header, tail, ms) ==
    LET cut == Len(ms) - tail
    IN  [messages |-> <<SummaryMessage(header, SubSeq(ms, 1, cut))>>
                        \o SubSeq(ms, cut + 1, Len(ms)),
         compacted |-> TRUE]

CompactLight(ms) ==
    IF Len(ms) < 2 * LightTail THEN Unchanged(ms)
    ELSE Summarized(LightHeader, LightTail, ms)

\* Mutant: the length check of the aggressive mode without its factor two.
MutantCompactAggressive(ms) ==
    IF Len(ms) <= AggressiveTail THEN CompactLight(ms)
    ELSE Summarized(AggressiveHeader, AggressiveTail, ms)

CompactAggressive(ms) ==
    IF Len(ms) < 2 * AggressiveTail THEN CompactLight(ms)
    ELSE Summarized(AggressiveHeader, AggressiveTail, ms)

Compact(ms, level) ==
    IF ~ShouldCompact(ms) /\ level = "none" THEN Unchanged(ms)
    ELSE IF level = "aggressive" THEN CompactAggressive(ms)
    ELSE CompactLight(ms)

\* AutoCompact(messages, force = false): the ratio 0.85 decides the level.
AutoCompact(ms) ==
    IF ~ShouldCompact(ms) THEN Unchanged(ms)
    ELSE Compact(ms, IF 100 * EstimateMessages(ms) > 85 * MaxTokens
                     THEN "aggressive" ELSE "light")

-----------------------------------------------------------------------------
(* middleware.MaxTokensGuard: over the limit, only the second half of the   *)
(* list goes out; the conversation itself is not shortened.                 *)

\* Mutant: the first half goes out instead.
MutantGuardRequest(systemLen, ms) ==
    LET total == EstimateMessages(ms) + systemLen \div 4
    IN  IF total > MaxTokens /\ Len(ms) > 2
        THEN SubSeq(ms, 1, Len(ms) \div 2)
        ELSE ms

GuardRequest(systemLen, ms) ==
    LET total == EstimateMessages(ms) + systemLen \div 4
    IN  IF total > MaxTokens /\ Len(ms) > 2
        THEN SubSeq(ms, Len(ms) \div 2 + 1, Len(ms))
        ELSE ms
===============================================================================
