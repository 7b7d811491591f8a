----------------------------- MODULE CompactionMC -----------------------------
(***************************************************************************)
(* A conversation that grows turn by turn and is compacted whenever         *)
(* the two minutes of the agent loop have passed, for checking the          *)
(* operators of Compaction on every conversation within the bounds.         *)
(***************************************************************************)
EXTENDS Compaction

CONSTANTS PromptLen,   \* length of the user's prompt
          LeadLens,    \* lengths of what the pipeline puts in front of it
          TurnTexts,   \* lengths of the model's texts
          TurnCalls,   \* bound: tool calls in one turn
          MaxLen,      \* bound: messages in the conversation
          MaxRounds    \* bound: effective compactions

ASSUME TalkAssumption == PromptLen \in Nat \ {0} /\ TurnTexts \subseteq Nat
\* app.go, RunPipeline: nothing in the step "plan", else "Continue with the ...
\* step: ", 25 characters and the step's name, which has no more than 18.
ASSUME LeadAssumption == LeadLens \subseteq 0..43
ASSUME TalkBounds == TurnCalls \in Nat /\ MaxLen \in Nat /\ MaxRounds \in Nat

VARIABLES conversation, rounds

talkVars == <<conversation, rounds>>

Said(role, text, calls, answers) ==
    [role |-> role, text |-> text, calls |-> calls, answers |-> answers,
     taskAt |-> 0, taskLen |-> 0]

\* The prompt behind so many other characters.
Task(lead) ==
    [role |-> "user", text |-> lead + PromptLen, calls |-> <<>>, answers |-> <<>>,
     taskAt |-> lead, taskLen |-> PromptLen]

TalkInit == \E lead \in LeadLens : conversation = <<Task(lead)>> /\ rounds = 0

\* A turn of the loop: the model speaks and calls tools, each call is answered.
Grow == \E text \in TurnTexts, n \in 1..TurnCalls :
          /\ Len(conversation) + 1 + n <= MaxLen
          /\ conversation' = Append(conversation,
                                    Said("assistant", text, [k \in 1..n |-> "call"], <<>>))
                               \o [k \in 1..n |-> Said("tool", 0, <<>>, <<"call">>)]
          /\ UNCHANGED rounds

Squeeze == /\ rounds < MaxRounds
           /\ AutoCompact(conversation).compacted
           /\ conversation' = AutoCompact(conversation).messages
           /\ rounds' = rounds + 1

TalkNext == Grow \/ Squeeze

TalkSpec == TalkInit /\ [][TalkNext]_talkVars

-----------------------------------------------------------------------------
\* The user's task is stated once, in the first message; what is left of it
\* after a compaction is what the clipped first line of the summary holds.
\* Up to four compactions in a row leave some of it (the fifth, if all are
\* light, leaves nothing), also behind the words the pipeline puts in front
\* of it: a session must not forget its task before that.
TaskSurvivesFourCompactions ==
    rounds <= 4 => conversation[1].taskLen > 0

\* Compacting what was just compacted cannot go on for ever: after two
\* rounds a third finds nothing to do, also when the kept tail alone is
\* over the limit (then AutoCompact gives up; it does not cut the tail).
TwoRoundsSettle ==
    LET once  == AutoCompact(conversation)
        twice == AutoCompact(once.messages)
    IN  ~AutoCompact(twice.messages).compacted
===============================================================================
