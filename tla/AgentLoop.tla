------------------------------- MODULE AgentLoop -------------------------------
(***************************************************************************)
(* One call of EnhancedAgent.Execute (internal/agent/agent_v2.go): the loop *)
(* that consults the model, carries out the tool calls it makes, shortens   *)
(* the context and keeps the books of memory and self-enhancement.          *)
(*                                                                          *)
(* The model, the tools and the hooks are the environment: they answer with *)
(* anything the code accepts, or not at all. The time since the last        *)
(* compaction is a free choice at the top of every step.                    *)
(***************************************************************************)
EXTENDS Compaction, FiniteSets

CONSTANTS
    PromptLens,     \* lengths of user prompts; 0 is the empty prompt
    MaxStepsArgs,   \* values of the maxSteps argument
    ConfigSteps,    \* config.AgentConfig.MaxSteps
    SystemLen,      \* length of the enriched system prompt
    TextLens,       \* lengths of the model's texts
    MaxCalls        \* bound: tool calls in one reply

ASSUME PromptAssumption == PromptLens \subseteq Nat
ASSUME StepsAssumption == MaxStepsArgs \subseteq Int /\ ConfigSteps \in Int
ASSUME SystemAssumption == SystemLen \in Nat
ASSUME ReplyAssumption == TextLens \subseteq Nat /\ MaxCalls \in Nat

VARIABLES
    pc,        \* where Execute is
    step,      \* the loop counter i
    budget,    \* steps, the number of iterations allowed
    messages,  \* sess.Messages, the conversation as the agent keeps it
    request,   \* req.Messages as last sent to the provider
    reply,     \* resp.Message of the current step
    called,    \* calls of the reply the inner loop is past
    result,    \* the EnhancedStepResult
    memory,    \* entries added to the memory store, by kind
    profile    \* what the enhancer has been told

vars == <<pc, step, budget, messages, request, reply, called, result, memory, profile>>

Ids == Nat \X Nat    \* a call: the step it was made in, its place in the reply

-----------------------------------------------------------------------------
\* Mutant: the fallbacks for a missing maxSteps are forgotten.
MutantBudget(maxSteps) == maxSteps

Budget(maxSteps) ==
    IF maxSteps > 0 THEN maxSteps
    ELSE IF ConfigSteps > 0 THEN ConfigSteps
    ELSE 25

Say(role, text, calls, answers) ==
    [role |-> role, text |-> text, calls |-> calls, answers |-> answers,
     taskAt |-> 0, taskLen |-> 0]

UserMessage(len) == [Say("user", len, <<>>, <<>>) EXCEPT !.taskLen = len]

ToolResultMessage(call) == Say("tool", 0, <<>>, <<call>>)

\* The replies a provider may give in step i, other than one without content.
Replies(i) ==
    {Say("assistant", t, [k \in 1..n |-> <<i, k>>], <<>>) : t \in TextLens, n \in 0..MaxCalls}

EmptyReply == Say("assistant", 0, <<>>, <<>>)

StepResult == [messages: Seq(Message(Ids)), toolResults: Nat, finished: BOOLEAN, steps: Nat]

Memory == [responses: Nat, tools: Nat, insights: Nat]

Record == [steps: Nat, toolCalls: Nat, success: BOOLEAN]

Profile == [usage: Nat, failures: Nat, records: Seq(Record)]

Init ==
    /\ pc = "top"
    /\ step = 0
    /\ \E maxSteps \in MaxStepsArgs : budget = Budget(maxSteps)
    /\ \E len \in PromptLens :
         messages = IF len > 0 THEN <<UserMessage(len)>> ELSE <<>>
    /\ request = <<>>
    /\ reply = EmptyReply
    /\ called = 0
    /\ result = [messages |-> <<>>, toolResults |-> 0, finished |-> FALSE, steps |-> 0]
    /\ memory = [responses |-> 0, tools |-> 0, insights |-> 0]
    /\ profile = [usage |-> 0, failures |-> 0, records |-> <<>>]

-----------------------------------------------------------------------------
\* The messages of this step: compacted when more than two minutes have
\* passed since the last try and AutoCompact finds something to do.
Refreshed(elapsed) == IF elapsed THEN AutoCompact(messages) ELSE Unchanged(messages)

\* Compaction replaces the conversation and leaves an insight in memory.
Refresh(elapsed) ==
    /\ messages' = Refreshed(elapsed).messages
    /\ memory' = IF Refreshed(elapsed).compacted
                 THEN [memory EXCEPT !.insights = @ + 1] ELSE memory

\* Mutant: an empty conversation is not sent, the step is tried again.
MutantPrepareRequest ==
    /\ pc = "top"
    /\ messages # <<>>
    /\ \E elapsed \in BOOLEAN : Refresh(elapsed)
    /\ request' = GuardRequest(SystemLen, messages')
    /\ pc' = "chat"
    /\ UNCHANGED <<step, budget, reply, called, result, profile>>

PrepareRequest ==
    /\ pc = "top"
    /\ \E elapsed \in BOOLEAN : Refresh(elapsed)
    /\ request' = GuardRequest(SystemLen, messages')
    /\ pc' = "chat"
    /\ UNCHANGED <<step, budget, reply, called, result, profile>>

PreModelHookFails ==
    /\ pc = "top"
    /\ \E elapsed \in BOOLEAN : Refresh(elapsed)
    /\ pc' = "refused"
    /\ UNCHANGED <<step, budget, request, reply, called, result, profile>>

\* Chat returns an error: it is noted as an error pattern, and Execute
\* returns without a result and without recording the session.
ChatFails ==
    /\ pc = "chat"
    /\ profile' = [profile EXCEPT !.failures = @ + 1]
    /\ pc' = "failed"
    /\ UNCHANGED <<step, budget, messages, request, reply, called, result, memory>>

\* Chat succeeds and a post-model hook does not: the reply is dropped.
PostModelHookFails ==
    /\ pc = "chat"
    /\ result' = [result EXCEPT !.steps = @ + 1]
    /\ pc' = "failed"
    /\ UNCHANGED <<step, budget, messages, request, reply, called, memory, profile>>

Accept(r) ==
    /\ reply' = r
    /\ called' = 0
    /\ messages' = Append(messages, r)

ReceiveReply ==
    /\ pc = "chat"
    /\ \E r \in Replies(step) :
         /\ Accept(r)
         /\ result' = [result EXCEPT !.steps = @ + 1,
                                     !.messages = Append(@, r),
                                     !.finished = r.calls = <<>>]
         /\ pc' = IF r.calls = <<>> THEN "final" ELSE "tools"
    /\ memory' = [memory EXCEPT !.responses = @ + 1]
    /\ UNCHANGED <<step, budget, request, profile>>

\* A reply without content is appended to the conversation; then its first
\* part is read for the memory entry, and the program panics.
ReceiveEmptyReply ==
    /\ pc = "chat"
    /\ Accept(EmptyReply)
    /\ result' = [result EXCEPT !.steps = @ + 1, !.messages = Append(@, EmptyReply)]
    /\ pc' = "panicked"
    /\ UNCHANGED <<step, budget, request, memory, profile>>

\* Mutant: every turn of the inner loop sees the first call.
MutantNextCall == reply.calls[1]

NextCall == reply.calls[called + 1]

TakeUpCall ==
    /\ pc = "tools"
    /\ called < Len(reply.calls)
    /\ called' = called + 1
    /\ UNCHANGED <<pc, step, budget, request, reply>>

\* Mutant: failed results are not remembered.
MutantRunTool ==
    /\ TakeUpCall
    /\ \E success \in BOOLEAN :
         /\ profile' = [profile EXCEPT !.usage = @ + 1,
                                       !.failures = IF success THEN @ ELSE @ + 1]
         /\ memory' = IF success THEN [memory EXCEPT !.tools = @ + 1] ELSE memory
    /\ messages' = Append(messages, ToolResultMessage(NextCall))
    /\ result' = [result EXCEPT !.toolResults = @ + 1,
                                !.messages = Append(@, ToolResultMessage(NextCall))]

\* The tool runs, well or not; its answer goes into the conversation. An
\* error of the post-tool hook only empties the answer's text.
RunTool ==
    /\ TakeUpCall
    /\ \E success \in BOOLEAN :
         profile' = [profile EXCEPT !.usage = @ + 1,
                                    !.failures = IF success THEN @ ELSE @ + 1]
    /\ memory' = [memory EXCEPT !.tools = @ + 1]
    /\ messages' = Append(messages, ToolResultMessage(NextCall))
    /\ result' = [result EXCEPT !.toolResults = @ + 1,
                                !.messages = Append(@, ToolResultMessage(NextCall))]

\* A pre-tool hook refuses the call: it is counted as a use of the tool, and
\* the conversation gets no answer for it.
PreToolHookFails ==
    /\ TakeUpCall
    /\ profile' = [profile EXCEPT !.usage = @ + 1]
    /\ UNCHANGED <<messages, result, memory>>

\* Mutant: off by one in the loop's condition.
MutantNextStep ==
    /\ pc = "tools"
    /\ called = Len(reply.calls)
    /\ step' = step + 1
    /\ pc' = IF step + 1 <= budget THEN "top" ELSE "final"
    /\ UNCHANGED <<budget, messages, request, reply, called, result, memory, profile>>

\* Mutant: the next consultation does not wait for the calls of this one.
MutantEagerNextStep ==
    /\ pc = "tools"
    /\ step' = step + 1
    /\ pc' = IF step + 1 < budget THEN "top" ELSE "final"
    /\ UNCHANGED <<budget, messages, request, reply, called, result, memory, profile>>

\* i++ and the loop's condition.
NextStep ==
    /\ pc = "tools"
    /\ called = Len(reply.calls)
    /\ step' = step + 1
    /\ pc' = IF step + 1 < budget THEN "top" ELSE "final"
    /\ UNCHANGED <<budget, messages, request, reply, called, result, memory, profile>>

\* The session is recorded and Execute returns its result.
Conclude ==
    /\ pc = "final"
    /\ profile' = [profile EXCEPT !.records =
                     Append(@, [steps |-> result.steps, toolCalls |-> result.toolResults,
                                success |-> result.finished])]
    /\ pc' = "done"
    /\ UNCHANGED <<step, budget, messages, request, reply, called, result, memory>>

Next ==
    \/ PrepareRequest \/ PreModelHookFails
    \/ ChatFails \/ PostModelHookFails \/ ReceiveReply \/ ReceiveEmptyReply
    \/ RunTool \/ PreToolHookFails
    \/ NextStep \/ Conclude

\* The agent's own steps are taken; nothing makes a provider or a tool answer.
Fairness == WF_vars(PrepareRequest) /\ WF_vars(NextStep) /\ WF_vars(Conclude)

Spec == Init /\ [][Next]_vars

FairSpec == Spec /\ Fairness

-----------------------------------------------------------------------------
(* Properties.                                                              *)

History == result.messages    \* every reply and answer so far, in order

Over == pc \in {"done", "refused", "failed", "panicked"}

TypeOK ==
    /\ pc \in {"top", "chat", "tools", "final"} \cup
              {"done", "refused", "failed", "panicked"}
    /\ step \in Nat
    /\ budget \in Nat \ {0}
    /\ messages \in Seq(Message(Ids))
    /\ request \in Seq(Message(Ids))
    /\ reply \in Message(Ids)
    /\ called \in Nat
    /\ result \in StepResult
    /\ memory \in Memory
    /\ profile \in Profile

\* No pre-tool hook has refused a call so far: every use of a tool left a
\* result. The app installs no hook that does.
NoneRefused == profile.usage = memory.tools

\* Every call a reply makes is answered right after that reply, in the order
\* of the calls and each once; only the calls of the current reply that the
\* inner loop has not reached are open. A refused call leaves a hole, so the
\* claim ends there.
CallsAnswered ==
    NoneRefused =>
      \A i \in DOMAIN History : \A k \in DOMAIN History[i].calls :
        \/ /\ i + k <= Len(History)
           /\ History[i + k] = ToolResultMessage(History[i].calls[k])
        \/ pc = "tools" /\ i = Len(History) - called /\ k > called

\* Messages in front of what the loop itself said: the prompt or a summary.
Lead ==
    IF messages # <<>> /\ messages[1].role \in {"user", "system"} THEN 1 ELSE 0

\* However often the context was compacted, the conversation is the last part
\* of the full history behind at most one prompt or summary: nothing in it is
\* lost, repeated or out of order, and there are no summaries further down.
ConversationIsRecent ==
    /\ Len(messages) - Lead <= Len(History)
    /\ \A j \in Lead + 1 .. Len(messages) :
         messages[j] = History[Len(History) - Len(messages) + j]

\* In a list of messages every call is answered right behind it, and answers
\* without their call stand only before the first reply (where a cut was).
Threaded(ms) ==
    /\ \A i \in DOMAIN ms : \A k \in DOMAIN ms[i].calls :
         i + k <= Len(ms) /\ ms[i + k].answers = <<ms[i].calls[k]>>
    /\ \A j \in DOMAIN ms : ms[j].role = "tool" =>
         \/ \A i \in 1..j : ms[i].role # "assistant"
         \/ \E i \in 1..j : \E k \in DOMAIN ms[i].calls : ms[j].answers = <<ms[i].calls[k]>>

\* Compaction and the token guard both cut by number of messages, without
\* regard to turns. What the provider gets still has no open call, and
\* answers whose call was cut off only in front of the first reply.
RequestThreaded == pc = "chat" /\ NoneRefused => Threaded(request)

Saying(r) == {i \in DOMAIN History : History[i].role = r}

\* Execute returns a finished result only if the model's last word made no
\* calls, and an unfinished one only after exactly the budgeted number of
\* replies, all of them with their calls taken up.
StopsForAReason ==
    /\ result.steps <= budget
    /\ pc \in {"final", "done"} =>
         IF result.finished
         THEN /\ History[Len(History)].role = "assistant"
              /\ History[Len(History)].calls = <<>>
         ELSE /\ result.steps = budget
              /\ \A i \in Saying("assistant") : History[i].calls # <<>>

\* The three sets of books, memory, profile and result, tell the same story
\* at every moment, however the session ends: a reply read before the panic
\* is not in memory, a refused call is a use but not a result.
BooksAgree ==
    /\ memory.responses =
         Cardinality(Saying("assistant")) - (IF pc = "panicked" THEN 1 ELSE 0)
    /\ memory.tools = Cardinality(Saying("tool"))
    /\ result.toolResults = memory.tools
    /\ profile.usage >= memory.tools
    /\ \A i \in DOMAIN profile.records :
         profile.records[i] = [steps |-> memory.responses, toolCalls |-> memory.tools,
                               success |-> result.finished]
    /\ Len(profile.records) = IF pc = "done" THEN 1 ELSE 0

\* The agent never stalls of its own: it comes to an end, or waits for a
\* model or a tool that never answers (no call has a time limit).
OverOrWaiting == <>Over \/ <>[](pc = "chat" \/ (pc = "tools" /\ called < Len(reply.calls)))

\* The loop as the promise of ToolProtocol.
Protocol == INSTANCE ToolProtocol WITH
    Limits <- Nat \ {0},
    turn  <- CASE pc = "top"   -> "agent"
               [] pc = "chat"  -> "model"
               [] pc = "tools" -> "tools"
               [] OTHER        -> "over",
    limit <- budget,
    asked <- IF \/ pc \in {"top", "refused"}
                \/ pc \in {"final", "done"} /\ ~result.finished
             THEN step ELSE step + 1,
    open  <- IF pc = "tools" THEN SubSeq(reply.calls, called + 1, Len(reply.calls)) ELSE <<>>,
    carried <- {History[i].answers[1] : i \in Saying("tool")}

\* Every step of the loop, compaction and hooks included, is a step the
\* protocol allows or leaves it as it is.
ImplementsProtocol == Protocol!Spec
===============================================================================
