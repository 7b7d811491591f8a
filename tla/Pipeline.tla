------------------------------- MODULE Pipeline --------------------------------
(***************************************************************************)
(* App.RunPipeline (internal/app/app.go): the steps of the pipeline one     *)
(* after the other, each by a copy of an agent in a session of its own,     *)
(* with what they leave behind in the sessions, the memory, the statistics  *)
(* and the skills, and with what the prompts of later steps are told of it; *)
(* and App.SwitchModel between pipelines.                                   *)
(*                                                                          *)
(* Of Execute only the turns are kept here, AgentLoop is its model: a turn  *)
(* is a reply with its calls. A prompt is what it says beyond the step's    *)
(* own words; the skills there are and the workspace's AGENTS.md are the    *)
(* same in all of them.                                                     *)
(***************************************************************************)
EXTENDS Routing, Enhancement, Toolbox, Skills, Recall, Sums, Selections

CONSTANTS
    Agents,      \* names of the App's agents
    Registry,    \* the providers and the models they list
    FirstModel,  \* provider and model each agent starts with
    Pipelines,   \* pipelines that may be run: sequences of steps
    Turns,       \* the calls a reply may have
    Clients,     \* the MCP clients in the order they were started
    SkillFiles,  \* the skills' files in the order they are found
    FirstEntries,\* the memory's entries at the start, from earlier sessions
    WorkingEntries, \* newest entries a prompt may show: 20
    ManySteps,   \* mean of steps above which there is a tip: 15
    FewSessions, \* sessions an agent needs more of for the other tip: 3
    SwitchRefs,  \* models the user may switch to
    MaxRuns,     \* bound: calls of RunPipeline
    MaxSwitches, \* bound: successful switches
    MaxCompactions  \* bound: compactions of a conversation

\* A step: its agent, its model (<<>> if none), and the number of its turns.
Step(agent, model, limit) == [agent |-> agent, model |-> model, limit |-> limit]

\* What becomes of a call: a hook refuses it, or the tool it reaches, if it
\* reaches one that has no say in it, does well or fails.
Fates == {"refused", "good", "bad"}

Calls == [name : Seq(STRING), action : STRING, arg : STRING, fate : Fates]

Call(name, fate) == [name |-> name, action |-> "", arg |-> "", fate |-> fate]

SkillCall(action, arg) == [name |-> <<"skill">>, action |-> action, arg |-> arg, fate |-> "good"]

\* A file's title has a text, and a directory a name.
ASSUME PipelineAssumption ==
    /\ FirstModel \in [Agents -> (DOMAIN Registry) \X Seq(STRING)]
    /\ Turns \subseteq Seq(Calls)
    /\ Clients \in Seq(SUBSET Seq(STRING))
    /\ FirstEntries \in Seq({"insight", "session_summary"})
    /\ SkillFiles \in Seq(Range(SkillFiles))
    /\ \A k \in DOMAIN SkillFiles : NameOf(SkillFiles[k]) # ""
    /\ {WorkingEntries, ManySteps, FewSessions} \subseteq Nat

VARIABLES
    pc,        \* "idle", "next" (step), "running" (Execute) or "done" (with Execute)
    agents,    \* h.Agents: provider, model and session of each
    sessions,  \* SessionMgr: the parent of each session, 0 if it has none
    parent,    \* parentSess
    todo,      \* steps of the pipeline not yet begun
    ag,        \* the copy that carries out the step
    result,    \* the EnhancedStepResult so far: steps, tool results, finished
    limit,     \* turns the step has
    memory,    \* the store's session, its entries, the sessions it has summaries of
    engine,    \* h.Enhancer
    loaded,    \* h.Skills.loaded
    runs,      \* history: every Execute, what it was given and how it ended
    said,      \* history: the calls of the tool "skill" that were carried out
    switched,  \* history: the model each agent was last given
    errors,    \* history: failures of each agent
    started    \* calls of RunPipeline so far

vars == <<pc, agents, sessions, parent, todo, ag, result, limit, memory, engine, loaded, runs,
          said, switched, errors, started>>

Nobody == [name |-> "", provider |-> "", model |-> <<>>, session |-> 0]

NoResult == [steps |-> 0, calls |-> 0, finished |-> FALSE]

Init ==
    /\ pc = "idle" /\ todo = <<>> /\ parent = 0 /\ sessions = <<>>
    /\ agents = [a \in Agents |-> [name |-> a, provider |-> FirstModel[a][1],
                                   model |-> FirstModel[a][2], session |-> 0]]
    /\ ag = Nobody /\ result = NoResult /\ limit = 0
    /\ memory = [session |-> 0, entries |-> FirstEntries, summaries |-> <<>>]
    /\ engine = NewEngine /\ loaded = {}
    /\ runs = <<>> /\ said = <<>> /\ started = 0
    /\ switched = FirstModel /\ errors = [a \in Agents |-> 0]

\* An unknown model changes nothing.
SwitchModel(a, ref) ==
    /\ pc = "idle"
    /\ \E route \in Routes(Registry, ref) :
         /\ agents' = [agents EXCEPT ![a].provider = route[1], ![a].model = route[2]]
         /\ switched' = [switched EXCEPT ![a] = route]
    /\ UNCHANGED <<pc, sessions, parent, todo, ag, result, limit, memory, engine, loaded, runs,
                   said, errors, started>>

RunPipeline(steps) ==
    /\ pc = "idle" /\ started < MaxRuns
    /\ sessions' = Append(sessions, 0)
    /\ parent' = Len(sessions')
    /\ todo' = steps
    /\ pc' = "next"
    /\ started' = started + 1
    /\ UNCHANGED <<agents, ag, result, limit, memory, engine, loaded, runs, said, switched,
                   errors>>

\* The copies of the agent a step may be carried out by: with the step's model
\* if it has one that is found, else with the agent's.
Copies(step) ==
    LET copy == [agents[step.agent] EXCEPT !.session = parent]
        routes == IF step.model = <<>> THEN {} ELSE Routes(Registry, step.model)
    IN  IF routes = {} THEN {copy}
        ELSE {[copy EXCEPT !.provider = r[1], !.model = r[2]] : r \in routes}

Found == Discover(SkillFiles)

\* What the prompt of an agent's step says now.
Prompt(agent) ==
    [insights |-> WorkingContext(memory.entries, WorkingEntries),
     tips     |-> Tips(engine, agent, ManySteps, FewSessions),
     active   |-> LoadedInstructions(Found, loaded)]

\* How a run begins in the history: heard and recalled are how many calls of
\* the tool "skill" and entries of the memory there were before it.
NewRun(step, copy) ==
    [step |-> step, ran |-> copy, end |-> "running", default |-> switched[copy.name],
     result |-> NoResult, compactions |-> 0, prompt |-> Prompt(copy.name),
     heard |-> Len(said), recalled |-> Len(memory.entries)]

\* Mutant: ag is the agent itself, not a copy.
MutantBeginStep ==
    /\ pc = "next" /\ todo # <<>> /\ Head(todo).agent \in Agents
    /\ \E copy \in Copies(Head(todo)) :
         /\ sessions' = Append(sessions, copy.session)
         /\ ag' = [copy EXCEPT !.session = Len(sessions')]
         /\ agents' = [agents EXCEPT ![copy.name] = ag']
    /\ memory' = [memory EXCEPT !.session = Len(sessions')]
    /\ runs' = Append(runs, NewRun(Head(todo), ag'))
    /\ result' = NoResult /\ limit' = Head(todo).limit
    /\ pc' = "running"
    /\ UNCHANGED <<parent, todo, engine, loaded, said, switched, errors, started>>

\* The beginning of Execute: a session below the copy's, which becomes the
\* copy's session and the memory's.
BeginStep ==
    /\ pc = "next" /\ todo # <<>> /\ Head(todo).agent \in Agents
    /\ \E copy \in Copies(Head(todo)) :
         /\ sessions' = Append(sessions, copy.session)
         /\ ag' = [copy EXCEPT !.session = Len(sessions')]
    /\ memory' = [memory EXCEPT !.session = Len(sessions')]
    /\ runs' = Append(runs, NewRun(Head(todo), ag'))
    /\ result' = NoResult /\ limit' = Head(todo).limit
    /\ pc' = "running"
    /\ UNCHANGED <<agents, parent, todo, engine, loaded, said, switched, errors, started>>

\* The agent is not found, or there is no further step.
EndPipeline ==
    /\ pc = "next"
    /\ todo # <<>> => Head(todo).agent \notin Agents
    /\ pc' = "idle"
    /\ UNCHANGED <<agents, sessions, parent, todo, ag, result, limit, memory, engine, loaded, runs,
                   said, switched, errors, started>>

CarriedOut(call) == call.fate # "refused"

Failed(call) ==
    /\ CarriedOut(call)
    /\ IF call.name = <<"skill">> THEN ~SkillSucceeds(call.action, call.arg)
       ELSE ~Handled(Clients, call.name) \/ call.fate = "bad"

Results(turn) == Cardinality({k \in DOMAIN turn : CarriedOut(turn[k])})

Failures(turn, n) == Cardinality({k \in 1..n : Failed(turn[k])})

\* What the statistics are told of one call: its use, and its failure, which
\* is the agent's failure of that number.
Tell(e, call, number) ==
    LET used == RecordToolUsage(e, ag.name, call.name)
    IN  IF Failed(call) THEN RecordErrorPattern(used, ag.name, number) ELSE used

\* The entries an iteration adds to the memory: an insight if the conversation
\* has been compacted, and a result for the reply and each call carried out.
Noted(compacted, results) ==
    (IF compacted THEN <<"insight">> ELSE <<>>) \o [k \in 1..results |-> "tool_result"]

\* A conversation is compacted after two minutes, so not before the first reply.
MayCompact ==
    /\ result.steps > 0
    /\ Total([i \in DOMAIN runs |-> runs[i].compactions], Len(runs)) < MaxCompactions

\* The statistics when they have been told of all calls of a reply.
ToldAll(turn) ==
    LET told[k \in 0..Len(turn)] ==
          IF k = 0 THEN engine
          ELSE Tell(told[k - 1], turn[k], errors[ag.name] + Failures(turn, k))
    IN  told[Len(turn)]

SkillCalls(turn) == Within(turn, {c \in Calls : CarriedOut(c) /\ c.name = <<"skill">>})

\* The loaded skills when all these calls have been carried out.
LoadedAfter(calls) ==
    LET after[k \in 0..Len(calls)] ==
          IF k = 0 THEN loaded ELSE Loaded(Found, after[k - 1], calls[k].action, calls[k].arg)
    IN  after[Len(calls)]

\* What the statistics and the skills are told by the calls of a reply.
TakeUpCalls(turn) ==
    /\ engine' = ToldAll(turn)
    /\ errors' = [errors EXCEPT ![ag.name] = @ + Failures(turn, Len(turn))]
    /\ loaded' = LoadedAfter(SkillCalls(turn))
    /\ said' = said \o SkillCalls(turn)

\* A reply with its calls, each of which is carried out or refused by a hook.
\* One without calls ends Execute, as does the last one it may have.
Turn(turn, compacted) ==
    /\ pc = "running" /\ result.steps < limit /\ (compacted => MayCompact)
    /\ TakeUpCalls(turn)
    /\ memory' = [memory EXCEPT !.entries = @ \o Noted(compacted, 1 + Results(turn))]
    /\ result' = [steps |-> result.steps + 1,
                  calls |-> result.calls + Results(turn),
                  finished |-> turn = <<>>]
    /\ runs' = [runs EXCEPT ![Len(runs)].result = result',
                            ![Len(runs)].compactions = IF compacted THEN @ + 1 ELSE @]
    /\ pc' = IF turn = <<>> \/ result'.steps = limit THEN "done" ELSE "running"
    /\ UNCHANGED <<agents, sessions, parent, todo, ag, limit, switched, started>>

\* Chat fails, which is told to the statistics, or a hook does, which is not.
\* The pipeline ends.
Fails(compacted) ==
    /\ pc = "running" /\ (compacted => MayCompact)
    /\ \/ /\ engine' = RecordErrorPattern(engine, ag.name, errors[ag.name] + 1)
          /\ errors' = [errors EXCEPT ![ag.name] = @ + 1]
       \/ UNCHANGED <<engine, errors>>
    /\ memory' = [memory EXCEPT !.entries = @ \o Noted(compacted, 0)]
    /\ runs' = [runs EXCEPT ![Len(runs)].end = "failed",
                            ![Len(runs)].compactions = IF compacted THEN @ + 1 ELSE @]
    /\ pc' = "idle"
    /\ UNCHANGED <<agents, sessions, parent, todo, ag, result, limit, loaded, said, switched,
                   started>>

\* Mutant: the summary is filed under the pipeline's session.
MutantConclude ==
    /\ pc = "done"
    /\ engine' = RecordSession(engine, Record(ag.name, ag.session, result.steps, result.calls,
                                              result.finished))
    /\ memory' = [memory EXCEPT !.summaries = Append(@, parent),
                                !.entries = Append(@, "session_summary")]
    /\ runs' = [runs EXCEPT ![Len(runs)].end = "ended"]
    /\ todo' = Tail(todo)
    /\ pc' = "next"
    /\ UNCHANGED <<agents, sessions, parent, ag, result, limit, loaded, said, switched, errors,
                   started>>

\* The end of Execute and SaveSessionOutcome. A step that has used up its turns
\* is followed by the next like one that has finished.
Conclude ==
    /\ pc = "done"
    /\ engine' = RecordSession(engine, Record(ag.name, ag.session, result.steps, result.calls,
                                              result.finished))
    /\ memory' = [memory EXCEPT !.summaries = Append(@, ag.session),
                                !.entries = Append(@, "session_summary")]
    /\ runs' = [runs EXCEPT ![Len(runs)].end = "ended"]
    /\ todo' = Tail(todo)
    /\ pc' = "next"
    /\ UNCHANGED <<agents, sessions, parent, ag, result, limit, loaded, said, switched, errors,
                   started>>

\* Bound: as many agents are switched, each once.
MaySwitch == Cardinality({a \in Agents : switched[a] # FirstModel[a]}) < MaxSwitches

Next ==
    \/ \E a \in Agents, ref \in SwitchRefs : MaySwitch /\ SwitchModel(a, ref)
    \/ \E steps \in Pipelines : RunPipeline(steps)
    \/ BeginStep \/ EndPipeline
    \/ \E turn \in Turns, compacted \in BOOLEAN : Turn(turn, compacted)
    \/ \E compacted \in BOOLEAN : Fails(compacted)
    \/ Conclude

Spec == Init /\ [][Next]_vars

-----------------------------------------------------------------------------
(* Properties.                                                              *)

Ended == Within(runs, {r \in Range(runs) : r.end = "ended"})

\* app.go, RunPipeline: every Execute has a session of its own below that of its
\* pipeline, the memory is in it while it runs, and each one that came to an
\* end, finished or not, has left exactly one record and one summary, in
\* order; one that failed has left none.
OneRecordPerStep ==
    /\ \A i \in DOMAIN runs : sessions[sessions[runs[i].ran.session]] = 0
    /\ pc = "running" => memory.session = ag.session /\ sessions[ag.session] = parent
    /\ memory.summaries = [i \in DOMAIN Ended |-> Ended[i].ran.session]
    /\ engine.sessions =
         [i \in DOMAIN Ended |-> Record(Ended[i].ran.name, Ended[i].ran.session,
            Ended[i].result.steps, Ended[i].result.calls, Ended[i].result.finished)]

\* app.go, RunPipeline: the model of a step is the step's alone. Each step runs
\* on its own model if that can be found, else on the one its agent was last
\* switched to, whatever steps have run before on the same agent.
ModelsStayWithSteps ==
    \A i \in DOMAIN runs :
      LET r == runs[i]
          own == IF r.step.model = <<>> THEN {} ELSE Routes(Registry, r.step.model)
      IN  <<r.ran.provider, r.ran.model>> \in IF own # {} THEN own ELSE {r.default}

\* enhance.go, RecordErrorPattern: an agent's common failures are its last
\* eleven, in order, those of sessions that failed among them.
LastFailuresKept ==
    \A a \in Agents :
      LET kept == IF errors[a] > 11 THEN 11 ELSE errors[a]
      IN  Profile(engine, a).failures = [i \in 1..kept |-> errors[a] - kept + i]

\* What a run has added to the memory.
Happened(r) == r.result.steps + r.result.calls + r.compactions + (IF r.end = "ended" THEN 1 ELSE 0)

\* memory.go, WorkingContext: what a prompt shows of the insights of earlier
\* sessions depends on nothing but how much has happened since: every reply,
\* call carried out, compaction and recorded session, by whatever agent, pushes
\* them out by one, and what is pushed out does not come back.
InsightsForgottenByRank ==
    \A i \in DOMAIN runs :
      LET since == Total([j \in DOMAIN runs |-> Happened(runs[j])], i - 1)
      IN  /\ runs[i].prompt.insights \cap DOMAIN FirstEntries =
               {k \in Insights(FirstEntries) : Len(FirstEntries) - k + since < WorkingEntries}
          /\ \A j \in 1..(i - 1) :
               runs[i].prompt.insights \cap 1..runs[j].recalled \subseteq runs[j].prompt.insights

\* skills.go, Load, Unload and LoadedInstructions: a step's prompt has the text
\* of a skill if and only if the last that any agent has said of it, in an
\* earlier step, was to load it, and the text is that of the last file with
\* the skill's name, behind its header.
ActiveSkillsShown ==
    \A i \in DOMAIN runs :
      LET mentions(n) == {k \in 1..runs[i].heard : said[k].arg = n /\ said[k].action \in {"load", "unload"}}
          active(n) == mentions(n) # {} /\ said[Max(mentions(n))].action = "load"
          text(n) == Skill(SkillFiles[Max({f \in DOMAIN SkillFiles : NameOf(SkillFiles[f]) = n})]).content
      IN  runs[i].prompt.active =
            {<<n, text(n)>> : n \in {NameOf(SkillFiles[f]) : f \in DOMAIN SkillFiles} \cap
                                    {m \in {said[k].arg : k \in DOMAIN said} : active(m)}}

\* enhance.go, GenerateAgentInstructions: a step's prompt has the tip to verify
\* if and only if the agent has more recorded sessions than a few and has
\* finished less than half of them, and the tip to batch if and only if they
\* had too many steps on the whole, whatever other agents did.
TipsFollowRecords ==
    \A i \in DOMAIN runs :
      LET own(k) == runs[k].ran.name = runs[i].ran.name /\ runs[k].end = "ended"
          count == Cardinality({k \in 1..(i - 1) : own(k)})
          finished == Cardinality({k \in 1..(i - 1) : own(k) /\ runs[k].result.finished})
          steps == Total([k \in 1..(i - 1) |-> IF own(k) THEN runs[k].result.steps ELSE 0], i - 1)
      IN  /\ "verify" \in runs[i].prompt.tips <=> count > FewSessions /\ 2 * finished < count
          /\ "batch" \in runs[i].prompt.tips <=> steps > ManySteps * count
===============================================================================
