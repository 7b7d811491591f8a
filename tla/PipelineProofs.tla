----------------------------- MODULE PipelineProofs -----------------------------
(***************************************************************************)
(* For any agents, providers, pipelines, switches, servers, turns, skills   *)
(* and insights:                                                            *)
(*   - the model of a step is the step's alone;                             *)
(*   - the last failures that were recorded are the ones kept;              *)
(*   - a step that ended is recorded once, under the name it ran by;        *)
(*   - what the memory has forgotten is below what it still tells;          *)
(*   - the tips are those the whole history calls for;                      *)
(*   - a prompt shows the skills that were loaded and not unloaded since.   *)
(***************************************************************************)
EXTENDS Pipeline, RecursionTheorems

\* A provider and one of its models.
IsRoute(r) == r = <<r[1], r[2]>>

\* What an agent is made of is what it was last switched to, and nothing else.
AgentsAsSwitched ==
    /\ DOMAIN switched = Agents
    /\ switched = [a \in Agents |-> switched[a]]
    /\ \A a \in Agents : IsRoute(switched[a])
    /\ agents = [a \in Agents |-> [name |-> a, provider |-> switched[a][1],
                                   model |-> switched[a][2], session |-> 0]]

\* A run has the fields it began with.
IsRun(r) ==
    r = [step |-> r.step, ran |-> r.ran, end |-> r.end, default |-> r.default,
         result |-> r.result, compactions |-> r.compactions, prompt |-> r.prompt,
         heard |-> r.heard, recalled |-> r.recalled]

\* As a run goes on it keeps its step, the copy of its agent, and the model that
\* would have been the agent's.
GoesOn(r, later) ==
    /\ IsRun(later)
    /\ later.step = r.step /\ later.ran = r.ran /\ later.default = r.default
    /\ later.prompt = r.prompt /\ later.heard = r.heard /\ later.recalled = r.recalled

OwnModels(step) == IF step.model = <<>> THEN {} ELSE Routes(Registry, step.model)

OnItsModel(r) ==
    <<r.ran.provider, r.ran.model>> \in
      IF OwnModels(r.step) # {} THEN OwnModels(r.step) ELSE {r.default}

RunsInv ==
    /\ \E S : runs \in Seq(S)
    /\ \A i \in 1..Len(runs) : IsRun(runs[i]) /\ OnItsModel(runs[i])

ModelsInv == AgentsAsSwitched /\ RunsInv

-----------------------------------------------------------------------------
LEMMA RoutesAreRoutes ==
    ASSUME NEW reg, NEW ref, NEW r \in Routes(reg, ref)
    PROVE  IsRoute(r)
  BY DEF Routes, IsRoute

LEMMA RunFields ==
    ASSUME NEW run, IsRun(run), NEW x
    PROVE  /\ GoesOn(run, [run EXCEPT !.end = x])
           /\ GoesOn(run, [run EXCEPT !.result = x])
           /\ GoesOn(run, [run EXCEPT !.compactions = x])
<1>1. GoesOn(run, [run EXCEPT !.end = x])
  BY DEF IsRun, GoesOn
<1>2. GoesOn(run, [run EXCEPT !.result = x])
  BY DEF IsRun, GoesOn
<1>3. GoesOn(run, [run EXCEPT !.compactions = x])
  BY DEF IsRun, GoesOn
<1> QED
  BY <1>1, <1>2, <1>3

LEMMA RunsGoOn ==
    ASSUME RunsInv, NEW r, runs' = [runs EXCEPT ![Len(runs)] = r],
           Len(runs) \in 1..Len(runs) => GoesOn(runs[Len(runs)], r)
    PROVE  RunsInv'
<1>1. PICK S : runs \in Seq(S)
  BY DEF RunsInv
<1>2. /\ Len(runs) \in Nat /\ DOMAIN runs = 1..Len(runs)
      /\ runs \in [1..Len(runs) -> S]
  BY <1>1, LenProperties
<1> DEFINE T == S \cup {r}
<1>3. runs' \in [1..Len(runs) -> T]
  BY <1>2
<1> HIDE DEF T
<1>4. runs' \in Seq(T) /\ Len(runs') = Len(runs)
  <2>1. runs' \in Seq(T)
    <3>1. \A n \in Nat : \A f \in [1..n -> T] : f \in Seq(T)
      OBVIOUS
    <3> QED BY Zenon, <1>2, <1>3, <3>1
  <2>2. DOMAIN runs' = 1..Len(runs)
    BY <1>3
  <2> QED BY <1>2, <2>1, <2>2, LenProperties
<1>5. ASSUME NEW i \in 1..Len(runs) PROVE IsRun(runs'[i]) /\ OnItsModel(runs'[i])
  <2>0. IsRun(runs[i]) /\ OnItsModel(runs[i])
    BY DEF RunsInv
  <2>1. CASE i # Len(runs)
    <3>1. runs'[i] = runs[i]
      BY <1>2, <2>1
    <3> QED BY <2>0, <3>1
  <2>2. CASE i = Len(runs)
    <3>1. runs'[i] = r
      BY <1>2, <2>2
    <3>2. IsRun(r) /\ r.step = runs[i].step /\ r.ran = runs[i].ran /\ r.default = runs[i].default
      BY <2>2 DEF GoesOn
    <3>3. OnItsModel(r)
      BY <2>0, <3>2 DEF OnItsModel
    <3> QED BY <3>1, <3>2, <3>3
  <2> QED BY <2>1, <2>2
<1> QED
  BY <1>4, <1>5 DEF RunsInv

LEMMA RunsBegin ==
    ASSUME RunsInv, NEW r, runs' = Append(runs, r), IsRun(r), OnItsModel(r)
    PROVE  RunsInv'
<1>1. PICK S : runs \in Seq(S)
  BY DEF RunsInv
<1> DEFINE T == S \cup {r}
<1>2. runs \in Seq(T) /\ r \in T
  <2>1. Len(runs) \in Nat /\ runs \in [1..Len(runs) -> S]
    BY <1>1, LenProperties
  <2>2. runs \in [1..Len(runs) -> T]
    BY <2>1
  <2> QED BY <2>1, <2>2
<1> HIDE DEF T
<1>3. /\ runs' \in Seq(T) /\ Len(runs') = Len(runs) + 1 /\ Len(runs) \in Nat
      /\ \A i \in 1..Len(runs) : runs'[i] = runs[i]
      /\ runs'[Len(runs) + 1] = r
  BY <1>2, AppendProperties, LenProperties
<1>4. ASSUME NEW i \in 1..Len(runs') PROVE IsRun(runs'[i]) /\ OnItsModel(runs'[i])
  <2>1. CASE i \in 1..Len(runs)
    <3>1. runs'[i] = runs[i]
      BY <1>3, <2>1
    <3> QED BY <2>1, <3>1 DEF RunsInv
  <2>2. CASE i = Len(runs) + 1
    BY <1>3, <2>2
  <2> QED BY <1>3, <2>1, <2>2
<1> QED
  BY <1>3, <1>4 DEF RunsInv

LEMMA InitModels == Init => ModelsInv
<1> SUFFICES ASSUME Init PROVE ModelsInv
  OBVIOUS
<1>1. switched = FirstModel /\ FirstModel \in [Agents -> (DOMAIN Registry) \X Seq(STRING)]
  BY PipelineAssumption DEF Init
<1>2. \A a \in Agents : IsRoute(switched[a])
  <2> SUFFICES ASSUME NEW a \in Agents PROVE IsRoute(switched[a])
    OBVIOUS
  <2>1. switched[a] \in (DOMAIN Registry) \X Seq(STRING)
    BY <1>1
  <2> QED BY <2>1 DEF IsRoute
<1>3. AgentsAsSwitched
  BY <1>1, <1>2 DEF Init, AgentsAsSwitched
<1>4. runs \in Seq({}) /\ Len(runs) = 0
  BY EmptySeq DEF Init
<1>5. RunsInv
  BY <1>4 DEF RunsInv
<1> QED
  BY <1>3, <1>5 DEF ModelsInv

LEMMA SwitchKeeps ==
    ASSUME ModelsInv, NEW a \in Agents, NEW ref, SwitchModel(a, ref)
    PROVE  ModelsInv'
<1>1. PICK route \in Routes(Registry, ref) :
        /\ agents' = [agents EXCEPT ![a].provider = route[1], ![a].model = route[2]]
        /\ switched' = [switched EXCEPT ![a] = route]
  BY DEF SwitchModel
<1>2. IsRoute(route)
  BY RoutesAreRoutes
<1>3. AgentsAsSwitched
  BY DEF ModelsInv
<1>4. agents[a] = [name |-> a, provider |-> switched[a][1], model |-> switched[a][2], session |-> 0]
  BY <1>3 DEF AgentsAsSwitched
<1>5. agents' = [agents EXCEPT ![a] = [name |-> a, provider |-> route[1], model |-> route[2],
                                       session |-> 0]]
  <2>1. DOMAIN agents = Agents
    BY <1>3 DEF AgentsAsSwitched
  <2>2. [[agents[a] EXCEPT !.provider = route[1]] EXCEPT !.model = route[2]] =
          [name |-> a, provider |-> route[1], model |-> route[2], session |-> 0]
    <3>1. [agents[a] EXCEPT !.provider = route[1]] =
            [name |-> a, provider |-> route[1], model |-> switched[a][2], session |-> 0]
      BY <1>4
    <3> DEFINE routed == [agents[a] EXCEPT !.provider = route[1]]
    <3> HIDE DEF routed
    <3>2. routed = [name |-> a, provider |-> route[1], model |-> switched[a][2], session |-> 0]
      BY <3>1 DEF routed
    <3>3. [routed EXCEPT !.model = route[2]] =
            [name |-> a, provider |-> route[1], model |-> route[2], session |-> 0]
      BY <3>2
    <3> QED BY <3>3 DEF routed
  <2>3. agents' = [agents EXCEPT ![a] = [[agents[a] EXCEPT !.provider = route[1]]
                                           EXCEPT !.model = route[2]]]
    BY <1>1, <2>1
  <2> QED BY <2>2, <2>3
<1>6. \A b \in Agents : switched'[b] = IF b = a THEN route ELSE switched[b]
  BY <1>1, <1>3 DEF AgentsAsSwitched
<1>7. /\ DOMAIN switched' = Agents /\ switched' = [b \in Agents |-> switched'[b]]
      /\ \A b \in Agents : IsRoute(switched'[b])
  BY <1>1, <1>2, <1>3, <1>6 DEF AgentsAsSwitched
<1>8. agents' = [b \in Agents |-> [name |-> b, provider |-> switched'[b][1],
                                   model |-> switched'[b][2], session |-> 0]]
  BY <1>3, <1>5, <1>6 DEF AgentsAsSwitched
<1>9. AgentsAsSwitched'
  BY <1>7, <1>8 DEF AgentsAsSwitched
<1>10. RunsInv'
  BY DEF ModelsInv, RunsInv, SwitchModel
<1> QED
  BY <1>9, <1>10 DEF ModelsInv

\* The copy a step is carried out by: the step's agent, below the pipeline's
\* session, on the step's model or the agent's.
LEMMA CopyMade ==
    ASSUME AgentsAsSwitched, BeginStep
    PROVE  LET step == Head(todo)
               own == OwnModels(step)
           IN  /\ step.agent \in Agents
               /\ ag'.name = step.agent /\ ag'.session = Len(sessions')
               /\ sessions' = Append(sessions, parent)
               /\ <<ag'.provider, ag'.model>> \in IF own # {} THEN own ELSE {switched[step.agent]}
<1> DEFINE step == Head(todo)
           a == Head(todo).agent
<1>1. a \in Agents
  BY DEF BeginStep
<1>2. PICK copy \in Copies(step) : /\ sessions' = Append(sessions, copy.session)
                                  /\ ag' = [copy EXCEPT !.session = Len(sessions')]
  BY DEF BeginStep
<1> HIDE DEF step, a
<1>4. agents[a] = [name |-> a, provider |-> switched[a][1], model |-> switched[a][2], session |-> 0]
  BY <1>1 DEF AgentsAsSwitched
<1> DEFINE own == OwnModels(step)
           plain == [name |-> a, provider |-> switched[a][1], model |-> switched[a][2],
                     session |-> parent]
<1>5. copy \in IF own = {} THEN {plain}
               ELSE {[plain EXCEPT !.provider = r[1], !.model = r[2]] : r \in own}
  <2>1. step.agent = a
    BY DEF step, a
  <2>2. [agents[step.agent] EXCEPT !.session = parent] = plain
    BY <1>4, <2>1
  <2> HIDE DEF plain
  <2> QED BY <1>2, <2>2 DEF Copies, OwnModels
<1>6. \A r \in own : IsRoute(r)
  BY RoutesAreRoutes DEF OwnModels
<1>7. IsRoute(switched[a])
  BY <1>1 DEF AgentsAsSwitched
<1>8. /\ ag'.name = a /\ ag'.session = Len(sessions') /\ copy.session = parent
      /\ <<ag'.provider, ag'.model>> \in IF own # {} THEN own ELSE {switched[a]}
  <2>1. CASE own = {}
    <3>1. copy = plain
      BY <1>5, <2>1
    <3>2. ag' = [name |-> a, provider |-> switched[a][1], model |-> switched[a][2],
                 session |-> Len(sessions')]
      BY <1>2, <3>1
    <3> QED BY <1>7, <2>1, <3>1, <3>2 DEF IsRoute
  <2>2. CASE own # {}
    <3>1. PICK r \in own : copy = [plain EXCEPT !.provider = r[1], !.model = r[2]]
      BY <1>5, <2>2
    <3>2. copy = [name |-> a, provider |-> r[1], model |-> r[2], session |-> parent]
      BY <3>1
    <3>3. ag' = [name |-> a, provider |-> r[1], model |-> r[2], session |-> Len(sessions')]
      BY <1>2, <3>2
    <3>4. IsRoute(r)
      BY <1>6
    <3> HIDE DEF own
    <3> QED BY <2>2, <3>2, <3>3, <3>4 DEF IsRoute
  <2> QED BY <2>1, <2>2
<1> QED
  BY <1>1, <1>2, <1>8 DEF step, a

LEMMA BeginKeeps ==
    ASSUME ModelsInv, BeginStep
    PROVE  ModelsInv'
<1> DEFINE step == Head(todo)
<1>1. UNCHANGED <<agents, switched>> /\ runs' = Append(runs, NewRun(step, ag'))
  BY DEF BeginStep
<1>2. AgentsAsSwitched /\ RunsInv
  BY DEF ModelsInv
<1>3. /\ step.agent \in Agents /\ ag'.name = step.agent
      /\ <<ag'.provider, ag'.model>> \in
           IF OwnModels(step) # {} THEN OwnModels(step) ELSE {switched[step.agent]}
  BY <1>2, CopyMade
<1> HIDE DEF step
<1>4. IsRun(NewRun(step, ag')) /\ NewRun(step, ag').step = step /\ NewRun(step, ag').ran = ag'
      /\ NewRun(step, ag').default = switched[step.agent]
  BY <1>3 DEF NewRun, IsRun
<1>5. OnItsModel(NewRun(step, ag'))
  BY <1>3, <1>4 DEF OnItsModel
<1>6. RunsInv'
  BY <1>1, <1>2, <1>4, <1>5, RunsBegin
<1>7. AgentsAsSwitched'
  BY <1>1, <1>2 DEF AgentsAsSwitched
<1> QED
  BY <1>6, <1>7 DEF ModelsInv

LEMMA NextModels == ModelsInv /\ [Next]_vars => ModelsInv'
<1> SUFFICES ASSUME ModelsInv, [Next]_vars PROVE ModelsInv'
  OBVIOUS
<1>0. AgentsAsSwitched /\ RunsInv
  BY DEF ModelsInv
<1>1. ASSUME NEW a \in Agents, NEW ref \in SwitchRefs, SwitchModel(a, ref) PROVE ModelsInv'
  BY <1>1, SwitchKeeps
<1>2. ASSUME UNCHANGED <<agents, switched, runs>> PROVE ModelsInv'
  BY <1>2 DEF ModelsInv, AgentsAsSwitched, RunsInv
<1>3. ASSUME NEW r, runs' = [runs EXCEPT ![Len(runs)] = r], UNCHANGED <<agents, switched>>,
             IsRun(runs[Len(runs)]) => GoesOn(runs[Len(runs)], r)
      PROVE  ModelsInv'
  <2>1. Len(runs) \in 1..Len(runs) => IsRun(runs[Len(runs)])
    BY <1>0 DEF RunsInv
  <2>2. RunsInv'
    BY <1>0, <1>3, <2>1, RunsGoOn
  <2> QED BY <1>0, <1>3, <2>2 DEF ModelsInv, AgentsAsSwitched
<1>4. ASSUME NEW steps \in Pipelines, RunPipeline(steps) PROVE ModelsInv'
  BY <1>2, <1>4 DEF RunPipeline
<1>5. CASE BeginStep
  BY <1>5, BeginKeeps
<1>6. CASE EndPipeline
  BY <1>2, <1>6 DEF EndPipeline
<1>7. ASSUME NEW turn \in Turns, NEW compacted \in BOOLEAN, Turn(turn, compacted)
      PROVE  ModelsInv'
  <2> DEFINE last == runs[Len(runs)]
             count == IF compacted THEN last.compactions + 1 ELSE last.compactions
             told == [last EXCEPT !.result = result']
             r == [told EXCEPT !.compactions = count]
  <2>1. /\ runs' = [runs EXCEPT ![Len(runs)].result = result',
                                ![Len(runs)].compactions = IF compacted THEN @ + 1 ELSE @]
        /\ UNCHANGED <<agents, switched>>
    BY <1>7 DEF Turn
  <2>2. runs' = [runs EXCEPT ![Len(runs)] = r]
    BY <2>1
  <2>3. IsRun(last) => GoesOn(last, told)
    BY RunFields
  <2> HIDE DEF told
  <2>4. IsRun(told) => GoesOn(told, r)
    BY RunFields
  <2>5. IsRun(last) => GoesOn(last, r)
    BY <2>3, <2>4 DEF GoesOn
  <2> HIDE DEF r
  <2> QED BY <1>3, <2>1, <2>2, <2>5
<1>8. ASSUME NEW compacted \in BOOLEAN, Fails(compacted)
      PROVE  ModelsInv'
  <2> DEFINE last == runs[Len(runs)]
             count == IF compacted THEN last.compactions + 1 ELSE last.compactions
             told == [last EXCEPT !.end = "failed"]
             r == [told EXCEPT !.compactions = count]
  <2>1. /\ runs' = [runs EXCEPT ![Len(runs)].end = "failed",
                                ![Len(runs)].compactions = IF compacted THEN @ + 1 ELSE @]
        /\ UNCHANGED <<agents, switched>>
    BY <1>8 DEF Fails
  <2>2. runs' = [runs EXCEPT ![Len(runs)] = r]
    BY <2>1
  <2>3. IsRun(last) => GoesOn(last, told)
    BY RunFields
  <2> HIDE DEF told
  <2>4. IsRun(told) => GoesOn(told, r)
    BY RunFields
  <2>5. IsRun(last) => GoesOn(last, r)
    BY <2>3, <2>4 DEF GoesOn
  <2> HIDE DEF r
  <2> QED BY <1>3, <2>1, <2>2, <2>5
<1>9. CASE Conclude
  <2> DEFINE last == runs[Len(runs)]
             r == [last EXCEPT !.end = "ended"]
  <2>1. runs' = [runs EXCEPT ![Len(runs)] = r] /\ UNCHANGED <<agents, switched>>
    BY <1>9 DEF Conclude
  <2>2. IsRun(last) => GoesOn(last, r)
    BY RunFields
  <2> HIDE DEF r
  <2> QED BY <1>3, <2>1, <2>2
<1>10. CASE UNCHANGED vars
  BY <1>2, <1>10 DEF vars
<1> QED
  BY <1>1, <1>4, <1>5, <1>6, <1>7, <1>8, <1>9, <1>10 DEF Next

\* Every Execute runs on its step's own model if that is found, else on the one
\* its agent was last switched to, whatever steps ran before on the same agent.
THEOREM ModelsAlwaysStay == Spec => []ModelsStayWithSteps
<1>1. ModelsInv => ModelsStayWithSteps
  <2> SUFFICES ASSUME ModelsInv, NEW i \in DOMAIN runs PROVE OnItsModel(runs[i])
    BY DEF ModelsStayWithSteps, OnItsModel, OwnModels
  <2>1. DOMAIN runs = 1..Len(runs)
    BY LenProperties DEF ModelsInv, RunsInv
  <2> QED BY <2>1 DEF ModelsInv, RunsInv
<1> QED
  BY <1>1, InitModels, NextModels, PTL DEF Spec

-----------------------------------------------------------------------------
(* The history of runs.                                                     *)

Active == pc \in {"running", "done"}

IsCounted(r) ==
    /\ r.result \in [steps : Nat, calls : Nat, finished : BOOLEAN]
    /\ r.compactions \in Nat

\* All runs are over but the last one while it is under way, which is by the
\* copy and has the results so far.
HistoryInv ==
    /\ ModelsInv
    /\ \A i \in 1..Len(runs) :
         /\ IsCounted(runs[i])
         /\ (Active /\ i = Len(runs)) \/ runs[i].end \in {"ended", "failed"}
    /\ Active => /\ Len(runs) # 0
                 /\ runs[Len(runs)].end = "running"
                 /\ runs[Len(runs)].ran = ag
                 /\ runs[Len(runs)].result = result
                 /\ ag.name \in Agents

\* What a step does to the history: a run begins ...
OneMore(r) ==
    /\ Len(runs) \in Nat /\ Len(runs') = Len(runs) + 1
    /\ \E T : runs \in Seq(T) /\ runs' \in Seq(T)
    /\ \A i \in 1..Len(runs) : runs'[i] = runs[i]
    /\ runs'[Len(runs) + 1] = r

\* ... or the last one goes on.
LastGoesOn(end, more) ==
    /\ Len(runs) \in Nat \ {0} /\ Len(runs') = Len(runs)
    /\ \E T : runs \in Seq(T) /\ runs' \in Seq(T)
    /\ \A i \in 1..Len(runs) : i # Len(runs) => runs'[i] = runs[i]
    /\ GoesOn(runs[Len(runs)], runs'[Len(runs)])
    /\ runs'[Len(runs)].end = end
    /\ runs'[Len(runs)].compactions = runs[Len(runs)].compactions + more

LEMMA LastChanges ==
    ASSUME RunsInv, Len(runs) # 0, NEW r, runs' = [runs EXCEPT ![Len(runs)] = r]
    PROVE  /\ Len(runs) \in Nat \ {0} /\ Len(runs') = Len(runs)
           /\ \E T : runs \in Seq(T) /\ runs' \in Seq(T)
           /\ \A i \in 1..Len(runs) : i # Len(runs) => runs'[i] = runs[i]
           /\ runs'[Len(runs)] = r
           /\ IsRun(runs[Len(runs)])
<1>1. PICK S : runs \in Seq(S)
  BY DEF RunsInv
<1>2. Len(runs) \in Nat /\ DOMAIN runs = 1..Len(runs) /\ runs \in [1..Len(runs) -> S]
  BY <1>1, LenProperties
<1> DEFINE T == S \cup {r}
<1>3. runs' \in [1..Len(runs) -> T] /\ runs \in [1..Len(runs) -> T]
  BY <1>2
<1> HIDE DEF T
<1>4. \A n \in Nat : \A f \in [1..n -> T] : f \in Seq(T)
  OBVIOUS
<1>5. runs' \in Seq(T) /\ runs \in Seq(T)
  BY Zenon, <1>2, <1>3, <1>4
<1>6. Len(runs') = Len(runs)
  <2>1. DOMAIN runs' = 1..Len(runs)
    BY <1>3
  <2>2. Len(runs') \in Nat /\ DOMAIN runs' = 1..Len(runs')
    BY <1>5, LenProperties
  <2> QED BY <1>2, <2>1, <2>2
<1>7. runs'[Len(runs)] = r /\ \A i \in 1..Len(runs) : i # Len(runs) => runs'[i] = runs[i]
  <2>1. Len(runs) \in 1..Len(runs)
    BY <1>2
  <2>2. runs'[Len(runs)] = r
    BY <1>2, <2>1
  <2>3. ASSUME NEW i \in 1..Len(runs), i # Len(runs) PROVE runs'[i] = runs[i]
    BY <1>2, <2>3
  <2> QED BY <2>2, <2>3
<1>8. IsRun(runs[Len(runs)])
  BY <1>2 DEF RunsInv
<1> QED
  BY <1>2, <1>5, <1>6, <1>7, <1>8

LEMMA TurnRuns ==
    ASSUME HistoryInv, NEW turn, NEW compacted \in BOOLEAN, Turn(turn, compacted)
    PROVE  /\ LastGoesOn("running", IF compacted THEN 1 ELSE 0)
           /\ runs'[Len(runs)].result = result'
<1> DEFINE last == runs[Len(runs)]
           count == IF compacted THEN last.compactions + 1 ELSE last.compactions
           r == [[last EXCEPT !.result = result'] EXCEPT !.compactions = count]
<1>1. runs' = [runs EXCEPT ![Len(runs)].result = result',
                           ![Len(runs)].compactions = IF compacted THEN @ + 1 ELSE @]
  BY DEF Turn
<1>2. runs' = [runs EXCEPT ![Len(runs)] = r]
  BY <1>1
<1>3. /\ RunsInv /\ Len(runs) # 0 /\ last.end = "running"
      /\ IsCounted(last)
  <2>1. Active
    BY DEF Turn, Active
  <2>2. RunsInv /\ Len(runs) # 0 /\ last.end = "running"
    BY <2>1 DEF HistoryInv, ModelsInv
  <2>3. Len(runs) \in 1..Len(runs)
    BY <2>2, LenProperties DEF RunsInv
  <2> QED BY <2>2, <2>3 DEF HistoryInv
<1>4. ASSUME IsRun(last)
      PROVE  GoesOn(last, r) /\ r.end = last.end /\ r.result = result' /\ r.compactions = count
  <2> DEFINE told == [last EXCEPT !.result = result']
  <2> HIDE DEF last, count
  <2>1. GoesOn(last, told) /\ told.end = last.end /\ told.result = result'
    BY <1>4 DEF IsRun, GoesOn
  <2> HIDE DEF told
  <2>2. IsRun(told)
    BY <2>1 DEF GoesOn
  <2> DEFINE now == [told EXCEPT !.compactions = count]
  <2>3. GoesOn(told, now) /\ now.end = told.end /\ now.result = told.result /\ now.compactions = count
    BY <2>2 DEF IsRun, GoesOn
  <2> HIDE DEF now
  <2>4. GoesOn(last, now) /\ now.end = last.end /\ now.result = result' /\ now.compactions = count
    BY <2>1, <2>3 DEF GoesOn
  <2>5. now = r
    BY Zenon DEF now, told
  <2> HIDE DEF r
  <2> QED BY <2>4, <2>5
<1> HIDE DEF r
<1>5. /\ Len(runs) \in Nat \ {0} /\ Len(runs') = Len(runs)
      /\ \E T : runs \in Seq(T) /\ runs' \in Seq(T)
      /\ \A i \in 1..Len(runs) : i # Len(runs) => runs'[i] = runs[i]
      /\ runs'[Len(runs)] = r
      /\ IsRun(last)
  BY <1>2, <1>3, LastChanges
<1>6. count = last.compactions + (IF compacted THEN 1 ELSE 0)
  BY <1>3 DEF IsCounted
<1> QED
  BY <1>3, <1>4, <1>5, <1>6 DEF LastGoesOn

LEMMA FailRuns ==
    ASSUME HistoryInv, NEW compacted \in BOOLEAN, Fails(compacted)
    PROVE  /\ LastGoesOn("failed", IF compacted THEN 1 ELSE 0)
           /\ runs'[Len(runs)].result = result
<1> DEFINE last == runs[Len(runs)]
           count == IF compacted THEN last.compactions + 1 ELSE last.compactions
           r == [[last EXCEPT !.end = "failed"] EXCEPT !.compactions = count]
<1>1. runs' = [runs EXCEPT ![Len(runs)].end = "failed",
                           ![Len(runs)].compactions = IF compacted THEN @ + 1 ELSE @]
  BY DEF Fails
<1>2. runs' = [runs EXCEPT ![Len(runs)] = r]
  BY <1>1
<1>3. RunsInv /\ Len(runs) # 0 /\ last.result = result /\ IsCounted(last)
  <2>1. Active
    BY DEF Fails, Active
  <2>2. RunsInv /\ Len(runs) # 0 /\ last.result = result
    BY <2>1 DEF HistoryInv, ModelsInv
  <2>3. Len(runs) \in 1..Len(runs)
    BY <2>2, LenProperties DEF RunsInv
  <2> QED BY <2>2, <2>3 DEF HistoryInv
<1>4. ASSUME IsRun(last)
      PROVE  GoesOn(last, r) /\ r.end = "failed" /\ r.result = last.result /\ r.compactions = count
  <2> DEFINE told == [last EXCEPT !.end = "failed"]
  <2> HIDE DEF last, count
  <2>1. GoesOn(last, told) /\ told.end = "failed" /\ told.result = last.result
    BY <1>4 DEF IsRun, GoesOn
  <2> HIDE DEF told
  <2>2. IsRun(told)
    BY <2>1 DEF GoesOn
  <2> DEFINE now == [told EXCEPT !.compactions = count]
  <2>3. GoesOn(told, now) /\ now.end = told.end /\ now.result = told.result /\ now.compactions = count
    BY <2>2 DEF IsRun, GoesOn
  <2> HIDE DEF now
  <2>4. GoesOn(last, now) /\ now.end = "failed" /\ now.result = last.result /\ now.compactions = count
    BY <2>1, <2>3 DEF GoesOn
  <2>5. now = r
    BY Zenon DEF now, told
  <2> HIDE DEF r
  <2> QED BY <2>4, <2>5
<1> HIDE DEF r
<1>5. /\ Len(runs) \in Nat \ {0} /\ Len(runs') = Len(runs)
      /\ \E T : runs \in Seq(T) /\ runs' \in Seq(T)
      /\ \A i \in 1..Len(runs) : i # Len(runs) => runs'[i] = runs[i]
      /\ runs'[Len(runs)] = r
      /\ IsRun(last)
  BY <1>2, <1>3, LastChanges
<1>6. count = last.compactions + (IF compacted THEN 1 ELSE 0)
  BY <1>3 DEF IsCounted
<1> QED
  BY <1>3, <1>4, <1>5, <1>6 DEF LastGoesOn

LEMMA ConcludeRuns ==
    ASSUME HistoryInv, Conclude
    PROVE  LastGoesOn("ended", 0) /\ runs'[Len(runs)].result = result
<1> DEFINE last == runs[Len(runs)]
           r == [last EXCEPT !.end = "ended"]
<1>1. runs' = [runs EXCEPT ![Len(runs)] = r]
  BY DEF Conclude
<1>2. RunsInv /\ Len(runs) # 0 /\ last.result = result /\ last.compactions \in Nat
  <2>1. Active
    BY DEF Conclude, Active
  <2>2. RunsInv /\ Len(runs) # 0 /\ last.result = result
    BY <2>1 DEF HistoryInv, ModelsInv
  <2>3. Len(runs) \in 1..Len(runs)
    BY <2>2, LenProperties DEF RunsInv
  <2> QED BY <2>2, <2>3 DEF HistoryInv, IsCounted
<1>3. IsRun(last) => GoesOn(last, r) /\ r.end = "ended" /\ r.result = last.result
                     /\ r.compactions = last.compactions
  BY DEF IsRun, GoesOn
<1> HIDE DEF r
<1>4. /\ Len(runs) \in Nat \ {0} /\ Len(runs') = Len(runs)
      /\ \E T : runs \in Seq(T) /\ runs' \in Seq(T)
      /\ \A i \in 1..Len(runs) : i # Len(runs) => runs'[i] = runs[i]
      /\ runs'[Len(runs)] = r
      /\ IsRun(last)
  BY <1>1, <1>2, LastChanges
<1>5. last.compactions + 0 = last.compactions
  BY <1>2
<1> QED
  BY <1>2, <1>3, <1>4, <1>5 DEF LastGoesOn

LEMMA BeginRuns ==
    ASSUME HistoryInv, BeginStep
    PROVE  /\ OneMore(NewRun(Head(todo), ag'))
           /\ ag'.name \in Agents /\ ag'.session = Len(sessions')
           /\ sessions' = Append(sessions, parent)
<1>1. RunsInv /\ AgentsAsSwitched /\ runs' = Append(runs, NewRun(Head(todo), ag'))
  BY DEF HistoryInv, ModelsInv, BeginStep
<1> DEFINE r == NewRun(Head(todo), ag')
<1> HIDE DEF r
<1>2. PICK S : runs \in Seq(S)
  BY <1>1 DEF RunsInv
<1> DEFINE T == S \cup {r}
<1>3. runs \in Seq(T) /\ r \in T
  <2>1. Len(runs) \in Nat /\ runs \in [1..Len(runs) -> S]
    BY <1>2, LenProperties
  <2>2. runs \in [1..Len(runs) -> T]
    BY <2>1
  <2> QED BY <2>1, <2>2
<1> HIDE DEF T
<1>4. /\ runs' \in Seq(T) /\ Len(runs') = Len(runs) + 1 /\ Len(runs) \in Nat
      /\ \A i \in 1..Len(runs) : runs'[i] = runs[i]
      /\ runs'[Len(runs) + 1] = r
  BY <1>1, <1>3, AppendProperties, LenProperties DEF r
<1>5. OneMore(r)
  BY <1>3, <1>4 DEF OneMore
<1>6. ag'.name \in Agents /\ ag'.session = Len(sessions') /\ sessions' = Append(sessions, parent)
  BY <1>1, CopyMade
<1> QED
  BY <1>5, <1>6 DEF r

LEMMA TurnLength ==
    ASSUME NEW turn \in Turns
    PROVE  turn \in Seq(Calls) /\ Len(turn) \in Nat /\ DOMAIN turn = 1..Len(turn)
<1>1. turn \in Seq(Calls)
  BY PipelineAssumption
<1> QED
  BY <1>1, LenProperties

LEMMA ResultsCounted ==
    ASSUME NEW turn \in Turns
    PROVE  Results(turn) \in Nat
<1> DEFINE S == {k \in DOMAIN turn : CarriedOut(turn[k])}
<1>1. Len(turn) \in Nat /\ S = (1..Len(turn)) \cap S
  BY TurnLength
<1> HIDE DEF S
<1>2. Cardinality((1..Len(turn)) \cap S) \in Nat
  BY <1>1, CountUpTo
<1> QED
  BY <1>1, <1>2 DEF Results, S

LEMMA InitHistory == Init => HistoryInv
<1> SUFFICES ASSUME Init PROVE HistoryInv
  OBVIOUS
<1>1. Len(runs) = 0 /\ ~Active
  BY EmptySeq DEF Init, Active
<1> QED
  BY <1>1, InitModels DEF HistoryInv

LEMMA NextHistory == HistoryInv /\ [Next]_vars => HistoryInv'
<1> SUFFICES ASSUME HistoryInv, [Next]_vars PROVE HistoryInv'
  OBVIOUS
<1>0. ModelsInv' /\ (Len(runs) \in Nat)
  <2>1. ModelsInv
    BY DEF HistoryInv
  <2> QED BY <2>1, NextModels, LenProperties DEF ModelsInv, RunsInv
<1>1. ASSUME UNCHANGED <<runs, ag, result>>, Active' = Active PROVE HistoryInv'
  <2>1. UNCHANGED <<runs, ag, result>>
    BY <1>1
  <2>2. \A i \in 1..Len(runs) :
          /\ IsCounted(runs[i])
          /\ (Active' /\ i = Len(runs)) \/ runs[i].end \in {"ended", "failed"}
    BY <1>1 DEF HistoryInv
  <2>3. Active' => /\ Len(runs) # 0
                   /\ runs[Len(runs)].end = "running"
                   /\ runs[Len(runs)].ran = ag
                   /\ runs[Len(runs)].result = result
                   /\ ag.name \in Agents
    BY <1>1 DEF HistoryInv
  <2> QED BY <1>0, <2>1, <2>2, <2>3 DEF HistoryInv
<1>2. ASSUME NEW a \in Agents, NEW ref, SwitchModel(a, ref) PROVE HistoryInv'
  BY <1>1, <1>2 DEF SwitchModel, Active
<1>3. ASSUME NEW steps \in Pipelines, RunPipeline(steps) PROVE HistoryInv'
  BY <1>1, <1>3 DEF RunPipeline, Active
<1>4. CASE EndPipeline
  BY <1>1, <1>4 DEF EndPipeline, Active
<1>5. CASE UNCHANGED vars
  BY <1>1, <1>5 DEF vars, Active
<1>6. CASE BeginStep
  <2> DEFINE r == NewRun(Head(todo), ag')
  <2>1. ~Active /\ Active' /\ result' = NoResult
    BY <1>6 DEF BeginStep, Active
  <2>2. OneMore(r) /\ ag'.name \in Agents
    BY <1>6, BeginRuns
  <2>3. r.end = "running" /\ r.ran = ag' /\ r.result = NoResult /\ IsCounted(r)
    BY DEF NewRun, IsCounted, NoResult
  <2> HIDE DEF r
  <2>4. /\ Len(runs') = Len(runs) + 1
        /\ \A i \in 1..Len(runs) : runs'[i] = runs[i]
        /\ runs'[Len(runs) + 1] = r
    BY <2>2 DEF OneMore
  <2>5. ASSUME NEW i \in 1..Len(runs')
        PROVE  /\ IsCounted(runs'[i])
               /\ (Active' /\ i = Len(runs')) \/ runs'[i].end \in {"ended", "failed"}
    <3>1. CASE i = Len(runs) + 1
      BY <2>1, <2>3, <2>4, <3>1
    <3>2. CASE i \in 1..Len(runs)
      BY <2>1, <2>4, <3>2 DEF HistoryInv
    <3> QED BY <1>0, <2>4, <3>1, <3>2
  <2>6. Len(runs') # 0 /\ runs'[Len(runs')] = r
    BY <1>0, <2>4
  <2> QED BY <1>0, <2>1, <2>2, <2>3, <2>5, <2>6 DEF HistoryInv
<1>7. ASSUME NEW end, NEW more \in Nat, LastGoesOn(end, more), Active, UNCHANGED ag,
             runs'[Len(runs)].result = result',
             result' \in [steps : Nat, calls : Nat, finished : BOOLEAN],
             Active' => end = "running", ~Active' => end \in {"ended", "failed"}
      PROVE  HistoryInv'
  <2>1. /\ Len(runs) \in Nat \ {0} /\ Len(runs') = Len(runs)
        /\ \A i \in 1..Len(runs) : i # Len(runs) => runs'[i] = runs[i]
        /\ runs'[Len(runs)].end = end
        /\ runs'[Len(runs)].ran = runs[Len(runs)].ran
        /\ runs'[Len(runs)].compactions = runs[Len(runs)].compactions + more
    BY <1>7 DEF LastGoesOn, GoesOn
  <2>2. Len(runs) \in 1..Len(runs)
    BY <2>1
  <2>3. runs[Len(runs)].compactions \in Nat
    BY <2>2 DEF HistoryInv, IsCounted
  <2>4. IsCounted(runs'[Len(runs)])
    BY <1>7, <2>1, <2>3 DEF IsCounted
  <2>5. ASSUME NEW i \in 1..Len(runs')
        PROVE  /\ IsCounted(runs'[i])
               /\ (Active' /\ i = Len(runs')) \/ runs'[i].end \in {"ended", "failed"}
    <3>1. CASE i = Len(runs)
      BY <1>7, <2>1, <2>4, <3>1
    <3>2. CASE i # Len(runs)
      BY <1>7, <2>1, <3>2 DEF HistoryInv
    <3> QED BY <3>1, <3>2
  <2>6. runs'[Len(runs')].ran = ag' /\ ag'.name \in Agents
    BY <1>7, <2>1 DEF HistoryInv
  <2> QED BY <1>0, <1>7, <2>1, <2>5, <2>6 DEF HistoryInv
<1>8. Active => result \in [steps : Nat, calls : Nat, finished : BOOLEAN]
  <2> SUFFICES ASSUME Active PROVE result \in [steps : Nat, calls : Nat, finished : BOOLEAN]
    OBVIOUS
  <2>1. Len(runs) # 0 /\ runs[Len(runs)].result = result
    BY DEF HistoryInv
  <2>2. Len(runs) \in 1..Len(runs)
    BY <1>0, <2>1
  <2> QED BY <2>1, <2>2 DEF HistoryInv, IsCounted
<1>9. ASSUME NEW turn \in Turns, NEW compacted \in BOOLEAN, Turn(turn, compacted)
      PROVE  HistoryInv'
  <2>1. /\ LastGoesOn("running", IF compacted THEN 1 ELSE 0)
        /\ runs'[Len(runs)].result = result'
    BY <1>9, TurnRuns
  <2>2. Active /\ Active' /\ UNCHANGED ag
    BY <1>9 DEF Turn, Active
  <2>3. result' = [steps |-> result.steps + 1, calls |-> result.calls + Results(turn),
                   finished |-> turn = <<>>]
    BY <1>9 DEF Turn
  <2>4. result' \in [steps : Nat, calls : Nat, finished : BOOLEAN]
    BY <1>8, <2>2, <2>3, ResultsCounted
  <2>5. (IF compacted THEN 1 ELSE 0) \in Nat
    OBVIOUS
  <2> QED BY <1>7, <2>1, <2>2, <2>4, <2>5
<1>10. ASSUME NEW compacted \in BOOLEAN, Fails(compacted) PROVE HistoryInv'
  <2>1. /\ LastGoesOn("failed", IF compacted THEN 1 ELSE 0)
        /\ runs'[Len(runs)].result = result
    BY <1>10, FailRuns
  <2>2. Active /\ ~Active' /\ UNCHANGED <<ag, result>>
    BY <1>10 DEF Fails, Active
  <2>3. (IF compacted THEN 1 ELSE 0) \in Nat
    OBVIOUS
  <2> QED BY <1>7, <1>8, <2>1, <2>2, <2>3
<1>11. CASE Conclude
  <2>1. LastGoesOn("ended", 0) /\ runs'[Len(runs)].result = result
    BY <1>11, ConcludeRuns
  <2>2. Active /\ ~Active' /\ UNCHANGED <<ag, result>>
    BY <1>11 DEF Conclude, Active
  <2> QED BY <1>7, <1>8, <2>1, <2>2
<1> QED
  BY <1>2, <1>3, <1>4, <1>5, <1>6, <1>9, <1>10, <1>11 DEF Next

-----------------------------------------------------------------------------
(* The statistics.                                                          *)

IsProfile(p) ==
    p = [avgSteps |-> p.avgSteps, successRate |-> p.successRate, total |-> p.total,
         usage |-> p.usage, failures |-> p.failures]

IsEngine(e) ==
    /\ e = [sessions |-> e.sessions, profiles |-> e.profiles]
    /\ \A a \in DOMAIN e.profiles : IsProfile(e.profiles[a])

\* What is kept of n failures.
LastFailures(n) ==
    LET kept == IF n > 11 THEN 11 ELSE n IN [i \in 1..kept |-> n - kept + i]

\* The records and the means are those they were.
SameRecords(e, f) ==
    /\ f.sessions = e.sessions
    /\ \A b : /\ Profile(f, b).avgSteps = Profile(e, b).avgSteps
              /\ Profile(f, b).successRate = Profile(e, b).successRate

LEMMA ProfileKnown ==
    ASSUME NEW e, IsEngine(e), NEW a
    PROVE  IsProfile(Profile(e, a))
<1>1. CASE a \in DOMAIN e.profiles
  BY <1>1 DEF IsEngine, Profile
<1>2. CASE a \notin DOMAIN e.profiles
  <2>1. Profile(e, a) = NewProfile
    BY <1>2 DEF Profile
  <2>2. IsProfile(NewProfile)
    BY DEF IsProfile, NewProfile
  <2> QED BY <2>1, <2>2
<1> QED
  BY <1>1, <1>2

LEMMA ProfileReplaced ==
    ASSUME NEW e, IsEngine(e), NEW a, NEW p, IsProfile(p)
    PROVE  LET f == WithProfile(e, a, p)
           IN  /\ IsEngine(f) /\ f.sessions = e.sessions
               /\ \A b : Profile(f, b) = IF b = a THEN p ELSE Profile(e, b)
<1> DEFINE f == WithProfile(e, a, p)
           q == Put(e.profiles, a, p)
<1>1. f = [e EXCEPT !.profiles = q]
  BY DEF WithProfile
<1>2. e = [sessions |-> e.sessions, profiles |-> e.profiles]
  BY DEF IsEngine
<1>3. /\ DOMAIN q = (DOMAIN e.profiles) \cup {a}
      /\ \A b \in DOMAIN q : q[b] = IF b = a THEN p ELSE e.profiles[b]
  BY DEF Put
<1> HIDE DEF q, f
<1>4. f = [sessions |-> e.sessions, profiles |-> q]
  BY <1>1, <1>2
<1>5. f.sessions = e.sessions /\ f.profiles = q
  BY <1>4
<1>6. IsEngine(f)
  BY <1>3, <1>4, <1>5 DEF IsEngine
<1>7. ASSUME NEW b PROVE Profile(f, b) = IF b = a THEN p ELSE Profile(e, b)
  BY <1>3, <1>5 DEF Profile
<1> QED
  BY <1>5, <1>6, <1>7 DEF f

LEMMA UsageRecorded ==
    ASSUME NEW e, IsEngine(e), NEW a, NEW tool
    PROVE  LET f == RecordToolUsage(e, a, tool)
           IN  /\ IsEngine(f) /\ SameRecords(e, f)
               /\ \A b : Profile(f, b).failures = Profile(e, b).failures
<1> DEFINE p == Profile(e, a)
           q == IF tool = <<"total_calls">> THEN [p EXCEPT !.total = @ + 1]
                                            ELSE [p EXCEPT !.usage = @ + 1]
           f == RecordToolUsage(e, a, tool)
<1>1. f = WithProfile(e, a, q)
  BY DEF RecordToolUsage
<1>2. IsProfile(p)
  BY ProfileKnown
<1>3. /\ IsProfile(q) /\ q.avgSteps = p.avgSteps /\ q.successRate = p.successRate
      /\ q.failures = p.failures
  <2> HIDE DEF p
  <2>1. CASE tool = <<"total_calls">>
    <3>1. q = [p EXCEPT !.total = @ + 1]
      BY <2>1
    <3> HIDE DEF q
    <3>2. q = [avgSteps |-> p.avgSteps, successRate |-> p.successRate, total |-> p.total + 1,
               usage |-> p.usage, failures |-> p.failures]
      BY <1>2, <3>1 DEF IsProfile
    <3> QED BY <3>2 DEF IsProfile
  <2>2. CASE tool # <<"total_calls">>
    <3>1. q = [p EXCEPT !.usage = @ + 1]
      BY <2>2
    <3> HIDE DEF q
    <3>2. q = [avgSteps |-> p.avgSteps, successRate |-> p.successRate, total |-> p.total,
               usage |-> p.usage + 1, failures |-> p.failures]
      BY <1>2, <3>1 DEF IsProfile
    <3> QED BY <3>2 DEF IsProfile
  <2> QED BY <2>1, <2>2
<1> HIDE DEF q
<1>4. /\ IsEngine(f) /\ f.sessions = e.sessions
      /\ \A b : Profile(f, b) = IF b = a THEN q ELSE Profile(e, b)
  BY <1>1, <1>3, ProfileReplaced
<1> HIDE DEF f
<1>5. SameRecords(e, f) /\ \A b : Profile(f, b).failures = Profile(e, b).failures
  BY <1>3, <1>4 DEF SameRecords
<1> QED
  BY <1>4, <1>5 DEF f

LEMMA ErrorRecorded ==
    ASSUME NEW e, IsEngine(e), NEW a, NEW x
    PROVE  LET f == RecordErrorPattern(e, a, x)
               kept == Profile(e, a).failures
           IN  /\ IsEngine(f) /\ SameRecords(e, f)
               /\ \A b : Profile(f, b).failures =
                    IF b = a THEN Append(IF Len(kept) > 10 THEN Tail(kept) ELSE kept, x)
                             ELSE Profile(e, b).failures
<1> DEFINE p == Profile(e, a)
           more == Append(IF Len(p.failures) > 10 THEN Tail(p.failures) ELSE p.failures, x)
           q == [p EXCEPT !.failures = more]
           f == RecordErrorPattern(e, a, x)
<1>1. f = WithProfile(e, a, q)
  BY DEF RecordErrorPattern
<1>2. IsProfile(p)
  BY ProfileKnown
<1> HIDE DEF p, more
<1>3. q = [avgSteps |-> p.avgSteps, successRate |-> p.successRate, total |-> p.total,
           usage |-> p.usage, failures |-> more]
  BY <1>2 DEF IsProfile
<1>4. /\ IsProfile(q) /\ q.avgSteps = p.avgSteps /\ q.successRate = p.successRate
      /\ q.failures = more
  BY <1>3 DEF IsProfile
<1> HIDE DEF q
<1>5. /\ IsEngine(f) /\ f.sessions = e.sessions
      /\ \A b : Profile(f, b) = IF b = a THEN q ELSE Profile(e, b)
  BY <1>1, <1>4, ProfileReplaced
<1> HIDE DEF f
<1>6. SameRecords(e, f)
  BY <1>4, <1>5 DEF SameRecords, p
<1>7. \A b : Profile(f, b).failures = IF b = a THEN more ELSE Profile(e, b).failures
  BY <1>4, <1>5
<1> QED
  BY <1>5, <1>6, <1>7 DEF f, more, p

\* One failure more: the list is cut before it is appended to.
LEMMA LastFailuresStep ==
    ASSUME NEW n \in Nat
    PROVE  LET kept == LastFailures(n)
           IN  Append(IF Len(kept) > 10 THEN Tail(kept) ELSE kept, n + 1) = LastFailures(n + 1)
<1> DEFINE kept == LastFailures(n)
           size == IF n > 11 THEN 11 ELSE n
           short == IF Len(kept) > 10 THEN Tail(kept) ELSE kept
           size2 == IF n > 10 THEN 10 ELSE n
<1>1. /\ size \in Nat /\ size2 \in Nat /\ kept = [i \in 1..size |-> n - size + i]
      /\ n > 10 => size = 11 /\ size2 = 10
      /\ ~(n > 10) => size = n /\ size2 = n
  <2>1. kept = [i \in 1..size |-> n - size + i]
    BY DEF LastFailures
  <2> HIDE DEF kept
  <2>2. CASE n > 11
    BY <2>1, <2>2
  <2>3. CASE n = 11
    BY <2>1, <2>3
  <2>4. CASE n < 11
    BY <2>1, <2>4
  <2> QED BY <2>2, <2>3, <2>4
<1> HIDE DEF kept, size, size2
<1>2. kept \in Seq(Int) /\ Len(kept) = size
  <2>1. kept \in [1..size -> Int]
    BY <1>1
  <2>2. kept \in Seq(Int) /\ Len(kept) \in Nat /\ DOMAIN kept = 1..Len(kept)
    BY <1>1, <2>1, LenProperties
  <2>3. DOMAIN kept = 1..size
    BY <1>1
  <2> QED BY <1>1, <2>2, <2>3
<1>3. short \in Seq(Int) /\ Len(short) = size2 /\ \A i \in 1..size2 : short[i] = n - size2 + i
  <2>1. CASE n > 10
    <3>1. size = 11 /\ size2 = 10 /\ Len(kept) = 11 /\ kept # <<>>
      <4>1. size = 11 /\ size2 = 10 /\ Len(kept) = 11
        BY <1>1, <1>2, <2>1
      <4>2. kept # <<>>
        <5>1. Len(<<>>) = 0
          BY EmptySeq
        <5> QED BY <4>1, <5>1
      <4> QED BY <4>1, <4>2
    <3>2. short = Tail(kept)
      BY <3>1
    <3> HIDE DEF short
    <3>3. /\ short \in Seq(Int) /\ Len(short) = Len(kept) - 1
          /\ \A i \in 1..Len(short) : short[i] = kept[i + 1]
      BY <1>2, <3>1, <3>2, HeadTailProperties
    <3>4. ASSUME NEW i \in 1..10 PROVE short[i] = n - 10 + i
      <4>1. short[i] = kept[i + 1] /\ i + 1 \in 1..size
        BY <3>1, <3>3
      <4>2. kept[i + 1] = n - size + (i + 1)
        BY <1>1, <4>1
      <4> QED BY <3>1, <4>1, <4>2
    <3> QED BY <3>1, <3>3, <3>4
  <2>2. CASE ~(n > 10)
    BY <1>1, <1>2, <2>2
  <2> QED BY <2>1, <2>2
<1> HIDE DEF short
<1>4. /\ Append(short, n + 1) \in Seq(Int) /\ Len(Append(short, n + 1)) = size2 + 1
      /\ \A i \in 1..size2 : Append(short, n + 1)[i] = n - size2 + i
      /\ Append(short, n + 1)[size2 + 1] = n + 1
  <2>1. size2 \in Nat /\ n + 1 \in Int
    BY <1>1
  <2> DEFINE longer == Append(short, n + 1)
  <2>2. /\ longer \in Seq(Int) /\ Len(longer) = Len(short) + 1
        /\ \A i \in 1..Len(short) : longer[i] = short[i]
        /\ longer[Len(short) + 1] = n + 1
    BY <1>3, <2>1, AppendProperties
  <2> HIDE DEF longer
  <2>3. /\ longer \in Seq(Int) /\ Len(longer) = size2 + 1
        /\ \A i \in 1..size2 : longer[i] = n - size2 + i
        /\ longer[size2 + 1] = n + 1
    BY <1>3, <2>2
  <2> QED BY <2>3 DEF longer
<1> DEFINE next == LastFailures(n + 1)
<1>5. next = [i \in 1..size2 + 1 |-> n - size2 + i]
  <2>1. CASE n > 10
    <3>1. size2 = 10
      BY <1>1, <2>1
    <3>2. n + 1 > 11
      BY <2>1
    <3>3. next = [i \in 1..11 |-> n + 1 - 11 + i]
      BY <3>2 DEF LastFailures
    <3> HIDE DEF next
    <3> QED BY <3>1, <3>3
  <2>2. CASE ~(n > 10)
    <3>1. size2 = n
      BY <1>1, <2>2
    <3>2. ~(n + 1 > 11)
      BY <2>2
    <3>3. next = [i \in 1..n + 1 |-> n + 1 - (n + 1) + i]
      BY <3>2 DEF LastFailures
    <3> HIDE DEF next
    <3> QED BY <3>1, <3>3
  <2> QED BY <2>1, <2>2
<1> HIDE DEF next
<1>6. next \in Seq(Int) /\ Len(next) = size2 + 1
  <2>1. next \in [1..size2 + 1 -> Int] /\ size2 + 1 \in Nat
    BY <1>1, <1>5
  <2>2. next \in Seq(Int) /\ Len(next) \in Nat /\ DOMAIN next = 1..Len(next)
    BY <2>1, LenProperties
  <2>3. DOMAIN next = 1..size2 + 1
    BY <1>5
  <2> QED BY <2>1, <2>2, <2>3
<1>7. ASSUME NEW i \in 1..size2 + 1 PROVE Append(short, n + 1)[i] = next[i]
  <2>1. next[i] = n - size2 + i
    BY <1>5
  <2>2. CASE i = size2 + 1
    BY <1>1, <1>4, <2>1, <2>2
  <2>3. CASE i # size2 + 1
    <3>1. i \in 1..size2
      BY <1>1, <2>3
    <3> QED BY <1>4, <2>1, <3>1
  <2> QED BY <2>2, <2>3
<1>8. Append(short, n + 1) = next
  BY <1>4, <1>6, <1>7, SeqEqual
<1> QED
  BY <1>8 DEF next, short, kept

\* Up to a call there are as many failures as before it, or one more.
LEMMA FailuresCounted ==
    ASSUME NEW turn
    PROVE  /\ Failures(turn, 0) = 0
           /\ \A n \in Nat : /\ Failures(turn, n) \in Nat
                             /\ Failures(turn, n + 1) = IF Failed(turn[n + 1]) THEN Failures(turn, n) + 1
                                                                               ELSE Failures(turn, n)
<1> DEFINE S == {k \in Nat : Failed(turn[k])}
<1>1. \A n \in Nat : {k \in 1..n : Failed(turn[k])} = (1..n) \cap S
  OBVIOUS
<1>2. \A n \in Nat : n + 1 \in S <=> Failed(turn[n + 1])
  OBVIOUS
<1>3. \A n \in Nat : Failures(turn, n) = Cardinality((1..n) \cap S)
  BY <1>1 DEF Failures
<1> HIDE DEF S
<1>4. Failures(turn, 0) = 0
  BY <1>3, CountNone
<1>5. ASSUME NEW n \in Nat
      PROVE  /\ Failures(turn, n) \in Nat
             /\ Failures(turn, n + 1) = IF Failed(turn[n + 1]) THEN Failures(turn, n) + 1
                                                               ELSE Failures(turn, n)
  <2>1. n + 1 \in Nat
    OBVIOUS
  <2>2. /\ Failures(turn, n) = Cardinality((1..n) \cap S)
        /\ Failures(turn, n + 1) = Cardinality((1..n + 1) \cap S)
    BY <1>3, <2>1
  <2> QED BY <1>2, <2>2, CountUpTo
<1> QED
  BY <1>4, <1>5

\* What the engine has of every agent after the failures known of, one agent's
\* being so and so many.
EngineAfter(e, count) ==
    /\ IsEngine(e) /\ SameRecords(engine, e)
    /\ \A b : Profile(e, b).failures =
         IF b = ag.name THEN LastFailures(count) ELSE Profile(engine, b).failures

LEMMA SameRecordsTwice ==
    ASSUME NEW d, NEW e, NEW f, SameRecords(d, e), SameRecords(e, f)
    PROVE  SameRecords(d, f)
  BY DEF SameRecords

LEMMA OneTold ==
    ASSUME NEW e, NEW count \in Nat, EngineAfter(e, count), NEW call
    PROVE  EngineAfter(Tell(e, call, count + 1), count + 1) \/ ~Failed(call)
<1> SUFFICES ASSUME Failed(call) PROVE EngineAfter(Tell(e, call, count + 1), count + 1)
  OBVIOUS
<1> DEFINE used == RecordToolUsage(e, ag.name, call.name)
           f == RecordErrorPattern(used, ag.name, count + 1)
<1>1. Tell(e, call, count + 1) = f
  BY DEF Tell
<1>2. /\ IsEngine(used) /\ SameRecords(e, used)
      /\ \A b : Profile(used, b).failures = Profile(e, b).failures
  BY UsageRecorded DEF EngineAfter
<1>3. Profile(used, ag.name).failures = LastFailures(count)
  BY <1>2 DEF EngineAfter
<1> HIDE DEF used
<1>4. /\ IsEngine(f) /\ SameRecords(used, f)
      /\ \A b : Profile(f, b).failures =
           IF b = ag.name
           THEN Append(IF Len(LastFailures(count)) > 10 THEN Tail(LastFailures(count))
                                                        ELSE LastFailures(count), count + 1)
           ELSE Profile(used, b).failures
  BY <1>2, <1>3, ErrorRecorded
<1> HIDE DEF f
<1>5. \A b : Profile(f, b).failures = IF b = ag.name THEN LastFailures(count + 1)
                                                     ELSE Profile(used, b).failures
  BY <1>4, LastFailuresStep
<1>6. SameRecords(engine, f)
  BY <1>2, <1>4, SameRecordsTwice DEF EngineAfter
<1>7. \A b : b # ag.name => Profile(f, b).failures = Profile(engine, b).failures
  BY <1>2, <1>5 DEF EngineAfter
<1>8. EngineAfter(f, count + 1)
  BY <1>4, <1>5, <1>6, <1>7 DEF EngineAfter
<1> QED
  BY <1>1, <1>8

LEMMA NoneTold ==
    ASSUME NEW e, NEW count \in Nat, EngineAfter(e, count), NEW call, NEW number, ~Failed(call)
    PROVE  EngineAfter(Tell(e, call, number), count)
<1> DEFINE used == RecordToolUsage(e, ag.name, call.name)
<1>1. Tell(e, call, number) = used
  BY DEF Tell
<1>2. /\ IsEngine(used) /\ SameRecords(e, used)
      /\ \A b : Profile(used, b).failures = Profile(e, b).failures
  BY UsageRecorded DEF EngineAfter
<1> HIDE DEF used
<1>3. SameRecords(engine, used)
  BY <1>2, SameRecordsTwice DEF EngineAfter
<1>4. EngineAfter(used, count)
  BY <1>2, <1>3 DEF EngineAfter
<1> QED
  BY <1>1, <1>4

\* The statistics after a reply's calls: the records and means they had, and
\* the last of the failures, those of the reply among them.
LEMMA AllTold ==
    ASSUME NEW turn \in Turns, errors[ag.name] \in Nat, EngineAfter(engine, errors[ag.name])
    PROVE  EngineAfter(ToldAll(turn), errors[ag.name] + Failures(turn, Len(turn)))
<1> DEFINE N == Len(turn)
           before == errors[ag.name]
           number(k) == before + Failures(turn, k)
           IsTold(g, n) == g = [k \in 0..n |-> IF k = 0 THEN engine ELSE Tell(g[k - 1], turn[k], number(k))]
           told == CHOOSE g : IsTold(g, N)
<1>0. N \in Nat
  BY TurnLength
<1>1. \E g : IsTold(g, N)
  <2> DEFINE Good == {n \in 0..N : \E g : IsTold(g, n)}
  <2>1. 0 \in Good
    <3> DEFINE g == [k \in 0..0 |-> engine]
    <3>1. \A k \in 0..0 : k = 0 /\ g[k] = engine
      OBVIOUS
    <3> HIDE DEF number
    <3>2. IsTold(g, 0)
      BY <3>1
    <3> HIDE DEF g
    <3> QED BY <1>0, <3>2
  <2>2. ASSUME NEW n \in 1..N, n - 1 \in Good PROVE n \in Good
    <3>1. PICK g : IsTold(g, n - 1)
      BY <2>2
    <3> DEFINE h == [k \in 0..n |-> IF k = n THEN Tell(g[n - 1], turn[n], number(n)) ELSE g[k]]
    <3>2. \A k \in 0..n - 1 : g[k] = IF k = 0 THEN engine ELSE Tell(g[k - 1], turn[k], number(k))
      BY <3>1
    <3> HIDE DEF number
    <3>3. ASSUME NEW k \in 0..n
          PROVE  h[k] = IF k = 0 THEN engine ELSE Tell(h[k - 1], turn[k], number(k))
      <4>1. CASE k = n
        <5>1. h[k] = Tell(g[n - 1], turn[n], number(n)) /\ h[n - 1] = g[n - 1] /\ k # 0
          BY <1>0, <4>1
        <5> HIDE DEF h
        <5> QED BY <4>1, <5>1
      <4>2. CASE k # n
        <5>1. k \in 0..n - 1 /\ h[k] = g[k] /\ (k # 0 => h[k - 1] = g[k - 1])
          BY <1>0, <4>2
        <5> HIDE DEF h
        <5>2. CASE k = 0
          BY <3>2, <5>1, <5>2
        <5>3. CASE k # 0
          BY <3>2, <5>1, <5>3
        <5> QED BY <5>2, <5>3
      <4> QED BY <4>1, <4>2
    <3>4. IsTold(h, n)
      BY <3>3 DEF number
    <3> HIDE DEF h
    <3> QED BY <3>4
  <2> HIDE DEF Good
  <2>3. \A n \in 0..N : n \in Good
    BY <1>0, <2>1, <2>2, UpTo
  <2> QED BY <1>0, <2>3 DEF Good
<1>2. IsTold(told, N)
  BY <1>1
<1>3. ToldAll(turn) = told[N]
  BY DEF ToldAll
<1> HIDE DEF told
<1>4. \A k \in 0..N : told[k] = IF k = 0 THEN engine ELSE Tell(told[k - 1], turn[k], number(k))
  BY <1>2
<1> DEFINE Fine == {k \in 0..N : EngineAfter(told[k], number(k))}
<1>5. 0 \in Fine
  <2>1. told[0] = engine
    BY <1>0, <1>4
  <2>2. number(0) = before
    BY FailuresCounted
  <2> QED BY <1>0, <2>1, <2>2
<1>6. ASSUME NEW k \in 1..N, k - 1 \in Fine PROVE k \in Fine
  <2> DEFINE e == told[k - 1]
             c == number(k - 1)
  <2>1. told[k] = Tell(e, turn[k], number(k)) /\ EngineAfter(e, c)
    BY <1>0, <1>4, <1>6
  <2>2. k - 1 \in Nat /\ (k - 1) + 1 = k
    BY <1>0
  <2>3. /\ c \in Nat
        /\ number(k) = IF Failed(turn[k]) THEN c + 1 ELSE c
    <3>1. /\ Failures(turn, k - 1) \in Nat
          /\ Failures(turn, k) = IF Failed(turn[k]) THEN Failures(turn, k - 1) + 1
                                                    ELSE Failures(turn, k - 1)
      BY <2>2, FailuresCounted
    <3> QED BY <3>1
  <2> HIDE DEF e, c, number
  <2>4. CASE Failed(turn[k])
    BY <2>1, <2>3, <2>4, OneTold
  <2>5. CASE ~Failed(turn[k])
    BY <2>1, <2>3, <2>5, NoneTold
  <2>6. EngineAfter(told[k], number(k))
    BY <2>4, <2>5
  <2> QED BY <1>0, <2>6
<1> HIDE DEF Fine
<1>7. \A k \in 0..N : k \in Fine
  BY <1>0, <1>5, <1>6, UpTo
<1>8. EngineAfter(told[N], number(N))
  BY <1>0, <1>7 DEF Fine
<1> QED
  BY <1>3, <1>8

LEMMA SessionRecorded ==
    ASSUME NEW e, IsEngine(e), NEW s
    PROVE  LET f == RecordSession(e, s)
               p == Profile(e, s.agent)
               n == Cardinality({k \in DOMAIN f.sessions : f.sessions[k].agent = s.agent})
           IN  /\ IsEngine(f) /\ f.sessions = Append(e.sessions, s)
               /\ \A b : b # s.agent => Profile(f, b) = Profile(e, b)
               /\ Profile(f, s.agent).failures = p.failures
               /\ Profile(f, s.agent).avgSteps = MeanWith(p.avgSteps, n, s.steps)
               /\ Profile(f, s.agent).successRate =
                    MeanWith(p.successRate, n, IF s.success THEN 1 ELSE 0)
<1> DEFINE recorded == [e EXCEPT !.sessions = Append(@, s)]
           longer == Append(e.sessions, s)
           n == Cardinality(sessionsByAgent(recorded, s.agent))
           p == Profile(e, s.agent)
           steps == MeanWith(p.avgSteps, n, s.steps)
           rate == MeanWith(p.successRate, n, IF s.success THEN 1 ELSE 0)
           q == [[[p EXCEPT !.avgSteps = steps] EXCEPT !.total = @ + s.calls]
                    EXCEPT !.successRate = rate]
           f == RecordSession(e, s)
<1>0. e = [sessions |-> e.sessions, profiles |-> e.profiles]
  BY DEF IsEngine
<1>1. recorded = [sessions |-> longer, profiles |-> e.profiles]
  <2>1. recorded = [e EXCEPT !.sessions = longer]
    BY Zenon
  <2> HIDE DEF recorded, longer
  <2> QED BY <1>0, <2>1
<1>2. f = WithProfile(recorded, s.agent, q)
  BY Zenon DEF RecordSession
<1> HIDE DEF f, recorded
<1>3. IsProfile(p)
  BY ProfileKnown
<1> HIDE DEF p, steps, rate, n
<1>4. /\ IsProfile(q) /\ q.failures = p.failures /\ q.avgSteps = steps /\ q.successRate = rate
  <2> DEFINE q1 == [p EXCEPT !.avgSteps = steps]
             q2 == [q1 EXCEPT !.total = @ + s.calls]
             q3 == [q2 EXCEPT !.successRate = rate]
  <2>0. q = q3
    BY Zenon
  <2>1. q1 = [avgSteps |-> steps, successRate |-> p.successRate, total |-> p.total,
              usage |-> p.usage, failures |-> p.failures]
    BY <1>3 DEF IsProfile
  <2> HIDE DEF q1
  <2>2. q2 = [avgSteps |-> steps, successRate |-> p.successRate, total |-> q1.total + s.calls,
              usage |-> p.usage, failures |-> p.failures]
    BY <2>1
  <2> HIDE DEF q2
  <2>3. q3 = [avgSteps |-> steps, successRate |-> rate, total |-> q2.total,
              usage |-> p.usage, failures |-> p.failures]
    BY <2>2
  <2> HIDE DEF q3, q
  <2> QED BY <2>0, <2>3 DEF IsProfile
<1> HIDE DEF q
<1>5. recorded.sessions = longer /\ recorded.profiles = e.profiles /\ IsEngine(recorded)
  BY <1>1 DEF IsEngine
<1>6. /\ IsEngine(f) /\ f.sessions = recorded.sessions
      /\ \A b : Profile(f, b) = IF b = s.agent THEN q ELSE Profile(recorded, b)
  BY <1>2, <1>4, <1>5, ProfileReplaced
<1>7. n = Cardinality({k \in DOMAIN f.sessions : f.sessions[k].agent = s.agent})
  BY <1>6 DEF n, sessionsByAgent
<1>8. \A b : Profile(recorded, b) = Profile(e, b)
  BY <1>5 DEF Profile
<1> HIDE DEF longer
<1>9. /\ IsEngine(f) /\ f.sessions = longer
      /\ \A b : b # s.agent => Profile(f, b) = Profile(e, b)
      /\ Profile(f, s.agent).failures = p.failures
      /\ Profile(f, s.agent).avgSteps = steps
      /\ Profile(f, s.agent).successRate = rate
  BY <1>4, <1>5, <1>6, <1>8
<1> QED
  BY <1>7, <1>9 DEF f, longer, p, steps, rate

\* The failures of every agent.
FailuresInv ==
    /\ IsEngine(engine)
    /\ errors \in [Agents -> Nat]
    /\ \A a \in Agents : Profile(engine, a).failures = LastFailures(errors[a])

LEMMA EngineBefore ==
    ASSUME FailuresInv, ag.name \in Agents
    PROVE  errors[ag.name] \in Nat /\ EngineAfter(engine, errors[ag.name])
<1>1. SameRecords(engine, engine)
  BY DEF SameRecords
<1> QED
  BY <1>1 DEF FailuresInv, EngineAfter

\* What a turn tells the statistics.
LEMMA TurnTold ==
    ASSUME FailuresInv, HistoryInv, NEW turn \in Turns, NEW compacted \in BOOLEAN,
           Turn(turn, compacted)
    PROVE  /\ ag.name \in Agents
           /\ Failures(turn, Len(turn)) \in Nat
           /\ EngineAfter(engine', errors[ag.name] + Failures(turn, Len(turn)))
           /\ errors' = [errors EXCEPT ![ag.name] = @ + Failures(turn, Len(turn))]
<1>1. Active /\ ag.name \in Agents
  BY DEF Turn, Active, HistoryInv
<1>2. Len(turn) \in Nat
  BY TurnLength
<1>3. engine' = ToldAll(turn) /\ errors' = [errors EXCEPT ![ag.name] = @ + Failures(turn, Len(turn))]
  BY DEF Turn, TakeUpCalls
<1>4. EngineAfter(engine', errors[ag.name] + Failures(turn, Len(turn)))
  BY <1>1, <1>3, EngineBefore, AllTold
<1> QED
  BY <1>1, <1>2, <1>3, <1>4, FailuresCounted

LEMMA FailTold ==
    ASSUME FailuresInv, HistoryInv, NEW compacted \in BOOLEAN, Fails(compacted)
    PROVE  /\ ag.name \in Agents
           /\ \/ /\ EngineAfter(engine', errors[ag.name] + 1)
                 /\ errors' = [errors EXCEPT ![ag.name] = @ + 1]
              \/ UNCHANGED <<engine, errors>>
<1>1. Active /\ ag.name \in Agents
  BY DEF Fails, Active, HistoryInv
<1> DEFINE count == errors[ag.name]
<1>2. count \in Nat /\ EngineAfter(engine, count)
  BY <1>1, EngineBefore
<1>3. SUFFICES ASSUME engine' = RecordErrorPattern(engine, ag.name, count + 1),
                      errors' = [errors EXCEPT ![ag.name] = @ + 1]
               PROVE  EngineAfter(engine', count + 1)
  BY <1>1 DEF Fails
<1> DEFINE f == RecordErrorPattern(engine, ag.name, count + 1)
<1> HIDE DEF count
<1>4. Profile(engine, ag.name).failures = LastFailures(count)
  BY <1>2 DEF EngineAfter
<1>5. /\ IsEngine(f) /\ SameRecords(engine, f)
      /\ \A b : Profile(f, b).failures =
           IF b = ag.name
           THEN Append(IF Len(LastFailures(count)) > 10 THEN Tail(LastFailures(count))
                                                        ELSE LastFailures(count), count + 1)
           ELSE Profile(engine, b).failures
  BY <1>2, <1>4, ErrorRecorded DEF EngineAfter
<1> HIDE DEF f
<1>6. \A b : Profile(f, b).failures = IF b = ag.name THEN LastFailures(count + 1)
                                                     ELSE Profile(engine, b).failures
  BY <1>2, <1>5, LastFailuresStep
<1>7. EngineAfter(f, count + 1)
  BY <1>5, <1>6 DEF EngineAfter
<1> QED
  BY <1>3, <1>7 DEF f

LEMMA InitFailures == Init => FailuresInv
<1> SUFFICES ASSUME Init PROVE FailuresInv
  OBVIOUS
<1>1. engine = [sessions |-> <<>>, profiles |-> <<>>] /\ errors = [a \in Agents |-> 0]
  BY DEF Init, NewEngine
<1>2. engine.profiles = <<>> /\ engine.sessions = <<>>
  BY <1>1
<1>3. DOMAIN <<>> = {}
  OBVIOUS
<1>4. IsEngine(engine)
  BY <1>1, <1>2, <1>3 DEF IsEngine
<1>5. LastFailures(0) = <<>>
  <2>1. LastFailures(0) = [i \in 1..0 |-> 0 - 0 + i]
    BY DEF LastFailures
  <2>2. [i \in 1..0 |-> 0 - 0 + i] = <<>>
    OBVIOUS
  <2> QED BY <2>1, <2>2
<1>6. ASSUME NEW a \in Agents PROVE Profile(engine, a).failures = LastFailures(errors[a])
  <2>1. Profile(engine, a) = NewProfile
    BY <1>2, <1>3 DEF Profile
  <2>2. NewProfile.failures = <<>>
    BY DEF NewProfile
  <2>3. errors[a] = 0
    BY <1>1
  <2> QED BY <1>5, <2>1, <2>2, <2>3
<1> QED
  BY <1>1, <1>4, <1>6 DEF FailuresInv

LEMMA NextFailures == HistoryInv /\ FailuresInv /\ [Next]_vars => FailuresInv'
<1> SUFFICES ASSUME HistoryInv, FailuresInv, [Next]_vars PROVE FailuresInv'
  OBVIOUS
<1>1. ASSUME UNCHANGED <<engine, errors>> PROVE FailuresInv'
  BY <1>1 DEF FailuresInv
<1>2. ASSUME ag.name \in Agents, NEW more \in Nat, EngineAfter(engine', errors[ag.name] + more),
             errors' = [errors EXCEPT ![ag.name] = @ + more]
      PROVE  FailuresInv'
  <2>1. errors \in [Agents -> Nat]
    BY DEF FailuresInv
  <2>2. errors' \in [Agents -> Nat]
    BY <1>2, <2>1
  <2>3. ASSUME NEW a \in Agents PROVE Profile(engine', a).failures = LastFailures(errors'[a])
    <3>1. errors'[a] = IF a = ag.name THEN errors[ag.name] + more ELSE errors[a]
      BY <1>2, <2>1
    <3>2. Profile(engine', a).failures =
            IF a = ag.name THEN LastFailures(errors[ag.name] + more) ELSE Profile(engine, a).failures
      BY <1>2 DEF EngineAfter
    <3> QED BY <3>1, <3>2 DEF FailuresInv
  <2> QED BY <1>2, <2>2, <2>3 DEF FailuresInv, EngineAfter
<1>3. ASSUME NEW turn \in Turns, NEW compacted \in BOOLEAN, Turn(turn, compacted)
      PROVE  FailuresInv'
  BY <1>2, <1>3, TurnTold
<1>4. ASSUME NEW compacted \in BOOLEAN, Fails(compacted)
      PROVE  FailuresInv'
  BY <1>1, <1>2, <1>4, FailTold
<1>5. CASE Conclude
  <2> DEFINE s == Record(ag.name, ag.session, result.steps, result.calls, result.finished)
  <2>1. engine' = RecordSession(engine, s) /\ UNCHANGED errors
    BY <1>5 DEF Conclude
  <2> HIDE DEF s
  <2>2. /\ IsEngine(engine')
        /\ \A b : b # s.agent => Profile(engine', b) = Profile(engine, b)
        /\ Profile(engine', s.agent).failures = Profile(engine, s.agent).failures
    BY <2>1, SessionRecorded DEF FailuresInv
  <2>3. \A a \in Agents : Profile(engine', a).failures = LastFailures(errors[a])
    BY <2>2 DEF FailuresInv
  <2> QED BY <2>1, <2>2, <2>3 DEF FailuresInv
<1> QED
  BY <1>1, <1>3, <1>4, <1>5 DEF Next, SwitchModel, RunPipeline, BeginStep, EndPipeline, vars

\* The common failures of an agent are its last eleven, in their order, for any
\* number of them in any turns of any agents.
THEOREM FailuresAlwaysKept == Spec => []LastFailuresKept
<1>1. FailuresInv => LastFailuresKept
  BY DEF FailuresInv, LastFailuresKept, LastFailures
<1>2. Init => HistoryInv /\ FailuresInv
  BY InitHistory, InitFailures
<1>3. HistoryInv /\ FailuresInv /\ [Next]_vars => HistoryInv' /\ FailuresInv'
  BY NextHistory, NextFailures
<1> QED
  BY <1>1, <1>2, <1>3, PTL DEF Spec

-----------------------------------------------------------------------------
(* Sessions, summaries and records.                                         *)

LEMMA InRuns ==
    ASSUME RunsInv
    PROVE  Len(runs) \in Nat /\ \A i \in 1..Len(runs) : runs[i] \in Range(runs)
  BY LenProperties DEF RunsInv, Range

LEMMA EndedMore ==
    ASSUME NEW r, OneMore(r), r.end # "ended"
    PROVE  Ended' = Ended
<1> DEFINE S == {x \in Range(runs) : x.end = "ended"}
           R == {x \in Range(runs') : x.end = "ended"}
           n == Len(runs)
<1>1. PICK T : runs \in Seq(T) /\ runs' \in Seq(T)
  BY DEF OneMore
<1>2. n \in Nat /\ Len(runs') = n + 1 /\ DOMAIN runs = 1..n /\ DOMAIN runs' = 1..n + 1
  BY <1>1, LenProperties DEF OneMore
<1>3. \A i \in 1..n : (runs[i] \in S <=> runs'[i] \in R) /\ runs[i] = runs'[i]
  BY <1>2 DEF OneMore, Range
<1>4. runs'[n + 1] \notin R
  BY DEF OneMore
<1>5. Ended = Within(runs, S) /\ Ended' = Within(runs', R)
  BY DEF Ended
<1> HIDE DEF S, R
<1>6. Within(runs', R) = Within(runs, S)
  BY <1>1, <1>2, <1>3, <1>4, WithinLast
<1> QED
  BY <1>5, <1>6

\* The last element becomes another one, and had not been selected.
ChangesLast(s, t, S, R, n) ==
    /\ \E T : s \in Seq(T) /\ t \in Seq(T)
    /\ n \in Nat /\ Len(s) = n + 1 /\ Len(t) = n + 1 /\ s[n + 1] \notin S
    /\ \A i \in 1..n : (s[i] \in S <=> t[i] \in R) /\ (s[i] \in S => s[i] = t[i])

LEMMA LastAnew ==
    ASSUME NEW s, NEW t, NEW S, NEW R, NEW n, ChangesLast(s, t, S, R, n)
    PROVE  Within(t, R) = IF t[n + 1] \in R THEN Append(Within(s, S), t[n + 1]) ELSE Within(s, S)
<1>1. PICK T : s \in Seq(T) /\ t \in Seq(T)
  BY DEF ChangesLast
<1>2. /\ n \in Nat /\ Len(s) = n + 1 /\ Len(t) = n + 1 /\ s[n + 1] \notin S
      /\ \A i \in 1..n : (s[i] \in S <=> t[i] \in R) /\ (s[i] \in S => s[i] = t[i])
  BY DEF ChangesLast
<1> QED
  BY <1>1, <1>2, WithinLast

LEMMA EndedLast ==
    ASSUME NEW end, NEW more, LastGoesOn(end, more), runs[Len(runs)].end # "ended"
    PROVE  Ended' = IF end = "ended" THEN Append(Ended, runs'[Len(runs)]) ELSE Ended
<1> DEFINE S == {x \in Range(runs) : x.end = "ended"}
           R == {x \in Range(runs') : x.end = "ended"}
           n == Len(runs) - 1
<1>1. PICK T : runs \in Seq(T) /\ runs' \in Seq(T)
  BY DEF LastGoesOn
<1>2. /\ n \in Nat /\ Len(runs) = n + 1 /\ Len(runs') = n + 1
      /\ DOMAIN runs = 1..n + 1 /\ DOMAIN runs' = 1..n + 1
  <2>1. Len(runs) \in Nat \ {0} /\ Len(runs') = Len(runs)
    BY DEF LastGoesOn
  <2>2. n \in Nat /\ Len(runs) = n + 1
    BY <2>1
  <2> QED BY <1>1, <2>1, <2>2, LenProperties
<1> HIDE DEF n
<1>3. \A i \in 1..n : runs'[i] = runs[i]
  BY <1>2 DEF LastGoesOn
<1>4. \A i \in 1..n : (runs[i] \in S <=> runs'[i] \in R) /\ (runs[i] \in S => runs[i] = runs'[i])
  BY <1>2, <1>3 DEF Range
<1>5. runs[n + 1] \notin S /\ (runs'[n + 1] \in R <=> end = "ended")
  <2>1. runs'[n + 1] \in Range(runs')
    BY <1>2 DEF Range
  <2> QED BY <1>2, <2>1 DEF LastGoesOn
<1>6. Ended = Within(runs, S) /\ Ended' = Within(runs', R)
  BY DEF Ended
<1> HIDE DEF S, R
<1>7. Within(runs', R) = IF runs'[n + 1] \in R THEN Append(Within(runs, S), runs'[n + 1])
                                               ELSE Within(runs, S)
  <2>1. runs \in Seq(T) /\ runs' \in Seq(T)
    BY <1>1
  <2>2. n \in Nat /\ Len(runs) = n + 1 /\ Len(runs') = n + 1 /\ runs[n + 1] \notin S
    BY <1>2, <1>5
  <2>3. ChangesLast(runs, runs', S, R, n)
    BY <1>4, <2>1, <2>2 DEF ChangesLast
  <2> QED BY <2>3, LastAnew
<1> QED
  BY <1>2, <1>5, <1>6, <1>7

LEMMA EndedLength ==
    ASSUME RunsInv
    PROVE  \E T : Ended \in Seq(T)
<1>1. PICK T : runs \in Seq(T)
  BY DEF RunsInv
<1>2. Ended \in Seq(T)
  BY <1>1, WithinIsPart DEF Ended
<1> QED
  BY <1>2

\* A list that has one element more at its end.
LongerBy(n, s, t, x) ==
    /\ n \in Nat
    /\ s = [i \in 1..n |-> s[i]]
    /\ t = [i \in 1..n + 1 |-> t[i]]
    /\ \A i \in 1..n : t[i] = s[i]
    /\ t[n + 1] = x

LEMMA AppendAs ==
    ASSUME NEW n, NEW s, NEW t, NEW x, LongerBy(n, s, t, x)
    PROVE  t = Append(s, x)
<1> DEFINE V == {s[i] : i \in 1..n} \cup {x}
<1>0. /\ n \in Nat /\ s = [i \in 1..n |-> s[i]] /\ t = [i \in 1..n + 1 |-> t[i]]
      /\ (\A i \in 1..n : t[i] = s[i]) /\ t[n + 1] = x
  BY DEF LongerBy
<1>1. s \in [1..n -> V] /\ x \in V
  BY <1>0
<1>2. t \in [1..n + 1 -> V]
  <2>1. \A i \in 1..n + 1 : t[i] \in V
    <3> SUFFICES ASSUME NEW i \in 1..n + 1 PROVE t[i] \in V
      OBVIOUS
    <3>1. i \in 1..n \/ i = n + 1
      BY <1>0
    <3> QED BY <1>0, <3>1
  <2> HIDE DEF V
  <2> QED BY <1>0, <2>1
<1> HIDE DEF V
<1>3. s \in Seq(V) /\ t \in Seq(V) /\ Len(s) = n /\ Len(t) = n + 1
  <2>1. s \in Seq(V) /\ t \in Seq(V)
    BY <1>0, <1>1, <1>2
  <2>2. /\ Len(s) \in Nat /\ DOMAIN s = 1..Len(s)
        /\ Len(t) \in Nat /\ DOMAIN t = 1..Len(t)
    BY <2>1, LenProperties
  <2>3. DOMAIN s = 1..n /\ DOMAIN t = 1..n + 1
    BY <1>0
  <2> QED BY <1>0, <2>1, <2>2, <2>3
<1>4. /\ Append(s, x) \in Seq(V) /\ Len(Append(s, x)) = n + 1
      /\ \A i \in 1..n : Append(s, x)[i] = s[i]
      /\ Append(s, x)[n + 1] = x
  BY <1>1, <1>3, AppendProperties
<1>5. \A i \in 1..Len(t) : t[i] = Append(s, x)[i]
  <2> SUFFICES ASSUME NEW i \in 1..n + 1 PROVE t[i] = Append(s, x)[i]
    BY <1>3
  <2>1. i \in 1..n \/ i = n + 1
    BY <1>0
  <2> QED BY <1>0, <1>4, <2>1
<1> QED
  BY <1>3, <1>4, <1>5, SeqEqual

SummariesOf(list) == [i \in DOMAIN list |-> list[i].ran.session]

RecordsOf(list) ==
    [i \in DOMAIN list |-> Record(list[i].ran.name, list[i].ran.session,
       list[i].result.steps, list[i].result.calls, list[i].result.finished)]

LEMMA OneMoreRecord ==
    ASSUME NEW T, NEW list \in Seq(T), NEW r
    PROVE  /\ SummariesOf(Append(list, r)) = Append(SummariesOf(list), r.ran.session)
           /\ RecordsOf(Append(list, r)) =
                Append(RecordsOf(list), Record(r.ran.name, r.ran.session, r.result.steps,
                                               r.result.calls, r.result.finished))
<1> DEFINE V == T \cup {r}
           n == Len(list)
           longer == Append(list, r)
<1>1. n \in Nat /\ list \in Seq(V) /\ r \in V
  <2>1. n \in Nat /\ list \in [1..n -> T]
    BY LenProperties
  <2>2. list \in [1..n -> V]
    BY <2>1
  <2> QED BY <2>1, <2>2
<1> HIDE DEF V
<1>2. longer \in Seq(V) /\ Len(longer) = n + 1 /\ longer[n + 1] = r
      /\ \A i \in 1..n : longer[i] = list[i]
  BY <1>1, AppendProperties
<1>3. DOMAIN list = 1..n /\ DOMAIN longer = 1..n + 1
  BY <1>1, <1>2, LenProperties
<1> HIDE DEF longer, n
<1>4. n + 1 \in 1..n + 1 /\ \A i \in 1..n : i \in 1..n + 1
  BY <1>1
<1>5. SummariesOf(longer) = Append(SummariesOf(list), r.ran.session)
  <2> DEFINE s == SummariesOf(list)
             t == SummariesOf(longer)
  <2>1. LongerBy(n, s, t, r.ran.session)
    BY <1>1, <1>2, <1>3, <1>4 DEF SummariesOf, LongerBy
  <2> HIDE DEF s, t
  <2>2. t = Append(s, r.ran.session)
    BY <2>1, AppendAs
  <2> QED BY <2>2 DEF s, t
<1>6. RecordsOf(longer) =
        Append(RecordsOf(list), Record(r.ran.name, r.ran.session, r.result.steps,
                                       r.result.calls, r.result.finished))
  <2> DEFINE s == RecordsOf(list)
             t == RecordsOf(longer)
             x == Record(r.ran.name, r.ran.session, r.result.steps, r.result.calls,
                         r.result.finished)
  <2>1. LongerBy(n, s, t, x)
    BY <1>1, <1>2, <1>3, <1>4 DEF RecordsOf, LongerBy
  <2> HIDE DEF s, t, x
  <2>2. t = Append(s, x)
    BY <2>1, AppendAs
  <2> QED BY <2>2 DEF s, t, x
<1> QED
  BY <1>5, <1>6 DEF longer

IsMemory(m) == m = [session |-> m.session, entries |-> m.entries, summaries |-> m.summaries]

\* Where the sessions of a pipeline and of its steps are in their tree.
SessionsInv ==
    /\ sessions \in Seq(Nat)
    /\ pc \in {"idle", "next"} \/ Active
    /\ pc # "idle" => parent \in 1..Len(sessions) /\ sessions[parent] = 0
    /\ \A i \in 1..Len(runs) :
         LET own == runs[i].ran.session
         IN  /\ own \in 1..Len(sessions) /\ sessions[own] \in 1..Len(sessions)
             /\ sessions[sessions[own]] = 0
    /\ Active => /\ sessions[ag.session] = parent
                 /\ memory.session = ag.session
    /\ IsMemory(memory)

\* One summary and one record for each run that has ended.
RecordsInv ==
    /\ memory.summaries = SummariesOf(Ended)
    /\ engine.sessions = RecordsOf(Ended)

LEMMA InitSessions == Init => SessionsInv /\ RecordsInv
<1> SUFFICES ASSUME Init PROVE SessionsInv /\ RecordsInv
  OBVIOUS
<1>1. sessions \in Seq(Nat) /\ Len(runs) = 0 /\ pc = "idle"
  BY EmptySeq DEF Init
<1>2. memory = [session |-> 0, entries |-> FirstEntries, summaries |-> <<>>]
  BY DEF Init
<1>3. IsMemory(memory) /\ memory.summaries = <<>>
  BY <1>2 DEF IsMemory
<1>4. SessionsInv
  BY <1>1, <1>3 DEF SessionsInv, Active
<1>5. Ended = <<>>
  BY WithinEmpty DEF Init, Ended
<1>6. DOMAIN <<>> = {}
  OBVIOUS
<1>7. SummariesOf(<<>>) = <<>> /\ RecordsOf(<<>>) = <<>>
  BY <1>6 DEF SummariesOf, RecordsOf
<1>8. engine.sessions = <<>>
  BY DEF Init, NewEngine
<1> QED
  BY <1>3, <1>4, <1>5, <1>7, <1>8 DEF RecordsInv

\* One session more leaves the others where they are.
LEMMA OneMoreSession ==
    ASSUME sessions \in Seq(Nat), NEW p \in Nat, sessions' = Append(sessions, p)
    PROVE  /\ sessions' \in Seq(Nat) /\ Len(sessions) \in Nat /\ Len(sessions') = Len(sessions) + 1
           /\ \A i \in 1..Len(sessions) : sessions'[i] = sessions[i]
           /\ sessions'[Len(sessions')] = p
  BY AppendProperties, LenProperties

LEMMA NextSessions == HistoryInv /\ SessionsInv /\ [Next]_vars => SessionsInv'
<1> SUFFICES ASSUME HistoryInv, SessionsInv, [Next]_vars PROVE SessionsInv'
  OBVIOUS
<1>1. ASSUME UNCHANGED <<sessions, runs, memory, ag, parent, pc>> PROVE SessionsInv'
  BY <1>1 DEF SessionsInv, Active, IsMemory
<1>2. ASSUME NEW a, NEW ref, SwitchModel(a, ref) PROVE SessionsInv'
  BY <1>1, <1>2 DEF SwitchModel
<1>3. ASSUME NEW steps, RunPipeline(steps) PROVE SessionsInv'
  <2>1. /\ sessions' = Append(sessions, 0) /\ parent' = Len(sessions') /\ pc' = "next"
        /\ UNCHANGED <<runs, memory, ag>>
    BY <1>3 DEF RunPipeline
  <2>2. /\ sessions' \in Seq(Nat) /\ Len(sessions) \in Nat /\ Len(sessions') = Len(sessions) + 1
        /\ \A i \in 1..Len(sessions) : sessions'[i] = sessions[i]
        /\ sessions'[Len(sessions')] = 0
    BY <2>1, OneMoreSession DEF SessionsInv
  <2>3. ASSUME NEW i \in 1..Len(runs)
        PROVE  /\ runs[i].ran.session \in 1..Len(sessions')
               /\ sessions'[runs[i].ran.session] \in 1..Len(sessions')
               /\ sessions'[sessions'[runs[i].ran.session]] = 0
    <3> DEFINE own == runs[i].ran.session
    <3>1. own \in 1..Len(sessions) /\ sessions[own] \in 1..Len(sessions) /\ sessions[sessions[own]] = 0
      BY DEF SessionsInv
    <3> HIDE DEF own
    <3>2. sessions'[own] = sessions[own] /\ own \in 1..Len(sessions') /\ sessions[own] \in 1..Len(sessions')
      BY <2>2, <3>1
    <3>3. sessions'[sessions[own]] = 0
      BY <2>2, <3>1
    <3>4. own \in 1..Len(sessions') /\ sessions'[own] \in 1..Len(sessions') /\ sessions'[sessions'[own]] = 0
      BY <3>2, <3>3
    <3> QED BY <3>4 DEF own
  <2>4. parent' \in 1..Len(sessions') /\ sessions'[parent'] = 0
    BY <2>1, <2>2
  <2> QED BY <2>1, <2>2, <2>3, <2>4 DEF SessionsInv, Active, IsMemory
<1>4. CASE EndPipeline
  BY <1>4 DEF EndPipeline, SessionsInv, Active, IsMemory
<1>5. CASE BeginStep
  <2> DEFINE r == NewRun(Head(todo), ag')
  <2>1. /\ OneMore(r) /\ ag'.session = Len(sessions') /\ sessions' = Append(sessions, parent)
    BY <1>5, BeginRuns
  <2>2. /\ pc = "next" /\ pc' = "running" /\ UNCHANGED parent
        /\ memory' = [memory EXCEPT !.session = Len(sessions')]
    BY <1>5 DEF BeginStep
  <2>3. r.ran = ag'
    BY DEF NewRun
  <2> HIDE DEF r
  <2>4. sessions \in Seq(Nat) /\ parent \in 1..Len(sessions) /\ sessions[parent] = 0
    BY <2>2 DEF SessionsInv
  <2>5. /\ sessions' \in Seq(Nat) /\ Len(sessions) \in Nat /\ Len(sessions') = Len(sessions) + 1
        /\ \A i \in 1..Len(sessions) : sessions'[i] = sessions[i]
        /\ sessions'[Len(sessions')] = parent
    BY <2>1, <2>4, OneMoreSession
  <2>6. memory' = [session |-> ag'.session, entries |-> memory.entries,
                   summaries |-> memory.summaries]
    <3>1. memory = [session |-> memory.session, entries |-> memory.entries,
                    summaries |-> memory.summaries]
      BY DEF SessionsInv, IsMemory
    <3> QED BY <2>1, <2>2, <3>1
  <2>7. ASSUME NEW i \in 1..Len(runs')
        PROVE  /\ runs'[i].ran.session \in 1..Len(sessions')
               /\ sessions'[runs'[i].ran.session] \in 1..Len(sessions')
               /\ sessions'[sessions'[runs'[i].ran.session]] = 0
    <3>1. CASE i \in 1..Len(runs)
      <4>1. runs'[i] = runs[i]
        BY <2>1, <3>1 DEF OneMore
      <4> DEFINE own == runs[i].ran.session
      <4>2. own \in 1..Len(sessions) /\ sessions[own] \in 1..Len(sessions) /\ sessions[sessions[own]] = 0
        BY <3>1 DEF SessionsInv
      <4> HIDE DEF own
      <4>3. sessions'[own] = sessions[own] /\ own \in 1..Len(sessions') /\ sessions[own] \in 1..Len(sessions')
        BY <2>5, <4>2
      <4>4. sessions'[sessions[own]] = 0
        BY <2>5, <4>2
      <4>5. own \in 1..Len(sessions') /\ sessions'[own] \in 1..Len(sessions') /\ sessions'[sessions'[own]] = 0
        BY <4>3, <4>4
      <4> QED BY <4>1, <4>5 DEF own
    <3>2. CASE i = Len(runs) + 1
      <4>1. runs'[i].ran.session = Len(sessions')
        BY <2>1, <2>3, <3>2 DEF OneMore
      <4> QED BY <2>4, <2>5, <4>1
    <3>3. i \in 1..Len(runs) \/ i = Len(runs) + 1
      BY <2>1 DEF OneMore
    <3> QED BY <3>1, <3>2, <3>3
  <2>8. parent' \in 1..Len(sessions') /\ sessions'[parent'] = 0
    BY <2>2, <2>4, <2>5
  <2>9. sessions'[ag'.session] = parent' /\ memory'.session = ag'.session /\ IsMemory(memory')
    BY <2>1, <2>2, <2>5, <2>6 DEF IsMemory
  <2> QED BY <2>2, <2>5, <2>7, <2>8, <2>9 DEF SessionsInv, Active, IsMemory
<1>6. ASSUME NEW end, NEW more, LastGoesOn(end, more), Active, UNCHANGED <<sessions, ag, parent>>,
             memory'.session = memory.session, IsMemory(memory'), pc' \in {"idle", "next"} \/ Active'
      PROVE  SessionsInv'
  <2>1. ASSUME NEW i \in 1..Len(runs') PROVE i \in 1..Len(runs) /\ runs'[i].ran = runs[i].ran
    BY <1>6, <2>1 DEF LastGoesOn, GoesOn
  <2>2. \A i \in 1..Len(runs') :
          /\ runs'[i].ran.session \in 1..Len(sessions)
          /\ sessions[runs'[i].ran.session] \in 1..Len(sessions)
          /\ sessions[sessions[runs'[i].ran.session]] = 0
    BY <2>1 DEF SessionsInv
  <2>3. pc # "idle"
    BY <1>6 DEF Active
  <2> QED BY <1>6, <2>2, <2>3 DEF SessionsInv, IsMemory
<1>7. memory = [session |-> memory.session, entries |-> memory.entries,
                summaries |-> memory.summaries]
  BY DEF SessionsInv, IsMemory
<1>8. ASSUME NEW x, memory' = [memory EXCEPT !.entries = x]
      PROVE  memory'.session = memory.session /\ IsMemory(memory')
  <2>1. memory' = [session |-> memory.session, entries |-> x, summaries |-> memory.summaries]
    BY <1>7, <1>8
  <2> QED BY <2>1 DEF IsMemory
<1>9. ASSUME NEW turn, NEW compacted \in BOOLEAN, Turn(turn, compacted) PROVE SessionsInv'
  <2>1. /\ memory' = [memory EXCEPT !.entries = memory.entries \o Noted(compacted, 1 + Results(turn))]
        /\ UNCHANGED <<sessions, ag, parent>> /\ Active /\ Active'
    BY <1>9 DEF Turn, Active
  <2>2. LastGoesOn("running", IF compacted THEN 1 ELSE 0)
    BY <1>9, TurnRuns
  <2>3. memory'.session = memory.session /\ IsMemory(memory')
    BY <1>8, <2>1
  <2> QED BY <1>6, <2>1, <2>2, <2>3
<1>10. ASSUME NEW compacted \in BOOLEAN, Fails(compacted) PROVE SessionsInv'
  <2>1. /\ memory' = [memory EXCEPT !.entries = memory.entries \o Noted(compacted, 0)]
        /\ UNCHANGED <<sessions, ag, parent>> /\ Active /\ pc' = "idle"
    BY <1>10 DEF Fails, Active
  <2>2. LastGoesOn("failed", IF compacted THEN 1 ELSE 0)
    BY <1>10, FailRuns
  <2>3. memory'.session = memory.session /\ IsMemory(memory')
    BY <1>8, <2>1
  <2> QED BY <1>6, <2>1, <2>2, <2>3
<1>11. CASE Conclude
  <2>1. /\ memory' = [memory EXCEPT !.summaries = Append(@, ag.session),
                                    !.entries = Append(@, "session_summary")]
        /\ UNCHANGED <<sessions, ag, parent>> /\ Active /\ pc' = "next"
    BY <1>11 DEF Conclude, Active
  <2>2. LastGoesOn("ended", 0)
    BY <1>11, ConcludeRuns
  <2>3. memory'.session = memory.session /\ IsMemory(memory')
    <3> DEFINE half == [memory EXCEPT !.summaries = Append(@, ag.session)]
    <3>1. memory' = [half EXCEPT !.entries = Append(@, "session_summary")]
      BY <2>1, Zenon
    <3>2. half = [session |-> memory.session, entries |-> memory.entries,
                  summaries |-> Append(memory.summaries, ag.session)]
      BY <1>7
    <3> HIDE DEF half
    <3>3. memory' = [session |-> memory.session, entries |-> Append(half.entries, "session_summary"),
                     summaries |-> Append(memory.summaries, ag.session)]
      BY <3>1, <3>2
    <3> QED BY <3>3 DEF IsMemory
  <2> QED BY <1>6, <2>1, <2>2, <2>3
<1>12. CASE UNCHANGED vars
  BY <1>1, <1>12 DEF vars
<1> QED
  BY <1>2, <1>3, <1>4, <1>5, <1>9, <1>10, <1>11, <1>12 DEF Next

LEMMA NextRecords ==
    HistoryInv /\ FailuresInv /\ SessionsInv /\ RecordsInv /\ [Next]_vars => RecordsInv'
<1> SUFFICES ASSUME HistoryInv, FailuresInv, SessionsInv, RecordsInv, [Next]_vars PROVE RecordsInv'
  OBVIOUS
<1>1. ASSUME Ended' = Ended, memory'.summaries = memory.summaries,
             engine'.sessions = engine.sessions
      PROVE  RecordsInv'
  BY <1>1 DEF RecordsInv
<1>2. ASSUME UNCHANGED <<runs, memory, engine>> PROVE RecordsInv'
  <2>1. Ended' = Ended
    BY <1>2 DEF Ended
  <2> QED BY <1>1, <1>2, <2>1
<1>3. ASSUME NEW a, NEW ref, SwitchModel(a, ref) PROVE RecordsInv'
  BY <1>2, <1>3 DEF SwitchModel
<1>4. ASSUME NEW steps, RunPipeline(steps) PROVE RecordsInv'
  BY <1>2, <1>4 DEF RunPipeline
<1>5. CASE EndPipeline
  BY <1>2, <1>5 DEF EndPipeline
<1>6. memory = [session |-> memory.session, entries |-> memory.entries,
                summaries |-> memory.summaries]
  BY DEF SessionsInv, IsMemory
<1>7. CASE BeginStep
  <2> DEFINE r == NewRun(Head(todo), ag')
  <2>1. OneMore(r)
    BY <1>7, BeginRuns
  <2>2. r.end # "ended"
    BY DEF NewRun
  <2> HIDE DEF r
  <2>3. Ended' = Ended
    BY <2>1, <2>2, EndedMore
  <2>4. memory' = [memory EXCEPT !.session = Len(sessions')] /\ UNCHANGED engine
    BY <1>7 DEF BeginStep
  <2>5. memory' = [session |-> Len(sessions'), entries |-> memory.entries,
                   summaries |-> memory.summaries]
    BY <1>6, <2>4
  <2> QED BY <1>1, <2>3, <2>4, <2>5
<1>8. ASSUME NEW x, memory' = [memory EXCEPT !.entries = x]
      PROVE  memory'.summaries = memory.summaries
  <2>1. memory' = [session |-> memory.session, entries |-> x, summaries |-> memory.summaries]
    BY <1>6, <1>8
  <2> QED BY <2>1
<1>9. ASSUME NEW end, NEW more, LastGoesOn(end, more), Active, end # "ended"
      PROVE  Ended' = Ended
  <2>1. runs[Len(runs)].end # "ended"
    BY <1>9 DEF HistoryInv
  <2> QED BY <1>9, <2>1, EndedLast
<1>10. ASSUME NEW turn \in Turns, NEW compacted \in BOOLEAN, Turn(turn, compacted)
       PROVE  RecordsInv'
  <2>1. memory' = [memory EXCEPT !.entries = memory.entries \o Noted(compacted, 1 + Results(turn))]
        /\ Active
    BY <1>10 DEF Turn, Active
  <2>2. LastGoesOn("running", IF compacted THEN 1 ELSE 0)
    BY <1>10, TurnRuns
  <2>3. engine'.sessions = engine.sessions
    BY <1>10, TurnTold DEF EngineAfter, SameRecords
  <2>4. Ended' = Ended
    BY <1>9, <2>1, <2>2
  <2> QED BY <1>1, <1>8, <2>1, <2>3, <2>4
<1>11. ASSUME NEW compacted \in BOOLEAN, Fails(compacted) PROVE RecordsInv'
  <2>1. memory' = [memory EXCEPT !.entries = memory.entries \o Noted(compacted, 0)] /\ Active
    BY <1>11 DEF Fails, Active
  <2>2. LastGoesOn("failed", IF compacted THEN 1 ELSE 0)
    BY <1>11, FailRuns
  <2>3. engine'.sessions = engine.sessions
    BY <1>11, FailTold DEF EngineAfter, SameRecords
  <2>4. Ended' = Ended
    BY <1>9, <2>1, <2>2
  <2> QED BY <1>1, <1>8, <2>1, <2>3, <2>4
<1>12. CASE Conclude
  <2> DEFINE s == Record(ag.name, ag.session, result.steps, result.calls, result.finished)
             r == runs'[Len(runs)]
  <2>1. /\ memory' = [memory EXCEPT !.summaries = Append(@, ag.session),
                                    !.entries = Append(@, "session_summary")]
        /\ engine' = RecordSession(engine, s) /\ Active
    BY <1>12 DEF Conclude, Active
  <2>2. /\ LastGoesOn("ended", 0) /\ r.result = result
        /\ runs[Len(runs)].end = "running" /\ runs[Len(runs)].ran = ag
    BY <1>12, <2>1, ConcludeRuns DEF HistoryInv
  <2>3. r.ran = ag
    BY <2>2 DEF LastGoesOn, GoesOn
  <2>4. Ended' = Append(Ended, r)
    BY <2>2, EndedLast
  <2>5. s = Record(r.ran.name, r.ran.session, r.result.steps, r.result.calls, r.result.finished)
    BY <2>2, <2>3
  <2>6. engine'.sessions = Append(engine.sessions, s)
    <3> HIDE DEF s
    <3> QED BY <2>1, SessionRecorded DEF FailuresInv
  <2>7. memory'.summaries = Append(memory.summaries, r.ran.session)
    <3> DEFINE half == [memory EXCEPT !.summaries = Append(@, ag.session)]
    <3>1. memory' = [half EXCEPT !.entries = Append(@, "session_summary")]
      BY <2>1, Zenon
    <3>2. half = [session |-> memory.session, entries |-> memory.entries,
                  summaries |-> Append(memory.summaries, ag.session)]
      BY <1>6
    <3> HIDE DEF half
    <3>3. memory' = [session |-> memory.session, entries |-> Append(half.entries, "session_summary"),
                     summaries |-> Append(memory.summaries, ag.session)]
      BY <3>1, <3>2
    <3> QED BY <2>3, <3>3
  <2>8. PICK T : Ended \in Seq(T)
    BY EndedLength DEF HistoryInv, ModelsInv
  <2> HIDE DEF s, r
  <2>9. /\ SummariesOf(Append(Ended, r)) = Append(SummariesOf(Ended), r.ran.session)
        /\ RecordsOf(Append(Ended, r)) = Append(RecordsOf(Ended), s)
    BY <2>5, <2>8, OneMoreRecord
  <2>10. memory'.summaries = SummariesOf(Ended')
    BY <2>4, <2>7, <2>9 DEF RecordsInv
  <2>11. engine'.sessions = RecordsOf(Ended')
    BY <2>4, <2>6, <2>9 DEF RecordsInv
  <2> QED BY <2>10, <2>11 DEF RecordsInv
<1>13. CASE UNCHANGED vars
  BY <1>2, <1>13 DEF vars
<1> QED
  BY <1>3, <1>4, <1>5, <1>7, <1>10, <1>11, <1>12, <1>13 DEF Next

\* Every Execute has a session of its own below its pipeline's, and each that
\* came to an end has left one record and one summary, in order, and one that
\* failed none, for any pipelines of any agents.
THEOREM RecordsAlwaysKept == Spec => []OneRecordPerStep
<1> DEFINE Inv == HistoryInv /\ FailuresInv /\ SessionsInv /\ RecordsInv
<1>1. Inv => OneRecordPerStep
  <2> SUFFICES ASSUME Inv PROVE OneRecordPerStep
    OBVIOUS
  <2>1. DOMAIN runs = 1..Len(runs)
    BY LenProperties DEF HistoryInv, ModelsInv, RunsInv
  <2>2. \A i \in DOMAIN runs : sessions[sessions[runs[i].ran.session]] = 0
    BY <2>1 DEF SessionsInv
  <2>3. pc = "running" => memory.session = ag.session /\ sessions[ag.session] = parent
    BY DEF SessionsInv, Active
  <2>4. /\ memory.summaries = [i \in DOMAIN Ended |-> Ended[i].ran.session]
        /\ engine.sessions =
             [i \in DOMAIN Ended |-> Record(Ended[i].ran.name, Ended[i].ran.session,
                Ended[i].result.steps, Ended[i].result.calls, Ended[i].result.finished)]
    BY DEF RecordsInv, SummariesOf, RecordsOf
  <2> QED BY <2>2, <2>3, <2>4 DEF OneRecordPerStep
<1>2. Init => Inv
  BY InitHistory, InitFailures, InitSessions
<1>3. Inv /\ [Next]_vars => Inv'
  BY NextHistory, NextFailures, NextSessions, NextRecords
<1> HIDE DEF Inv
<1> QED
  BY <1>1, <1>2, <1>3, PTL DEF Spec

-----------------------------------------------------------------------------
(* The memory's entries.                                                    *)

LEMMA SeqWithin ==
    ASSUME NEW S, NEW T, S \subseteq T, NEW s \in Seq(S)
    PROVE  s \in Seq(T)
<1>1. Len(s) \in Nat /\ s \in [1..Len(s) -> S]
  BY LenProperties
<1>2. s \in [1..Len(s) -> T]
  BY <1>1
<1> QED
  BY <1>1, <1>2

\* What n runs have added.
Since(n) == Total([j \in DOMAIN runs |-> Happened(runs[j])], n)

LEMMA HappenedCounted ==
    ASSUME NEW r, IsCounted(r)
    PROVE  Happened(r) \in Nat
<1>1. r.result.steps \in Nat /\ r.result.calls \in Nat /\ r.compactions \in Nat
  BY DEF IsCounted
<1> QED
  BY <1>1 DEF Happened

LEMMA SinceIsNat ==
    ASSUME HistoryInv, NEW n \in 0..Len(runs)
    PROVE  Since(n) \in Nat
<1> DEFINE f == [j \in DOMAIN runs |-> Happened(runs[j])]
<1>1. Len(runs) \in Nat /\ DOMAIN runs = 1..Len(runs)
  BY LenProperties DEF HistoryInv, ModelsInv, RunsInv
<1>2. \A i \in 1..Len(runs) : f[i] \in Nat
  BY <1>1, HappenedCounted DEF HistoryInv
<1> HIDE DEF f
<1>3. n \in Nat /\ \A i \in 1..n : f[i] \in Nat
  BY <1>1, <1>2
<1>4. Total(f, n) \in Nat
  BY <1>3, TotalIsNat
<1> QED
  BY <1>4 DEF Since, f

LEMMA SinceNone == Since(0) = 0
  BY TotalOfNone DEF Since

\* What the runs before have added stays, and the run that changes adds to it.
LEMMA SinceMore ==
    ASSUME HistoryInv, HistoryInv', NEW n \in Nat, n + 1 = Len(runs'), n <= Len(runs),
           \A i \in 1..n : runs'[i] = runs[i]
    PROVE  /\ \A k \in 0..n : Since(k)' = Since(k)
           /\ Since(n + 1)' = Since(n) + Happened(runs'[n + 1])
<1> DEFINE f == [j \in DOMAIN runs |-> Happened(runs[j])]
           g == [j \in DOMAIN runs' |-> Happened(runs'[j])]
<1>1. /\ Len(runs) \in Nat /\ DOMAIN runs = 1..Len(runs)
      /\ Len(runs') \in Nat /\ DOMAIN runs' = 1..Len(runs')
  BY LenProperties DEF HistoryInv, ModelsInv, RunsInv
<1>2. \A i \in 1..Len(runs) : Happened(runs[i]) \in Nat
  BY HappenedCounted DEF HistoryInv
<1>3. \A i \in 1..Len(runs') : Happened(runs'[i]) \in Nat
  <2>1. \A i \in 1..Len(runs') : IsCounted(runs'[i])
    BY DEF HistoryInv
  <2> QED BY <2>1, HappenedCounted
<1>4. \A i \in 1..n : f[i] \in Nat /\ f[i] = g[i]
  BY <1>1, <1>2
<1>5. /\ \A i \in 1..n + 1 : g[i] \in Nat
      /\ g[n + 1] = Happened(runs'[n + 1])
  BY <1>1, <1>3
<1>6. /\ \A k \in Nat : Since(k) = Total(f, k)
      /\ \A k \in Nat : Since(k)' = Total(g, k)
  BY DEF Since
<1> HIDE DEF f, g
<1>7. ASSUME NEW k \in 0..n PROVE Total(f, k) = Total(g, k)
  <2>1. k \in Nat /\ \A i \in 1..k : f[i] \in Nat /\ f[i] = g[i]
    BY <1>4
  <2> QED BY <2>1, TotalSame
<1>8. Total(g, n + 1) = Total(g, n) + g[n + 1]
  BY <1>5, TotalStep
<1>9. Total(f, n) = Total(g, n)
  BY <1>7
<1>10. \A k \in 0..n : Since(k)' = Since(k)
  BY <1>6, <1>7
<1>11. n + 1 \in Nat /\ Since(n + 1)' = Total(g, n + 1) /\ Since(n) = Total(f, n)
  BY <1>6
<1> QED
  BY <1>5, <1>8, <1>9, <1>10, <1>11

\* What the memory has of the entries that were there at first, of what has
\* happened since, and of each run's prompt.
EntriesInv ==
    /\ memory.entries \in Seq(EntryTypes)
    /\ Len(memory.entries) = Len(FirstEntries) + Since(Len(runs))
    /\ \A k \in 1..Len(FirstEntries) : memory.entries[k] = FirstEntries[k]
    /\ \A i \in 1..Len(runs) :
         /\ runs[i].recalled = Len(FirstEntries) + Since(i - 1)
         /\ runs[i].recalled \in 0..Len(memory.entries)
         /\ \A j \in 1..i : runs[j].recalled <= runs[i].recalled
         /\ runs[i].prompt.insights =
              {k \in 1..runs[i].recalled : /\ k > runs[i].recalled - WorkingEntries
                                           /\ memory.entries[k] = "insight"}

LEMMA FirstKnown == FirstEntries \in Seq(EntryTypes) /\ Len(FirstEntries) \in Nat
<1>1. FirstEntries \in Seq({"insight", "session_summary"})
  BY PipelineAssumption
<1>2. {"insight", "session_summary"} \subseteq EntryTypes
  BY DEF EntryTypes
<1> QED
  BY <1>1, <1>2, SeqWithin, LenProperties

LEMMA InitEntries == Init => EntriesInv
<1> SUFFICES ASSUME Init PROVE EntriesInv
  OBVIOUS
<1>1. Len(runs) = 0
  BY EmptySeq DEF Init
<1>2. memory.entries = FirstEntries
  BY DEF Init
<1>3. Since(Len(runs)) = 0
  BY <1>1, SinceNone
<1>4. Len(memory.entries) = Len(FirstEntries) + Since(Len(runs))
  BY <1>2, <1>3, FirstKnown
<1> QED
  BY <1>1, <1>2, <1>4, FirstKnown DEF EntriesInv

\* The memory's entries grow by this many.
Grows(size) ==
    /\ memory'.entries \in Seq(EntryTypes)
    /\ size \in Nat /\ Len(memory'.entries) = Len(memory.entries) + size
    /\ \A k \in 1..Len(memory.entries) : memory'.entries[k] = memory.entries[k]

LEMMA ConcatGrows ==
    ASSUME memory.entries \in Seq(EntryTypes), NEW more \in Seq(EntryTypes),
           memory'.entries = memory.entries \o more
    PROVE  Grows(Len(more))
<1>1. Len(memory.entries) \in Nat /\ Len(more) \in Nat
  BY LenProperties
<1>2. /\ memory'.entries \in Seq(EntryTypes)
      /\ Len(memory'.entries) = Len(memory.entries) + Len(more)
      /\ \A i \in 1..Len(memory.entries) + Len(more) :
           memory'.entries[i] = IF i <= Len(memory.entries) THEN memory.entries[i]
                                ELSE more[i - Len(memory.entries)]
  BY ConcatProperties
<1>3. \A k \in 1..Len(memory.entries) : memory'.entries[k] = memory.entries[k]
  BY <1>1, <1>2
<1> QED
  BY <1>1, <1>2, <1>3 DEF Grows

LEMMA NotedLength ==
    ASSUME NEW compacted \in BOOLEAN, NEW results \in Nat
    PROVE  /\ Noted(compacted, results) \in Seq(EntryTypes)
           /\ Len(Noted(compacted, results)) = results + (IF compacted THEN 1 ELSE 0)
<1> DEFINE a == IF compacted THEN <<"insight">> ELSE <<>>
           b == [k \in 1..results |-> "tool_result"]
<1>1. a \in Seq(EntryTypes) /\ Len(a) = IF compacted THEN 1 ELSE 0
  <2>1. <<"insight">> \in Seq(EntryTypes) /\ Len(<<"insight">>) = 1
    BY DEF EntryTypes
  <2>2. <<>> \in Seq(EntryTypes) /\ Len(<<>>) = 0
    BY EmptySeq
  <2> QED BY <2>1, <2>2
<1>2. b \in Seq(EntryTypes) /\ Len(b) = results
  <2>1. b \in [1..results -> EntryTypes] /\ DOMAIN b = 1..results
    BY DEF EntryTypes
  <2> HIDE DEF b
  <2>2. b \in Seq(EntryTypes)
    BY <2>1
  <2> QED BY <2>1, <2>2, LenProperties
<1>3. Noted(compacted, results) = a \o b
  BY DEF Noted
<1> HIDE DEF a, b
<1>4. (a \o b) \in Seq(EntryTypes) /\ Len(a \o b) = Len(a) + Len(b)
  BY <1>1, <1>2, ConcatProperties
<1>5. (IF compacted THEN 1 ELSE 0) + results = results + (IF compacted THEN 1 ELSE 0)
  OBVIOUS
<1> QED
  BY <1>1, <1>2, <1>3, <1>4, <1>5

\* A run's prompt says what it said, and the entries it knew are still there.
LEMMA PromptsKept ==
    ASSUME EntriesInv, NEW size, Grows(size), NEW i \in 1..Len(runs), NEW r,
           r.recalled = runs[i].recalled, r.prompt = runs[i].prompt
    PROVE  /\ r.recalled \in 0..Len(memory'.entries)
           /\ r.prompt.insights =
                {k \in 1..r.recalled : /\ k > r.recalled - WorkingEntries
                                       /\ memory'.entries[k] = "insight"}
<1> DEFINE known == runs[i].recalled
           L == Len(memory.entries)
<1>1. L \in Nat /\ known \in 0..L
  BY LenProperties DEF EntriesInv
<1>2. size \in Nat /\ Len(memory'.entries) = L + size
      /\ \A k \in 1..L : memory'.entries[k] = memory.entries[k]
  BY DEF Grows
<1>3. r.prompt.insights = {k \in 1..known : k > known - WorkingEntries /\ memory.entries[k] = "insight"}
  BY DEF EntriesInv
<1>4. r.recalled = known
  OBVIOUS
<1> HIDE DEF known, L
<1>5. known \in 0..Len(memory'.entries)
  BY <1>1, <1>2
<1>6. \A k \in 1..known : memory'.entries[k] = memory.entries[k]
  BY <1>1, <1>2
<1>7. r.prompt.insights = {k \in 1..known : k > known - WorkingEntries /\ memory'.entries[k] = "insight"}
  BY <1>3, <1>6
<1> QED
  BY <1>4, <1>5, <1>7

LEMMA SinceLast ==
    ASSUME HistoryInv, NEW n \in Nat, n + 1 <= Len(runs)
    PROVE  Since(n + 1) = Since(n) + Happened(runs[n + 1])
<1> DEFINE f == [j \in DOMAIN runs |-> Happened(runs[j])]
<1>1. Len(runs) \in Nat /\ DOMAIN runs = 1..Len(runs)
  BY LenProperties DEF HistoryInv, ModelsInv, RunsInv
<1>2. \A i \in 1..Len(runs) : Happened(runs[i]) \in Nat
  BY HappenedCounted DEF HistoryInv
<1>3. (\A i \in 1..n + 1 : f[i] \in Nat) /\ f[n + 1] = Happened(runs[n + 1])
  BY <1>1, <1>2
<1>4. Since(n + 1) = Total(f, n + 1) /\ Since(n) = Total(f, n)
  BY DEF Since
<1> HIDE DEF f
<1> QED
  BY <1>3, <1>4, TotalStep

LEMMA LastAdds ==
    ASSUME HistoryInv, HistoryInv', EntriesInv, NEW end, NEW more, LastGoesOn(end, more),
           NEW size, Grows(size),
           Happened(runs'[Len(runs)]) = Happened(runs[Len(runs)]) + size
    PROVE  EntriesInv'
<1> DEFINE m == Len(FirstEntries)
<1>n. PICK n \in Nat : Len(runs) = n + 1
  <2>1. Len(runs) \in Nat \ {0}
    BY DEF LastGoesOn
  <2>2. Len(runs) - 1 \in Nat /\ Len(runs) = (Len(runs) - 1) + 1
    BY <2>1
  <2> QED BY <2>2
<1>0. /\ n \in Nat /\ Len(runs) = n + 1 /\ Len(runs') = n + 1
      /\ \A i \in 1..n : runs'[i] = runs[i]
      /\ GoesOn(runs[n + 1], runs'[n + 1])
      /\ Happened(runs'[n + 1]) = Happened(runs[n + 1]) + size
  <2>1. Len(runs') = Len(runs)
    BY DEF LastGoesOn
  <2>2. \A i \in 1..n : i \in 1..Len(runs) /\ i # Len(runs)
    BY <1>n
  <2> QED BY <1>n, <2>1, <2>2 DEF LastGoesOn
<1>1. /\ \A k \in 0..n : Since(k)' = Since(k)
      /\ Since(n + 1)' = Since(n) + Happened(runs'[n + 1])
  <2>1. n + 1 = Len(runs') /\ n <= Len(runs)
    BY <1>0
  <2> QED BY <1>0, <2>1, SinceMore
<1>2. Since(n + 1) = Since(n) + Happened(runs[n + 1])
  BY <1>0, SinceLast
<1>3. m \in Nat /\ Since(n) \in Nat /\ Since(n + 1) \in Nat /\ Happened(runs[n + 1]) \in Nat
  <2>1. n \in 0..Len(runs) /\ n + 1 \in 0..Len(runs) /\ n + 1 \in 1..Len(runs)
    BY <1>0
  <2>2. IsCounted(runs[n + 1])
    BY <2>1 DEF HistoryInv
  <2> QED BY <2>1, <2>2, FirstKnown, SinceIsNat, HappenedCounted
<1>4. /\ size \in Nat /\ memory'.entries \in Seq(EntryTypes)
      /\ Len(memory'.entries) = Len(memory.entries) + size
      /\ \A k \in 1..Len(memory.entries) : memory'.entries[k] = memory.entries[k]
  BY DEF Grows
<1>5. Len(memory.entries) = m + Since(n + 1) /\ \A k \in 1..m : memory.entries[k] = FirstEntries[k]
  BY <1>0 DEF EntriesInv
<1>6. Len(memory'.entries) = m + Since(n + 1)'
  BY <1>0, <1>1, <1>2, <1>3, <1>4, <1>5
<1>7. \A k \in 1..m : memory'.entries[k] = FirstEntries[k]
  <2> HIDE DEF m
  <2>1. \A k \in 1..m : k \in 1..Len(memory.entries)
    BY <1>3, <1>5
  <2> QED BY <1>4, <1>5, <2>1
<1>8. ASSUME NEW i \in 1..n + 1
      PROVE  runs'[i].recalled = runs[i].recalled /\ runs'[i].prompt = runs[i].prompt
  <2>1. CASE i \in 1..n
    BY <1>0, <2>1
  <2>2. CASE i = n + 1
    BY <1>0, <2>2 DEF GoesOn
  <2> QED BY <1>0, <2>1, <2>2
<1>9. ASSUME NEW i \in 1..n + 1
      PROVE  /\ runs'[i].recalled = m + Since(i - 1)'
             /\ runs'[i].recalled \in 0..Len(memory'.entries)
             /\ \A j \in 1..i : runs'[j].recalled <= runs'[i].recalled
             /\ runs'[i].prompt.insights =
                  {k \in 1..runs'[i].recalled : /\ k > runs'[i].recalled - WorkingEntries
                                                /\ memory'.entries[k] = "insight"}
  <2>1. runs'[i].recalled = m + Since(i - 1)'
    <3>1. i - 1 \in 0..n /\ runs[i].recalled = m + Since(i - 1)
      BY <1>0 DEF EntriesInv
    <3> QED BY <1>1, <1>8, <3>1
  <2>2. \A j \in 1..i : runs'[j].recalled <= runs'[i].recalled
    <3>1. \A j \in 1..i : j \in 1..n + 1 /\ runs[j].recalled <= runs[i].recalled
      BY <1>0 DEF EntriesInv
    <3> QED BY <1>8, <3>1
  <2>3. i \in 1..Len(runs) /\ runs'[i].recalled = runs[i].recalled /\ runs'[i].prompt = runs[i].prompt
    BY <1>0, <1>8
  <2>4. /\ runs'[i].recalled \in 0..Len(memory'.entries)
        /\ runs'[i].prompt.insights =
             {k \in 1..runs'[i].recalled : /\ k > runs'[i].recalled - WorkingEntries
                                           /\ memory'.entries[k] = "insight"}
    BY <2>3, PromptsKept
  <2> QED BY <2>1, <2>2, <2>4
<1> HIDE DEF m
<1> QED
  BY <1>0, <1>4, <1>6, <1>7, <1>9 DEF EntriesInv, m

LEMMA BeginEntries ==
    ASSUME HistoryInv, HistoryInv', SessionsInv, EntriesInv, BeginStep
    PROVE  EntriesInv'
<1> DEFINE m == Len(FirstEntries)
           r == NewRun(Head(todo), ag')
<1>n. PICK n : n = Len(runs)
  OBVIOUS
<1>1. OneMore(r)
  BY BeginRuns
<1>2. /\ Happened(r) = 0 /\ r.recalled = Len(memory.entries)
      /\ r.prompt.insights = WorkingContext(memory.entries, WorkingEntries)
  BY DEF NewRun, Happened, NoResult, Prompt
<1> HIDE DEF r
<1>3. memory'.entries = memory.entries
  <2>1. memory = [session |-> memory.session, entries |-> memory.entries,
                  summaries |-> memory.summaries]
    BY DEF SessionsInv, IsMemory
  <2>2. memory' = [memory EXCEPT !.session = Len(sessions')]
    BY DEF BeginStep
  <2>3. memory' = [session |-> Len(sessions'), entries |-> memory.entries,
                   summaries |-> memory.summaries]
    BY <2>1, <2>2
  <2> QED BY <2>3
<1>4. /\ n \in Nat /\ Len(runs') = n + 1 /\ runs'[n + 1] = r
      /\ \A i \in 1..n : runs'[i] = runs[i]
  BY <1>n, <1>1 DEF OneMore
<1>5. memory.entries \in Seq(EntryTypes) /\ Len(memory.entries) \in Nat /\ m \in Nat
      /\ Len(memory.entries) = m + Since(n)
      /\ DOMAIN memory.entries = 1..Len(memory.entries)
  BY <1>n, FirstKnown, LenProperties DEF EntriesInv
<1>6. n \in 0..Len(runs)
  BY <1>n, <1>4
<1>7. Since(n) \in Nat
  BY <1>6, SinceIsNat
<1>8. n <= Len(runs) /\ Len(runs) = n /\ n + 1 = Len(runs')
  BY <1>n, <1>4
<1>9. (\A k \in 0..n : Since(k)' = Since(k)) /\ Since(n + 1)' = Since(n) + Happened(r)
  <2>1. /\ \A k \in 0..n : Since(k)' = Since(k)
        /\ Since(n + 1)' = Since(n) + Happened(runs'[n + 1])
    BY <1>4, <1>8, SinceMore
  <2> QED BY <1>4, <2>1
<1>10. Len(memory'.entries) = m + Since(n + 1)'
  BY <1>2, <1>3, <1>5, <1>7, <1>9
<1>11. r.prompt.insights = {k \in 1..r.recalled : /\ k > r.recalled - WorkingEntries
                                                  /\ memory'.entries[k] = "insight"}
  <2>1. r.prompt.insights = {k \in 1..Len(memory.entries) : /\ k > Len(memory.entries) - WorkingEntries
                                                            /\ memory.entries[k] = "insight"}
    BY <1>2, <1>5 DEF WorkingContext, Search, Insights
  <2> QED BY <1>2, <1>3, <2>1
<1>12. ASSUME NEW i \in 1..n
       PROVE  /\ runs[i].recalled = m + Since(i - 1)
              /\ runs[i].recalled \in 0..Len(memory.entries)
              /\ \A j \in 1..i : runs[j].recalled <= runs[i].recalled
              /\ runs[i].prompt.insights =
                   {k \in 1..runs[i].recalled : /\ k > runs[i].recalled - WorkingEntries
                                                /\ memory.entries[k] = "insight"}
  BY <1>8 DEF EntriesInv
<1>13. ASSUME NEW i \in 1..n + 1
       PROVE  /\ runs'[i].recalled = m + Since(i - 1)'
              /\ runs'[i].recalled \in 0..Len(memory'.entries)
              /\ \A j \in 1..i : runs'[j].recalled <= runs'[i].recalled
              /\ runs'[i].prompt.insights =
                   {k \in 1..runs'[i].recalled : /\ k > runs'[i].recalled - WorkingEntries
                                                 /\ memory'.entries[k] = "insight"}
  <2>1. CASE i \in 1..n
    <3>1. runs'[i] = runs[i] /\ i - 1 \in 0..n /\ \A j \in 1..i : j \in 1..n /\ runs'[j] = runs[j]
      BY <1>4, <2>1
    <3> QED BY <1>3, <1>9, <1>12, <2>1, <3>1
  <2>2. CASE i = n + 1
    <3>1. runs'[i] = r /\ i - 1 = n /\ n \in 0..n
      BY <1>4, <2>2
    <3>2. r.recalled = m + Since(i - 1)'
      BY <1>2, <1>5, <1>9, <3>1
    <3>3. ASSUME NEW j \in 1..i PROVE runs'[j].recalled <= r.recalled
      <4>1. CASE j \in 1..n
        BY <1>2, <1>4, <1>5, <1>12, <4>1
      <4>2. CASE j = n + 1
        BY <1>2, <1>4, <1>5, <4>2
      <4> QED BY <1>4, <2>2, <4>1, <4>2
    <3>4. r.recalled \in 0..Len(memory'.entries)
      BY <1>2, <1>3, <1>5
    <3> QED BY <1>11, <3>1, <3>2, <3>3, <3>4
  <2> QED BY <1>4, <2>1, <2>2
<1>14. \A k \in 1..m : memory'.entries[k] = FirstEntries[k]
  BY <1>3 DEF EntriesInv
<1> HIDE DEF m
<1> QED
  BY <1>3, <1>4, <1>5, <1>10, <1>13, <1>14 DEF EntriesInv, m

LEMMA NextEntries ==
    HistoryInv /\ HistoryInv' /\ SessionsInv /\ EntriesInv /\ [Next]_vars => EntriesInv'
<1> SUFFICES ASSUME HistoryInv, HistoryInv', SessionsInv, EntriesInv, [Next]_vars PROVE EntriesInv'
  OBVIOUS
<1>1. ASSUME UNCHANGED <<runs, memory>> PROVE EntriesInv'
  <2>1. \A n \in Int : Since(n)' = Since(n)
    BY <1>1 DEF Since
  <2>2. Len(runs) \in Int /\ \A i \in 1..Len(runs) : i - 1 \in Int
    BY LenProperties DEF HistoryInv, ModelsInv, RunsInv
  <2>3. Since(Len(runs))' = Since(Len(runs))
    BY <1>1 DEF Since
  <2> QED BY <1>1, <2>1, <2>2, <2>3 DEF EntriesInv
<1>2. ASSUME NEW a, NEW ref, SwitchModel(a, ref) PROVE EntriesInv'
  BY <1>1, <1>2 DEF SwitchModel
<1>3. ASSUME NEW steps, RunPipeline(steps) PROVE EntriesInv'
  BY <1>1, <1>3 DEF RunPipeline
<1>4. CASE EndPipeline
  BY <1>1, <1>4 DEF EndPipeline
<1>5. CASE BeginStep
  BY <1>5, BeginEntries
<1>6. CASE UNCHANGED vars
  BY <1>1, <1>6 DEF vars
<1>7. memory = [session |-> memory.session, entries |-> memory.entries,
                summaries |-> memory.summaries]
  BY DEF SessionsInv, IsMemory
<1>8. memory.entries \in Seq(EntryTypes)
  BY DEF EntriesInv
<1>9. ASSUME NEW x, memory' = [memory EXCEPT !.entries = x]
      PROVE  memory'.entries = x
  <2>1. memory' = [session |-> memory.session, entries |-> x, summaries |-> memory.summaries]
    BY <1>7, <1>9
  <2> QED BY <2>1
<1>10. ASSUME Active, NEW end, NEW more, LastGoesOn(end, more)
       PROVE  /\ IsCounted(runs[Len(runs)])
              /\ runs[Len(runs)].end = "running" /\ runs[Len(runs)].result = result
              /\ runs'[Len(runs)].end = end
              /\ runs'[Len(runs)].compactions = runs[Len(runs)].compactions + more
  <2>1. /\ Len(runs) # 0 /\ runs[Len(runs)].end = "running" /\ runs[Len(runs)].result = result
        /\ Len(runs) \in Nat \ {0}
    BY <1>10 DEF HistoryInv, LastGoesOn
  <2>2. Len(runs) \in 1..Len(runs)
    BY <2>1
  <2>3. IsCounted(runs[Len(runs)])
    BY <2>2 DEF HistoryInv
  <2> QED BY <1>10, <2>1, <2>3 DEF LastGoesOn
<1>11. ASSUME NEW turn \in Turns, NEW compacted \in BOOLEAN, Turn(turn, compacted)
       PROVE  EntriesInv'
  <2> DEFINE noted == Noted(compacted, 1 + Results(turn))
             more == IF compacted THEN 1 ELSE 0
             last == runs[Len(runs)]
             now == runs'[Len(runs)]
  <2>1. /\ memory' = [memory EXCEPT !.entries = memory.entries \o noted] /\ Active
        /\ result' = [steps |-> result.steps + 1, calls |-> result.calls + Results(turn),
                      finished |-> turn = <<>>]
    BY <1>11 DEF Turn, Active
  <2>2. LastGoesOn("running", more) /\ now.result = result'
    BY <1>11, TurnRuns
  <2>3. Results(turn) \in Nat /\ 1 + Results(turn) \in Nat
    BY ResultsCounted
  <2>4. noted \in Seq(EntryTypes) /\ Len(noted) = 1 + Results(turn) + more
    BY <2>3, NotedLength
  <2> HIDE DEF noted
  <2>5. memory'.entries = memory.entries \o noted
    BY <1>9, <2>1
  <2>6. Grows(Len(noted))
    BY <1>8, <2>4, <2>5, ConcatGrows
  <2>7. /\ IsCounted(last) /\ last.end = "running" /\ last.result = result
        /\ now.end = "running" /\ now.compactions = last.compactions + more
    BY <1>10, <2>1, <2>2
  <2> HIDE DEF last, now
  <2>8. Happened(now) = Happened(last) + Len(noted)
    <3>1. result.steps \in Nat /\ result.calls \in Nat /\ last.compactions \in Nat /\ more \in Nat
      BY <2>7 DEF IsCounted
    <3>2. Happened(last) = result.steps + result.calls + last.compactions
      BY <2>7, <3>1 DEF Happened
    <3>3. Happened(now) = (result.steps + 1) + (result.calls + Results(turn)) + (last.compactions + more)
      <4>1. now.result.steps = result.steps + 1 /\ now.result.calls = result.calls + Results(turn)
        BY <2>1, <2>2
      <4> HIDE DEF more
      <4> QED BY <2>3, <2>7, <3>1, <4>1 DEF Happened
    <3> HIDE DEF more
    <3>4. last.compactions + more \in Nat
      BY <3>1
    <3>5. ASSUME NEW s \in Nat, NEW c \in Nat, NEW d \in Nat, NEW r \in Nat, NEW e \in Nat
          PROVE  (s + 1) + (c + r) + (d + e) = (s + c + d) + (1 + r + e)
      OBVIOUS
    <3>6. Happened(now) = (result.steps + result.calls + last.compactions) + (1 + Results(turn) + more)
      BY <2>3, <3>1, <3>3, <3>5
    <3> QED BY <2>4, <3>2, <3>6, Zenon
  <2> QED BY <2>2, <2>6, <2>8, LastAdds DEF last, now
<1>12. ASSUME NEW compacted \in BOOLEAN, Fails(compacted) PROVE EntriesInv'
  <2> DEFINE noted == Noted(compacted, 0)
             more == IF compacted THEN 1 ELSE 0
             last == runs[Len(runs)]
             now == runs'[Len(runs)]
  <2>1. memory' = [memory EXCEPT !.entries = memory.entries \o noted] /\ Active
    BY <1>12 DEF Fails, Active
  <2>2. LastGoesOn("failed", more) /\ now.result = result
    BY <1>12, FailRuns
  <2>4. noted \in Seq(EntryTypes) /\ Len(noted) = 0 + more
    BY NotedLength
  <2> HIDE DEF noted
  <2>5. memory'.entries = memory.entries \o noted
    BY <1>9, <2>1
  <2>6. Grows(Len(noted))
    BY <1>8, <2>4, <2>5, ConcatGrows
  <2>7. /\ IsCounted(last) /\ last.end = "running" /\ last.result = result
        /\ now.end = "failed" /\ now.compactions = last.compactions + more
    BY <1>10, <2>1, <2>2
  <2> HIDE DEF last, now
  <2>8. Happened(now) = Happened(last) + Len(noted)
    <3>1. result.steps \in Nat /\ result.calls \in Nat /\ last.compactions \in Nat /\ more \in Nat
      BY <2>7 DEF IsCounted
    <3>2. Happened(last) = result.steps + result.calls + last.compactions
      BY <2>7, <3>1 DEF Happened
    <3> HIDE DEF more
    <3>3. Happened(now) = result.steps + result.calls + (last.compactions + more)
      BY <2>2, <2>7, <3>1 DEF Happened
    <3> QED BY <2>4, <3>1, <3>2, <3>3
  <2> QED BY <2>2, <2>6, <2>8, LastAdds DEF last, now
<1>13. CASE Conclude
  <2> DEFINE last == runs[Len(runs)]
             now == runs'[Len(runs)]
  <2>1. memory' = [memory EXCEPT !.summaries = Append(@, ag.session),
                                 !.entries = Append(@, "session_summary")] /\ Active
    BY <1>13 DEF Conclude, Active
  <2>2. LastGoesOn("ended", 0) /\ now.result = result
    BY <1>13, ConcludeRuns
  <2>3. memory'.entries = Append(memory.entries, "session_summary")
    <3> DEFINE half == [memory EXCEPT !.summaries = Append(@, ag.session)]
    <3>1. memory' = [half EXCEPT !.entries = Append(@, "session_summary")]
      BY <2>1, Zenon
    <3>2. half = [session |-> memory.session, entries |-> memory.entries,
                  summaries |-> Append(memory.summaries, ag.session)]
      BY <1>7
    <3> HIDE DEF half
    <3>3. half.entries = memory.entries
      BY <3>2
    <3>4. memory' = [session |-> memory.session, entries |-> Append(half.entries, "session_summary"),
                     summaries |-> Append(memory.summaries, ag.session)]
      BY <3>1, <3>2
    <3> QED BY <3>3, <3>4
  <2>4. Grows(1)
    <3>1. "session_summary" \in EntryTypes
      BY DEF EntryTypes
    <3> QED BY <1>8, <2>3, <3>1, AppendProperties DEF Grows
  <2>5. /\ IsCounted(last) /\ last.end = "running" /\ last.result = result
        /\ now.end = "ended" /\ now.compactions = last.compactions + 0
    BY <1>10, <2>1, <2>2
  <2> HIDE DEF last, now
  <2>6. Happened(now) = Happened(last) + 1
    <3>1. result.steps \in Nat /\ result.calls \in Nat /\ last.compactions \in Nat
      BY <2>5 DEF IsCounted
    <3>2. Happened(last) = result.steps + result.calls + last.compactions
      BY <2>5, <3>1 DEF Happened
    <3>3. Happened(now) = result.steps + result.calls + last.compactions + 1
      BY <2>2, <2>5, <3>1 DEF Happened
    <3> QED BY <3>1, <3>2, <3>3
  <2> QED BY <2>2, <2>4, <2>6, LastAdds DEF last, now
<1> QED
  BY <1>2, <1>3, <1>4, <1>5, <1>6, <1>11, <1>12, <1>13 DEF Next

\* What a prompt shows of the insights of earlier sessions is what has not been
\* pushed out by the number of entries that came since, whatever made them, and
\* no prompt shows again what an earlier one no longer did.
THEOREM InsightsAlwaysForgotten == Spec => []InsightsForgottenByRank
<1> DEFINE Inv == HistoryInv /\ FailuresInv /\ SessionsInv /\ EntriesInv
<1>1. Inv => InsightsForgottenByRank
  <2> SUFFICES ASSUME Inv, NEW i \in 1..Len(runs)
               PROVE  /\ runs[i].prompt.insights \cap DOMAIN FirstEntries =
                           {k \in Insights(FirstEntries) :
                              Len(FirstEntries) - k + Since(i - 1) < WorkingEntries}
                      /\ \A j \in 1..(i - 1) :
                           runs[i].prompt.insights \cap 1..runs[j].recalled \subseteq
                             runs[j].prompt.insights
    <3>1. DOMAIN runs = 1..Len(runs)
      BY LenProperties DEF HistoryInv, ModelsInv, RunsInv
    <3> QED BY <3>1 DEF InsightsForgottenByRank, Since
  <2>0. Len(runs) \in Nat /\ WorkingEntries \in Nat
    BY LenProperties, PipelineAssumption DEF HistoryInv, ModelsInv, RunsInv
  <2> DEFINE m == Len(FirstEntries)
             since == Since(i - 1)
             known == runs[i].recalled
  <2>1. m \in Nat /\ DOMAIN FirstEntries = 1..m
    BY FirstKnown, LenProperties
  <2>2. since \in Nat
    <3>1. i - 1 \in 0..Len(runs)
      BY <2>0
    <3> QED BY <3>1, SinceIsNat
  <2>3. /\ known = m + since
        /\ runs[i].prompt.insights = {k \in 1..known : /\ k > known - WorkingEntries
                                                       /\ memory.entries[k] = "insight"}
        /\ \A k \in 1..m : memory.entries[k] = FirstEntries[k]
    BY DEF EntriesInv
  <2>4. ASSUME NEW j \in 1..(i - 1)
        PROVE  runs[i].prompt.insights \cap 1..runs[j].recalled \subseteq runs[j].prompt.insights
    <3>1. j \in 1..Len(runs) /\ j \in 1..i
      BY <2>0
    <3> DEFINE earlier == runs[j].recalled
    <3>2. /\ earlier <= known /\ earlier \in 0..Len(memory.entries)
          /\ runs[j].prompt.insights = {k \in 1..earlier : /\ k > earlier - WorkingEntries
                                                           /\ memory.entries[k] = "insight"}
      BY <3>1 DEF EntriesInv
    <3>3. known \in Nat /\ earlier \in Nat
      BY <2>1, <2>2, <2>3, <3>2
    <3> HIDE DEF earlier, known
    <3>4. ASSUME NEW k \in runs[i].prompt.insights, k \in 1..earlier
          PROVE  k \in runs[j].prompt.insights
      <4>1. k > known - WorkingEntries /\ memory.entries[k] = "insight"
        BY <2>3, <3>4
      <4>2. k > earlier - WorkingEntries
        BY <2>0, <3>2, <3>3, <3>4, <4>1
      <4> QED BY <3>2, <3>4, <4>1, <4>2
    <3> QED BY <3>4 DEF earlier
  <2> HIDE DEF m, since, known
  <2>5. \A k \in 1..m : k \in 1..known /\ (k > known - WorkingEntries <=> m - k + since < WorkingEntries)
    BY <2>0, <2>1, <2>2, <2>3
  <2>6. runs[i].prompt.insights \cap (1..m) =
          {k \in 1..m : FirstEntries[k] = "insight" /\ m - k + since < WorkingEntries}
    BY <2>3, <2>5
  <2>7. Insights(FirstEntries) = {k \in 1..m : FirstEntries[k] = "insight"}
    BY <2>1 DEF Insights
  <2>8. runs[i].prompt.insights \cap DOMAIN FirstEntries =
          {k \in Insights(FirstEntries) : m - k + since < WorkingEntries}
    BY <2>1, <2>6, <2>7
  <2> QED BY <2>4, <2>8 DEF m, since
<1>2. Init => Inv
  BY InitHistory, InitFailures, InitSessions, InitEntries
<1>3. Inv /\ [Next]_vars => Inv'
  BY NextHistory, NextFailures, NextSessions, NextEntries
<1> HIDE DEF Inv
<1> QED
  BY <1>1, <1>2, <1>3, PTL DEF Spec

-----------------------------------------------------------------------------
(* Means.                                                                   *)

\* The fraction is the mean of n naturals with this sum, and 0 if there is none.
IsMean(mean, n, sum) ==
    /\ mean.num \in Nat /\ mean.den \in Nat \ {0} /\ n \in Nat /\ sum \in Nat
    /\ mean.num * n = sum * mean.den
    /\ n = 0 => mean.num = 0 /\ sum = 0

LEMMA Products ==
    ASSUME NEW a \in Nat, NEW b \in Nat, NEW c \in Nat
    PROVE  /\ a * b \in Nat /\ a * b = b * a
           /\ (a + b) * c = a * c + b * c
           /\ (a * b) * c = a * (b * c)
<1>1. a * b \in Nat
  OBVIOUS
<1>2. a * b = b * a
  OBVIOUS
<1>3. (a + b) * c = a * c + b * c
  OBVIOUS
<1>4. (a * b) * c = a * (b * c)
  OBVIOUS
<1> QED
  BY <1>1, <1>2, <1>3, <1>4

LEMMA PositiveProduct ==
    ASSUME NEW a \in Nat \ {0}, NEW b \in Nat \ {0}
    PROVE  a * b \in Nat \ {0}
  OBVIOUS

LEMMA LessTimes ==
    ASSUME NEW a \in Nat, NEW b \in Nat, NEW c \in Nat \ {0}
    PROVE  a < b <=> a * c < b * c
  OBVIOUS

\* One value more.
LEMMA MeanMore ==
    ASSUME NEW mean, NEW n, NEW sum, IsMean(mean, n, sum), NEW v \in Nat
    PROVE  IsMean(MeanWith(mean, n + 1, v), n + 1, sum + v)
<1> DEFINE x == mean.num
           d == mean.den
           y == x * n + v * d
           e == d * (n + 1)
           after == MeanWith(mean, n + 1, v)
<1>1. x \in Nat /\ d \in Nat \ {0} /\ n \in Nat /\ sum \in Nat /\ x * n = sum * d
  BY DEF IsMean
<1>2. after.num = y /\ after.den = e
  <2>1. (n + 1) - 1 = n
    BY <1>1
  <2>2. after = [num |-> x * n + v * d, den |-> d * (n + 1)]
    BY <2>1 DEF MeanWith
  <2> QED BY <2>2
<1> HIDE DEF x, d, after
<1>3. y = (sum + v) * d
  BY <1>1, Products
<1>4. y \in Nat /\ e \in Nat \ {0}
  BY <1>1, Products, PositiveProduct
<1>5. y * (n + 1) = (sum + v) * e
  <2>1. sum + v \in Nat /\ d \in Nat /\ n + 1 \in Nat
    BY <1>1
  <2>2. ((sum + v) * d) * (n + 1) = (sum + v) * (d * (n + 1))
    BY <2>1, Products
  <2> QED BY <1>3, <2>2
<1> HIDE DEF y, e
<1> QED
  BY <1>1, <1>2, <1>4, <1>5 DEF IsMean, after

\* What a mean is compared with.
LEMMA MeanAbove ==
    ASSUME NEW mean, NEW n, NEW sum, IsMean(mean, n, sum), NEW M \in Nat
    PROVE  mean.num > M * mean.den <=> sum > M * n
<1> DEFINE x == mean.num
           d == mean.den
<1>1. x \in Nat /\ d \in Nat \ {0} /\ n \in Nat /\ sum \in Nat /\ x * n = sum * d
  BY DEF IsMean
<1>2. n = 0 => x = 0 /\ sum = 0
  BY DEF IsMean
<1> HIDE DEF x, d
<1>3. M * d \in Nat /\ M * n \in Nat
  BY <1>1, Products
<1>4. CASE n = 0
  <2>1. x = 0 /\ sum = 0 /\ M * n = 0
    BY <1>2, <1>4
  <2> QED BY <1>1, <1>3, <2>1 DEF x, d
<1>5. CASE n # 0
  <2>1. M * d < x <=> (M * d) * n < x * n
    BY <1>1, <1>3, <1>5, LessTimes
  <2>2. M * n < sum <=> (M * n) * d < sum * d
    BY <1>1, <1>3, LessTimes
  <2>3. (M * d) * n = (M * n) * d
    <3>1. (M * d) * n = M * (d * n) /\ (M * n) * d = M * (n * d) /\ d * n = n * d
      BY <1>1, Products
    <3> QED BY <3>1
  <2>4. M * d < x <=> M * n < sum
    BY <1>1, <2>1, <2>2, <2>3
  <2> QED BY <1>1, <1>3, <2>4 DEF x, d
<1> QED
  BY <1>4, <1>5

LEMMA MeanBelowHalf ==
    ASSUME NEW mean, NEW n, NEW sum, IsMean(mean, n, sum), n # 0
    PROVE  2 * mean.num < mean.den <=> 2 * sum < n
<1> DEFINE x == mean.num
           d == mean.den
<1>1. x \in Nat /\ d \in Nat \ {0} /\ n \in Nat \ {0} /\ sum \in Nat /\ x * n = sum * d
  BY DEF IsMean
<1> HIDE DEF x, d
<1>2. 2 * x \in Nat /\ 2 * sum \in Nat
  BY <1>1
<1>3. 2 * x < d <=> (2 * x) * n < d * n
  BY <1>1, <1>2, LessTimes
<1>4. 2 * sum < n <=> (2 * sum) * d < n * d
  BY <1>1, <1>2, LessTimes
<1>5. (2 * x) * n = (2 * sum) * d /\ d * n = n * d
  <2>1. (2 * x) * n = 2 * (x * n) /\ (2 * sum) * d = 2 * (sum * d) /\ d * n = n * d
    BY <1>1, Products
  <2> QED BY <1>1, <2>1
<1> QED
  BY <1>3, <1>4, <1>5 DEF x, d

-----------------------------------------------------------------------------
(* An agent's recorded runs.                                                *)

Own(list, a, k) == list[k].ran.name = a /\ list[k].end = "ended"

CountOf(list, a, n) == Cardinality({k \in 1..n : Own(list, a, k)})

FinishedOf(list, a, n) == Cardinality({k \in 1..n : Own(list, a, k) /\ list[k].result.finished})

StepsOf(list, a, n) == Total([k \in 1..n |-> IF Own(list, a, k) THEN list[k].result.steps ELSE 0], n)

LEMMA CountIf ==
    ASSUME NEW n \in Nat, NEW S, NEW T, S \subseteq 1..n, T \subseteq 1..n + 1,
           \A k \in 1..n : k \in S <=> k \in T
    PROVE  /\ Cardinality(S) \in Nat
           /\ Cardinality(T) = IF n + 1 \in T THEN Cardinality(S) + 1 ELSE Cardinality(S)
<1>1. S = (1..n) \cap T /\ T = (1..n + 1) \cap T
  OBVIOUS
<1>2. /\ Cardinality((1..n) \cap T) \in Nat
      /\ Cardinality((1..n + 1) \cap T) =
           IF n + 1 \in T THEN Cardinality((1..n) \cap T) + 1 ELSE Cardinality((1..n) \cap T)
  BY CountUpTo
<1> QED
  BY <1>1, <1>2

LEMMA NoneRecorded ==
    ASSUME NEW list, NEW a
    PROVE  CountOf(list, a, 0) = 0 /\ FinishedOf(list, a, 0) = 0 /\ StepsOf(list, a, 0) = 0
<1>1. {k \in 1..0 : Own(list, a, k)} = {} /\ {k \in 1..0 : Own(list, a, k) /\ list[k].result.finished} = {}
  OBVIOUS
<1>2. StepsOf(list, a, 0) = 0
  BY TotalOfNone DEF StepsOf
<1> QED
  BY <1>1, <1>2, FS_EmptySet DEF CountOf, FinishedOf

\* One run more counts if it is the agent's and has ended.
LEMMA OneCounted ==
    ASSUME NEW list, NEW a, NEW n \in Nat, \A k \in 1..n + 1 : IsCounted(list[k])
    PROVE  /\ CountOf(list, a, n) \in Nat /\ FinishedOf(list, a, n) \in Nat /\ StepsOf(list, a, n) \in Nat
           /\ ~Own(list, a, n + 1) => /\ CountOf(list, a, n + 1) = CountOf(list, a, n)
                                /\ FinishedOf(list, a, n + 1) = FinishedOf(list, a, n)
                                /\ StepsOf(list, a, n + 1) = StepsOf(list, a, n)
           /\ Own(list, a, n + 1) =>
                /\ CountOf(list, a, n + 1) = CountOf(list, a, n) + 1
                /\ FinishedOf(list, a, n + 1) =
                     FinishedOf(list, a, n) + (IF list[n + 1].result.finished THEN 1 ELSE 0)
                /\ StepsOf(list, a, n + 1) = StepsOf(list, a, n) + list[n + 1].result.steps
<1> DEFINE S == {k \in 1..n : Own(list, a, k)}
           T == {k \in 1..n + 1 : Own(list, a, k)}
           F == {k \in 1..n : Own(list, a, k) /\ list[k].result.finished}
           G == {k \in 1..n + 1 : Own(list, a, k) /\ list[k].result.finished}
           value(k) == IF Own(list, a, k) THEN list[k].result.steps ELSE 0
           f == [k \in 1..n |-> value(k)]
           g == [k \in 1..n + 1 |-> value(k)]
<1>1. /\ Cardinality(S) \in Nat
      /\ Cardinality(T) = IF n + 1 \in T THEN Cardinality(S) + 1 ELSE Cardinality(S)
  <2>1. S \subseteq 1..n /\ T \subseteq 1..n + 1 /\ \A k \in 1..n : k \in S <=> k \in T
    OBVIOUS
  <2> HIDE DEF S, T
  <2> QED BY <2>1, CountIf
<1>2. /\ Cardinality(F) \in Nat
      /\ Cardinality(G) = IF n + 1 \in G THEN Cardinality(F) + 1 ELSE Cardinality(F)
  <2>1. F \subseteq 1..n /\ G \subseteq 1..n + 1 /\ \A k \in 1..n : k \in F <=> k \in G
    OBVIOUS
  <2> HIDE DEF F, G
  <2> QED BY <2>1, CountIf
<1>3. \A k \in 1..n + 1 : value(k) \in Nat
  <2> SUFFICES ASSUME NEW k \in 1..n + 1 PROVE value(k) \in Nat
    OBVIOUS
  <2>1. list[k].result.steps \in Nat
    BY DEF IsCounted
  <2> QED BY <2>1
<1>4. Total(f, n) \in Nat /\ Total(g, n + 1) = Total(f, n) + value(n + 1)
  <2> HIDE DEF value
  <2>1. \A k \in 1..n : f[k] \in Nat /\ f[k] = g[k]
    BY <1>3
  <2>2. (\A k \in 1..n + 1 : g[k] \in Nat) /\ g[n + 1] = value(n + 1)
    BY <1>3
  <2> HIDE DEF f, g
  <2>3. Total(f, n) \in Nat
    BY <2>1, TotalIsNat
  <2>4. Total(f, n) = Total(g, n)
    BY <2>1, TotalSame
  <2>5. Total(g, n + 1) = Total(g, n) + g[n + 1]
    BY <2>2, TotalStep
  <2> QED BY <2>2, <2>3, <2>4, <2>5
<1>5. /\ CountOf(list, a, n) = Cardinality(S) /\ CountOf(list, a, n + 1) = Cardinality(T)
      /\ FinishedOf(list, a, n) = Cardinality(F) /\ FinishedOf(list, a, n + 1) = Cardinality(G)
      /\ StepsOf(list, a, n) = Total(f, n) /\ StepsOf(list, a, n + 1) = Total(g, n + 1)
  BY DEF CountOf, FinishedOf, StepsOf
<1>6. /\ n + 1 \in T <=> Own(list, a, n + 1)
      /\ n + 1 \in G <=> Own(list, a, n + 1) /\ list[n + 1].result.finished
      /\ value(n + 1) = IF Own(list, a, n + 1) THEN list[n + 1].result.steps ELSE 0
  OBVIOUS
<1> HIDE DEF S, T, F, G, f, g, value
<1>7. CountOf(list, a, n) \in Nat /\ FinishedOf(list, a, n) \in Nat /\ StepsOf(list, a, n) \in Nat
  BY <1>1, <1>2, <1>4, <1>5
<1>8. CASE Own(list, a, n + 1)
  <2>1. CountOf(list, a, n + 1) = CountOf(list, a, n) + 1
    BY <1>1, <1>5, <1>6, <1>8
  <2>2. StepsOf(list, a, n + 1) = StepsOf(list, a, n) + list[n + 1].result.steps
    BY <1>4, <1>5, <1>6, <1>8
  <2>3. FinishedOf(list, a, n + 1) = FinishedOf(list, a, n) + (IF list[n + 1].result.finished THEN 1 ELSE 0)
    BY <1>2, <1>5, <1>6, <1>7, <1>8
  <2> QED BY <1>7, <1>8, <2>1, <2>2, <2>3
<1>9. CASE ~Own(list, a, n + 1)
  <2>1. CountOf(list, a, n + 1) = CountOf(list, a, n) /\ FinishedOf(list, a, n + 1) = FinishedOf(list, a, n)
    BY <1>1, <1>2, <1>5, <1>6, <1>9
  <2>2. StepsOf(list, a, n + 1) = StepsOf(list, a, n)
    BY <1>4, <1>5, <1>6, <1>7, <1>9
  <2> QED BY <1>7, <1>9, <2>1, <2>2
<1> QED
  BY <1>8, <1>9

\* What the first runs count for does not depend on later ones.
LEMMA CountsKept ==
    ASSUME NEW list, NEW later, NEW i \in Nat, \A k \in 1..i : later[k] = list[k], NEW a
    PROVE  /\ CountOf(later, a, i) = CountOf(list, a, i)
           /\ FinishedOf(later, a, i) = FinishedOf(list, a, i)
           /\ StepsOf(later, a, i) = StepsOf(list, a, i)
<1>1. \A k \in 1..i : later[k] = list[k]
  OBVIOUS
<1>2. \A k \in 1..i : Own(later, a, k) = Own(list, a, k)
  BY <1>1 DEF Own
<1>3. CountOf(later, a, i) = CountOf(list, a, i)
  <2>1. {k \in 1..i : Own(later, a, k)} = {k \in 1..i : Own(list, a, k)}
    BY <1>2
  <2> QED BY <2>1 DEF CountOf
<1>4. FinishedOf(later, a, i) = FinishedOf(list, a, i)
  <2>1. {k \in 1..i : Own(later, a, k) /\ later[k].result.finished} =
          {k \in 1..i : Own(list, a, k) /\ list[k].result.finished}
    BY <1>1, <1>2
  <2> QED BY <2>1 DEF FinishedOf
<1>5. StepsOf(later, a, i) = StepsOf(list, a, i)
  <2>1. [k \in 1..i |-> IF Own(later, a, k) THEN later[k].result.steps ELSE 0] =
          [k \in 1..i |-> IF Own(list, a, k) THEN list[k].result.steps ELSE 0]
    BY <1>1, <1>2
  <2> QED BY <2>1 DEF StepsOf
<1> QED
  BY <1>3, <1>4, <1>5

RecordsFor(e, a) == Cardinality(sessionsByAgent(e, a))

HasOneMore(e, f, s) == (\E T : e.sessions \in Seq(T)) /\ f.sessions = Append(e.sessions, s)

LEMMA OneRecordMore ==
    ASSUME NEW e, NEW f, NEW s, HasOneMore(e, f, s), NEW a
    PROVE  /\ RecordsFor(e, a) \in Nat
           /\ RecordsFor(f, a) = IF s.agent = a THEN RecordsFor(e, a) + 1 ELSE RecordsFor(e, a)
<1> DEFINE old == e.sessions
           new == f.sessions
           n == Len(old)
           S == sessionsByAgent(e, a)
           U == sessionsByAgent(f, a)
<1>0. PICK T : old \in Seq(T) /\ new = Append(old, s)
  BY DEF HasOneMore
<1> DEFINE V == T \cup {s}
<1>1. old \in Seq(V) /\ s \in V
  <2>1. T \subseteq V
    OBVIOUS
  <2> QED BY <1>0, <2>1, SeqWithin
<1> HIDE DEF V
<1>2. /\ n \in Nat /\ DOMAIN old = 1..n /\ DOMAIN new = 1..n + 1
      /\ \A k \in 1..n : new[k] = old[k]
      /\ new[n + 1] = s
  <2>1. new \in Seq(V) /\ Len(new) = n + 1
        /\ (\A k \in 1..n : new[k] = old[k]) /\ new[n + 1] = s
    BY <1>0, <1>1, AppendProperties
  <2> HIDE DEF new, old
  <2> QED BY <1>1, <2>1, LenProperties
<1>3. S = {k \in 1..n : old[k].agent = a} /\ U = {k \in 1..n + 1 : new[k].agent = a}
  BY <1>2 DEF sessionsByAgent
<1> HIDE DEF n, old, new, S, U
<1>4. /\ S \subseteq 1..n /\ U \subseteq 1..n + 1 /\ (\A k \in 1..n : k \in S <=> k \in U)
      /\ n + 1 \in U <=> s.agent = a
  BY <1>2, <1>3
<1>5. /\ Cardinality(S) \in Nat
      /\ Cardinality(U) = IF n + 1 \in U THEN Cardinality(S) + 1 ELSE Cardinality(S)
  BY <1>2, <1>4, CountIf
<1> QED
  BY <1>4, <1>5 DEF RecordsFor, S, U

\* The tips an agent's prompt had when so many of its runs were recorded.
TipsAsRecorded(list, tips, a, n) ==
    /\ "verify" \in tips <=> CountOf(list, a, n) > FewSessions /\ 2 * FinishedOf(list, a, n) < CountOf(list, a, n)
    /\ "batch" \in tips <=> StepsOf(list, a, n) > ManySteps * CountOf(list, a, n)

\* The statistics have the means of the records there are.
MeansInv ==
    /\ \E T : engine.sessions \in Seq(T)
    /\ \A a \in Agents :
         /\ RecordsFor(engine, a) = CountOf(runs, a, Len(runs))
         /\ IsMean(Profile(engine, a).avgSteps, CountOf(runs, a, Len(runs)), StepsOf(runs, a, Len(runs)))
         /\ IsMean(Profile(engine, a).successRate, CountOf(runs, a, Len(runs)), FinishedOf(runs, a, Len(runs)))

TipsInv ==
    \A i \in 1..Len(runs) : /\ runs[i].ran.name \in Agents
                            /\ TipsAsRecorded(runs, runs[i].prompt.tips, runs[i].ran.name, i - 1)

LEMMA TipsRight ==
    ASSUME MeansInv, NEW a \in Agents
    PROVE  TipsAsRecorded(runs, Tips(engine, a, ManySteps, FewSessions), a, Len(runs))
<1> DEFINE n == Len(runs)
           p == Profile(engine, a)
           count == CountOf(runs, a, n)
           steps == StepsOf(runs, a, n)
           done == FinishedOf(runs, a, n)
           tips == Tips(engine, a, ManySteps, FewSessions)
<1>1. RecordsFor(engine, a) = count /\ IsMean(p.avgSteps, count, steps) /\ IsMean(p.successRate, count, done)
  BY DEF MeansInv
<1>2. ManySteps \in Nat /\ FewSessions \in Nat
  BY PipelineAssumption
<1>3. "batch" \in tips <=> p.avgSteps.num > ManySteps * p.avgSteps.den
  BY DEF Tips
<1>4. "verify" \in tips <=> /\ 2 * p.successRate.num < p.successRate.den
                            /\ RecordsFor(engine, a) > FewSessions
  BY DEF Tips, RecordsFor
<1> HIDE DEF n, p, count, steps, done, tips
<1>5. "batch" \in tips <=> steps > ManySteps * count
  BY <1>1, <1>2, <1>3, MeanAbove
<1>6. "verify" \in tips <=> count > FewSessions /\ 2 * done < count
  <2>1. count \in Nat
    BY <1>1 DEF IsMean
  <2>2. count > FewSessions => count # 0
    BY <1>2, <2>1
  <2>3. count # 0 => (2 * p.successRate.num < p.successRate.den <=> 2 * done < count)
    BY <1>1, MeanBelowHalf
  <2> QED BY <1>1, <1>4, <2>2, <2>3
<1> QED
  BY <1>5, <1>6 DEF TipsAsRecorded, n, count, steps, done, tips

LEMMA InitTips == Init => MeansInv /\ TipsInv
<1> SUFFICES ASSUME Init PROVE MeansInv /\ TipsInv
  OBVIOUS
<1>1. Len(runs) = 0
  BY EmptySeq DEF Init
<1>2. engine.sessions = <<>> /\ engine.profiles = <<>>
  BY DEF Init, NewEngine
<1>3. <<>> \in Seq({}) /\ DOMAIN <<>> = {}
  BY EmptySeq
<1>4. ASSUME NEW a \in Agents
      PROVE  /\ RecordsFor(engine, a) = CountOf(runs, a, 0)
             /\ IsMean(Profile(engine, a).avgSteps, CountOf(runs, a, 0), StepsOf(runs, a, 0))
             /\ IsMean(Profile(engine, a).successRate, CountOf(runs, a, 0), FinishedOf(runs, a, 0))
  <2>1. CountOf(runs, a, 0) = 0 /\ FinishedOf(runs, a, 0) = 0 /\ StepsOf(runs, a, 0) = 0
    BY NoneRecorded
  <2>2. Profile(engine, a) = NewProfile
    BY <1>2, <1>3 DEF Profile
  <2>3. /\ NewProfile.avgSteps.num = 0 /\ NewProfile.avgSteps.den = 1
        /\ NewProfile.successRate.num = 0 /\ NewProfile.successRate.den = 1
    BY DEF NewProfile
  <2>4. RecordsFor(engine, a) = 0
    <3>1. sessionsByAgent(engine, a) = {}
      BY <1>2, <1>3 DEF sessionsByAgent
    <3> QED BY <3>1, FS_EmptySet DEF RecordsFor
  <2> QED BY <2>1, <2>2, <2>3, <2>4 DEF IsMean
<1> QED
  BY <1>1, <1>2, <1>3, <1>4 DEF MeansInv, TipsInv

\* What is counted of an agent's runs is what it was.
SameCounts(a) ==
    /\ CountOf(runs', a, Len(runs')) = CountOf(runs, a, Len(runs))
    /\ FinishedOf(runs', a, Len(runs')) = FinishedOf(runs, a, Len(runs))
    /\ StepsOf(runs', a, Len(runs')) = StepsOf(runs, a, Len(runs))

LEMMA MeansKept ==
    ASSUME MeansInv, SameRecords(engine, engine'), \A a \in Agents : SameCounts(a)
    PROVE  MeansInv'
<1>1. engine'.sessions = engine.sessions
  BY DEF SameRecords
<1>2. ASSUME NEW a \in Agents
      PROVE  /\ RecordsFor(engine', a) = CountOf(runs', a, Len(runs'))
             /\ IsMean(Profile(engine', a).avgSteps, CountOf(runs', a, Len(runs')),
                       StepsOf(runs', a, Len(runs')))
             /\ IsMean(Profile(engine', a).successRate, CountOf(runs', a, Len(runs')),
                       FinishedOf(runs', a, Len(runs')))
  <2>1. /\ Profile(engine', a).avgSteps = Profile(engine, a).avgSteps
        /\ Profile(engine', a).successRate = Profile(engine, a).successRate
    BY DEF SameRecords
  <2>2. RecordsFor(engine', a) = RecordsFor(engine, a)
    BY <1>1 DEF RecordsFor, sessionsByAgent
  <2> QED BY <2>1, <2>2 DEF MeansInv, SameCounts
<1>3. \E T : engine'.sessions \in Seq(T)
  BY <1>1 DEF MeansInv
<1> QED
  BY <1>2, <1>3 DEF MeansInv

\* How the counts change when the run after the first n does: the second part
\* is about the list it is in.
LEMMA CountsChange ==
    ASSUME HistoryInv, HistoryInv', NEW n \in Nat, n <= Len(runs), Len(runs') = n + 1,
           \A k \in 1..n : runs'[k] = runs[k], NEW a
    PROVE  /\ \A i \in 0..n : /\ CountOf(runs', a, i) = CountOf(runs, a, i)
                              /\ FinishedOf(runs', a, i) = FinishedOf(runs, a, i)
                              /\ StepsOf(runs', a, i) = StepsOf(runs, a, i)
           /\ ~Own(runs', a, n + 1) =>
                /\ CountOf(runs', a, n + 1) = CountOf(runs, a, n)
                /\ FinishedOf(runs', a, n + 1) = FinishedOf(runs, a, n)
                /\ StepsOf(runs', a, n + 1) = StepsOf(runs, a, n)
           /\ Own(runs', a, n + 1) =>
                /\ CountOf(runs', a, n + 1) = CountOf(runs, a, n) + 1
                /\ FinishedOf(runs', a, n + 1) =
                     FinishedOf(runs, a, n) + (IF runs'[n + 1].result.finished THEN 1 ELSE 0)
                /\ StepsOf(runs', a, n + 1) = StepsOf(runs, a, n) + runs'[n + 1].result.steps
<1>1. \A i \in 0..n : /\ CountOf(runs', a, i) = CountOf(runs, a, i)
                      /\ FinishedOf(runs', a, i) = FinishedOf(runs, a, i)
                      /\ StepsOf(runs', a, i) = StepsOf(runs, a, i)
  <2> SUFFICES ASSUME NEW i \in 0..n
               PROVE  /\ CountOf(runs', a, i) = CountOf(runs, a, i)
                      /\ FinishedOf(runs', a, i) = FinishedOf(runs, a, i)
                      /\ StepsOf(runs', a, i) = StepsOf(runs, a, i)
    OBVIOUS
  <2>1. i \in Nat /\ \A k \in 1..i : runs'[k] = runs[k]
    OBVIOUS
  <2> QED BY <2>1, CountsKept
<1>2. \A k \in 1..n + 1 : IsCounted(runs'[k])
  BY DEF HistoryInv
<1>3. n \in 0..n
  OBVIOUS
<1>4. /\ ~Own(runs', a, n + 1) =>
                /\ CountOf(runs', a, n + 1) = CountOf(runs', a, n)
                /\ FinishedOf(runs', a, n + 1) = FinishedOf(runs', a, n)
                /\ StepsOf(runs', a, n + 1) = StepsOf(runs', a, n)
      /\ Own(runs', a, n + 1) =>
                /\ CountOf(runs', a, n + 1) = CountOf(runs', a, n) + 1
                /\ FinishedOf(runs', a, n + 1) =
                     FinishedOf(runs', a, n) + (IF runs'[n + 1].result.finished THEN 1 ELSE 0)
                /\ StepsOf(runs', a, n + 1) = StepsOf(runs', a, n) + runs'[n + 1].result.steps
  BY <1>2, OneCounted
<1> QED
  BY <1>1, <1>3, <1>4

LEMMA BeginTips ==
    ASSUME HistoryInv, HistoryInv', MeansInv, TipsInv, BeginStep
    PROVE  MeansInv' /\ TipsInv'
<1> DEFINE r == NewRun(Head(todo), ag')
<1>n. PICK n : n = Len(runs)
  OBVIOUS
<1>1. OneMore(r) /\ ag'.name \in Agents
  BY BeginRuns
<1>2. /\ r.ran = ag' /\ r.end = "running"
      /\ r.prompt.tips = Tips(engine, ag'.name, ManySteps, FewSessions)
  BY DEF NewRun, Prompt
<1> HIDE DEF r
<1>3. /\ n \in Nat /\ Len(runs') = n + 1 /\ n <= Len(runs) /\ runs'[n + 1] = r
      /\ \A k \in 1..n : runs'[k] = runs[k]
  BY <1>n, <1>1 DEF OneMore
<1>4. ASSUME NEW a PROVE SameCounts(a)
  <2>1. ~Own(runs', a, n + 1)
    BY <1>2, <1>3 DEF Own
  <2>2. /\ CountOf(runs', a, n + 1) = CountOf(runs, a, n)
        /\ FinishedOf(runs', a, n + 1) = FinishedOf(runs, a, n)
        /\ StepsOf(runs', a, n + 1) = StepsOf(runs, a, n)
    BY <1>3, <2>1, CountsChange
  <2> QED BY <1>n, <1>3, <2>2 DEF SameCounts
<1>5. SameRecords(engine, engine')
  BY DEF BeginStep, SameRecords
<1>6. MeansInv'
  BY <1>4, <1>5, MeansKept
<1>7. ASSUME NEW i \in 1..n + 1
      PROVE  /\ runs'[i].ran.name \in Agents
             /\ TipsAsRecorded(runs', runs'[i].prompt.tips, runs'[i].ran.name, i - 1)
  <2> DEFINE a == runs'[i].ran.name
  <2>1. i - 1 \in 0..n
    BY <1>3
  <2>2. \A b : /\ CountOf(runs', b, i - 1) = CountOf(runs, b, i - 1)
               /\ FinishedOf(runs', b, i - 1) = FinishedOf(runs, b, i - 1)
               /\ StepsOf(runs', b, i - 1) = StepsOf(runs, b, i - 1)
    BY <1>3, <2>1, CountsChange
  <2>3. CASE i \in 1..n
    <3>1. runs'[i] = runs[i] /\ i \in 1..Len(runs)
      BY <1>n, <1>3, <2>3
    <3> QED BY <2>2, <3>1 DEF TipsInv, TipsAsRecorded
  <2>4. CASE i = n + 1
    <3>1. runs'[i] = r /\ i - 1 = Len(runs)
      BY <1>n, <1>3, <2>4
    <3>2. TipsAsRecorded(runs, r.prompt.tips, ag'.name, Len(runs))
      BY <1>1, <1>2, TipsRight
    <3> QED BY <1>1, <1>2, <2>2, <3>1, <3>2 DEF TipsAsRecorded
  <2> QED BY <1>3, <2>3, <2>4
<1> QED
  BY <1>3, <1>6, <1>7 DEF TipsInv

\* As the last run goes on, the prompts and what they went by stay as they are.
LEMMA LastKeepsTips ==
    ASSUME HistoryInv, HistoryInv', TipsInv, NEW end, NEW more, LastGoesOn(end, more)
    PROVE  TipsInv'
<1>n. PICK n \in Nat : Len(runs) = n + 1
  <2>1. Len(runs) \in Nat \ {0}
    BY DEF LastGoesOn
  <2>2. Len(runs) - 1 \in Nat /\ Len(runs) = (Len(runs) - 1) + 1
    BY <2>1
  <2> QED BY <2>2
<1>1. /\ Len(runs') = n + 1 /\ n <= Len(runs)
      /\ \A k \in 1..n : runs'[k] = runs[k]
  <2>1. \A k \in 1..n : k \in 1..Len(runs) /\ k # Len(runs)
    BY <1>n
  <2> QED BY <1>n, <2>1 DEF LastGoesOn
<1>2. ASSUME NEW i \in 1..n + 1
      PROVE  /\ runs'[i].ran.name \in Agents
             /\ TipsAsRecorded(runs', runs'[i].prompt.tips, runs'[i].ran.name, i - 1)
  <2>1. i - 1 \in 0..n
    OBVIOUS
  <2>2. \A b : /\ CountOf(runs', b, i - 1) = CountOf(runs, b, i - 1)
               /\ FinishedOf(runs', b, i - 1) = FinishedOf(runs, b, i - 1)
               /\ StepsOf(runs', b, i - 1) = StepsOf(runs, b, i - 1)
    BY <1>1, <2>1, CountsChange
  <2>3. runs'[i].ran = runs[i].ran /\ runs'[i].prompt = runs[i].prompt
    <3>1. CASE i \in 1..n
      BY <1>1, <3>1
    <3>2. CASE i = n + 1
      BY <1>n, <3>2 DEF LastGoesOn, GoesOn
    <3> QED BY <3>1, <3>2
  <2>4. i \in 1..Len(runs)
    BY <1>n
  <2> QED BY <2>2, <2>3, <2>4 DEF TipsInv, TipsAsRecorded
<1> QED
  BY <1>1, <1>2 DEF TipsInv

\* A run that goes on or fails is not counted.
LEMMA LastKeepsMeans ==
    ASSUME HistoryInv, HistoryInv', MeansInv, NEW end, NEW more, LastGoesOn(end, more),
           runs[Len(runs)].end # "ended", end # "ended", SameRecords(engine, engine')
    PROVE  MeansInv'
<1>n. PICK n \in Nat : Len(runs) = n + 1
  <2>1. Len(runs) \in Nat \ {0}
    BY DEF LastGoesOn
  <2>2. Len(runs) - 1 \in Nat /\ Len(runs) = (Len(runs) - 1) + 1
    BY <2>1
  <2> QED BY <2>2
<1>1. /\ Len(runs') = n + 1 /\ n <= Len(runs)
      /\ \A k \in 1..n : runs'[k] = runs[k]
      /\ runs'[n + 1].end # "ended" /\ runs[n + 1].end # "ended"
  <2>1. \A k \in 1..n : k \in 1..Len(runs) /\ k # Len(runs)
    BY <1>n
  <2> QED BY <1>n, <2>1 DEF LastGoesOn
<1>2. ASSUME NEW a PROVE SameCounts(a)
  <2>1. ~Own(runs', a, n + 1) /\ ~Own(runs, a, n + 1)
    BY <1>1 DEF Own
  <2>2. /\ CountOf(runs', a, n + 1) = CountOf(runs, a, n)
        /\ FinishedOf(runs', a, n + 1) = FinishedOf(runs, a, n)
        /\ StepsOf(runs', a, n + 1) = StepsOf(runs, a, n)
    BY <1>1, <2>1, CountsChange
  <2>3. \A k \in 1..n + 1 : IsCounted(runs[k])
    BY <1>n DEF HistoryInv
  <2>4. /\ CountOf(runs, a, n + 1) = CountOf(runs, a, n)
        /\ FinishedOf(runs, a, n + 1) = FinishedOf(runs, a, n)
        /\ StepsOf(runs, a, n + 1) = StepsOf(runs, a, n)
    BY <2>1, <2>3, OneCounted
  <2> QED BY <1>n, <1>1, <2>2, <2>4 DEF SameCounts
<1> QED
  BY <1>2, MeansKept

\* A run that has ended is recorded, and its steps and its success are in the
\* means of its agent.
LEMMA ConcludeMeans ==
    ASSUME HistoryInv, HistoryInv', FailuresInv, MeansInv, Conclude
    PROVE  MeansInv'
<1> DEFINE s == Record(ag.name, ag.session, result.steps, result.calls, result.finished)
<1>0. Active
  BY DEF Conclude, Active
<1>n. PICK n \in Nat : Len(runs) = n + 1
  <2>1. Len(runs) \in Nat \ {0}
    BY ConcludeRuns DEF LastGoesOn
  <2>2. Len(runs) - 1 \in Nat /\ Len(runs) = (Len(runs) - 1) + 1
    BY <2>1
  <2> QED BY <2>2
<1>1. /\ Len(runs') = n + 1 /\ n <= Len(runs)
      /\ \A k \in 1..n : runs'[k] = runs[k]
      /\ runs'[n + 1].end = "ended" /\ runs'[n + 1].ran = ag /\ runs'[n + 1].result = result
      /\ runs[n + 1].end = "running"
  <2>1. LastGoesOn("ended", 0) /\ runs'[Len(runs)].result = result
    BY ConcludeRuns
  <2>2. runs[Len(runs)].end = "running" /\ runs[Len(runs)].ran = ag
    BY <1>0 DEF HistoryInv
  <2>3. \A k \in 1..n : k \in 1..Len(runs) /\ k # Len(runs)
    BY <1>n
  <2> QED BY <1>n, <2>1, <2>2, <2>3 DEF LastGoesOn, GoesOn
<1>2. engine' = RecordSession(engine, s)
  BY DEF Conclude
<1>3. /\ s.agent = ag.name /\ s.steps = result.steps
      /\ s.success = result.finished
  BY DEF Record
<1> HIDE DEF s
<1>4. /\ engine'.sessions = Append(engine.sessions, s)
      /\ \A b : b # s.agent => Profile(engine', b) = Profile(engine, b)
      /\ Profile(engine', s.agent).avgSteps =
           MeanWith(Profile(engine, s.agent).avgSteps, RecordsFor(engine', s.agent), s.steps)
      /\ Profile(engine', s.agent).successRate =
           MeanWith(Profile(engine, s.agent).successRate, RecordsFor(engine', s.agent),
                    IF s.success THEN 1 ELSE 0)
  BY <1>2, SessionRecorded DEF FailuresInv, RecordsFor, sessionsByAgent
<1>5. PICK T : engine.sessions \in Seq(T)
  BY DEF MeansInv
<1>6. \A a : RecordsFor(engine', a) = IF s.agent = a THEN RecordsFor(engine, a) + 1
                                                     ELSE RecordsFor(engine, a)
  <2> SUFFICES ASSUME NEW a
               PROVE  RecordsFor(engine', a) = IF s.agent = a THEN RecordsFor(engine, a) + 1
                                                              ELSE RecordsFor(engine, a)
    OBVIOUS
  <2>1. HasOneMore(engine, engine', s)
    BY <1>4, <1>5 DEF HasOneMore
  <2> QED BY <2>1, OneRecordMore
<1>7. \E U : engine'.sessions \in Seq(U)
  <2>1. T \subseteq T \cup {s} /\ s \in T \cup {s}
    OBVIOUS
  <2>2. engine.sessions \in Seq(T \cup {s})
    BY <1>5, <2>1, SeqWithin
  <2>3. engine'.sessions \in Seq(T \cup {s})
    BY <1>4, <2>1, <2>2, AppendProperties
  <2> QED BY <2>3
<1>8. result.steps \in Nat
  <2>1. n + 1 \in 1..Len(runs')
    BY <1>1
  <2>2. IsCounted(runs'[n + 1])
    BY <2>1 DEF HistoryInv
  <2> QED BY <1>1, <2>2 DEF IsCounted
<1>9. ASSUME NEW a \in Agents
      PROVE  /\ RecordsFor(engine', a) = CountOf(runs', a, n + 1)
             /\ IsMean(Profile(engine', a).avgSteps, CountOf(runs', a, n + 1),
                       StepsOf(runs', a, n + 1))
             /\ IsMean(Profile(engine', a).successRate, CountOf(runs', a, n + 1),
                       FinishedOf(runs', a, n + 1))
  <2> DEFINE p == Profile(engine, a)
             q == Profile(engine', a)
             count == CountOf(runs, a, n)
             steps == StepsOf(runs, a, n)
             done == FinishedOf(runs, a, n)
  <2>1. /\ RecordsFor(engine, a) = count /\ IsMean(p.avgSteps, count, steps)
        /\ IsMean(p.successRate, count, done)
    <3>1. ~Own(runs, a, n + 1)
      BY <1>1 DEF Own
    <3>2. \A k \in 1..n + 1 : IsCounted(runs[k])
      BY <1>n DEF HistoryInv
    <3>3. /\ CountOf(runs, a, n + 1) = count
          /\ FinishedOf(runs, a, n + 1) = done
          /\ StepsOf(runs, a, n + 1) = steps
      BY <3>1, <3>2, OneCounted
    <3> QED BY <1>n, <3>3 DEF MeansInv
  <2>2. /\ ~Own(runs', a, n + 1) =>
             /\ CountOf(runs', a, n + 1) = count
             /\ FinishedOf(runs', a, n + 1) = done
             /\ StepsOf(runs', a, n + 1) = steps
        /\ Own(runs', a, n + 1) =>
             /\ CountOf(runs', a, n + 1) = count + 1
             /\ FinishedOf(runs', a, n + 1) = done + (IF runs'[n + 1].result.finished THEN 1 ELSE 0)
             /\ StepsOf(runs', a, n + 1) = steps + runs'[n + 1].result.steps
    BY <1>1, CountsChange
  <2>3. Own(runs', a, n + 1) <=> a = s.agent
    BY <1>1, <1>3 DEF Own
  <2>4. CASE a # s.agent
    <3>1. q = p /\ RecordsFor(engine', a) = RecordsFor(engine, a)
      BY <1>4, <1>6, <2>4
    <3> QED BY <2>1, <2>2, <2>3, <2>4, <3>1
  <2>5. CASE a = s.agent
    <3> DEFINE gain == IF s.success THEN 1 ELSE 0
    <3>1. RecordsFor(engine', a) = count + 1
      BY <1>6, <2>1, <2>5
    <3>2. /\ q.avgSteps = MeanWith(p.avgSteps, count + 1, result.steps)
          /\ q.successRate = MeanWith(p.successRate, count + 1, gain)
      BY <1>3, <1>4, <2>5, <3>1
    <3>3. /\ CountOf(runs', a, n + 1) = count + 1
          /\ FinishedOf(runs', a, n + 1) = done + gain
          /\ StepsOf(runs', a, n + 1) = steps + result.steps
      BY <1>1, <1>3, <2>2, <2>3, <2>5
    <3>4. gain \in Nat
      OBVIOUS
    <3> HIDE DEF gain, p, q, count, steps, done
    <3>5. /\ IsMean(q.avgSteps, count + 1, steps + result.steps)
          /\ IsMean(q.successRate, count + 1, done + gain)
      BY <1>8, <2>1, <3>2, <3>4, MeanMore
    <3> QED BY <3>1, <3>3, <3>5 DEF q
  <2> QED BY <2>4, <2>5
<1> QED
  BY <1>1, <1>7, <1>9 DEF MeansInv

LEMMA NextTips ==
    /\ HistoryInv /\ HistoryInv' /\ FailuresInv /\ MeansInv /\ TipsInv /\ [Next]_vars
    => MeansInv' /\ TipsInv'
<1> SUFFICES ASSUME HistoryInv, HistoryInv', FailuresInv, MeansInv, TipsInv, [Next]_vars
             PROVE  MeansInv' /\ TipsInv'
  OBVIOUS
<1>1. ASSUME UNCHANGED <<runs, engine>> PROVE MeansInv' /\ TipsInv'
  BY <1>1 DEF MeansInv, TipsInv
<1>2. ASSUME NEW a, NEW ref, SwitchModel(a, ref) PROVE MeansInv' /\ TipsInv'
  BY <1>1, <1>2 DEF SwitchModel
<1>3. ASSUME NEW steps, RunPipeline(steps) PROVE MeansInv' /\ TipsInv'
  BY <1>1, <1>3 DEF RunPipeline
<1>4. CASE EndPipeline
  BY <1>1, <1>4 DEF EndPipeline
<1>5. CASE BeginStep
  BY <1>5, BeginTips
<1>6. CASE UNCHANGED vars
  BY <1>1, <1>6 DEF vars
<1>7. Active => runs[Len(runs)].end # "ended"
  BY DEF HistoryInv
<1>8. ASSUME NEW turn \in Turns, NEW compacted \in BOOLEAN, Turn(turn, compacted)
      PROVE  MeansInv' /\ TipsInv'
  <2>1. LastGoesOn("running", IF compacted THEN 1 ELSE 0) /\ Active
    BY <1>8, TurnRuns DEF Turn, Active
  <2>2. SameRecords(engine, engine')
    BY <1>8, TurnTold DEF EngineAfter
  <2>3. MeansInv'
    BY <1>7, <2>1, <2>2, LastKeepsMeans
  <2> QED BY <2>1, <2>3, LastKeepsTips
<1>9. ASSUME NEW compacted \in BOOLEAN, Fails(compacted) PROVE MeansInv' /\ TipsInv'
  <2>1. LastGoesOn("failed", IF compacted THEN 1 ELSE 0) /\ Active
    BY <1>9, FailRuns DEF Fails, Active
  <2>2. SameRecords(engine, engine')
    <3>1. SameRecords(engine, engine)
      BY DEF SameRecords
    <3> QED BY <1>9, <3>1, FailTold DEF EngineAfter
  <2>3. MeansInv'
    BY <1>7, <2>1, <2>2, LastKeepsMeans
  <2> QED BY <2>1, <2>3, LastKeepsTips
<1>10. CASE Conclude
  <2>1. MeansInv'
    BY <1>10, ConcludeMeans
  <2>2. LastGoesOn("ended", 0)
    BY <1>10, ConcludeRuns
  <2> QED BY <2>1, <2>2, LastKeepsTips
<1> QED
  BY <1>2, <1>3, <1>4, <1>5, <1>6, <1>8, <1>9, <1>10 DEF Next

\* The tips of a step's prompt follow from the records of the agent's own steps
\* before it, and from nothing that other agents did.
THEOREM TipsAlwaysFollow == Spec => []TipsFollowRecords
<1> DEFINE Inv == HistoryInv /\ FailuresInv /\ MeansInv /\ TipsInv
<1>1. Inv => TipsFollowRecords
  <2> SUFFICES ASSUME Inv, NEW i \in 1..Len(runs)
               PROVE  TipsAsRecorded(runs, runs[i].prompt.tips, runs[i].ran.name, i - 1)
    <3>1. DOMAIN runs = 1..Len(runs)
      BY LenProperties DEF HistoryInv, ModelsInv, RunsInv
    <3> QED BY <3>1 DEF TipsFollowRecords, TipsAsRecorded, CountOf, FinishedOf, StepsOf, Own
  <2> QED BY DEF TipsInv
<1>2. Init => Inv
  BY InitHistory, InitFailures, InitTips
<1>3. Inv /\ [Next]_vars => Inv'
  BY NextHistory, NextFailures, NextTips
<1> HIDE DEF Inv
<1> QED
  BY <1>1, <1>2, <1>3, PTL DEF Spec

-----------------------------------------------------------------------------
(* The skills.                                                              *)

\* The greatest of some places up to one.
LEMMA MaxUpTo ==
    ASSUME NEW n \in Nat, NEW S, S \subseteq 1..n + 1
    PROVE  n + 1 \in S => Max(S) = n + 1
<1> SUFFICES ASSUME n + 1 \in S PROVE Max(S) = n + 1
  OBVIOUS
<1>1. \A x \in S : n + 1 >= x /\ (x >= n + 1 => x = n + 1)
  OBVIOUS
<1>2. Max(S) = CHOOSE x \in S : \A y \in S : x >= y
  BY DEF Max
<1>3. \E x \in S : \A y \in S : x >= y
  BY <1>1
<1>4. Max(S) \in S /\ \A y \in S : Max(S) >= y
  BY <1>2, <1>3
<1> QED
  BY <1>1, <1>4

\* Where the first of a list of calls mention a skill, and whether the last of
\* them was to load it.
Mentions(list, h, n) == {k \in 1..h : list[k].arg = n /\ list[k].action \in {"load", "unload"}}

ActiveIn(list, h, n) ==
    Mentions(list, h, n) # {} /\ list[Max(Mentions(list, h, n))].action = "load"

LEMMA NoneMentioned ==
    ASSUME NEW list, NEW n
    PROVE  ~ActiveIn(list, 0, n)
<1>1. Mentions(list, 0, n) = {}
  BY DEF Mentions
<1> QED
  BY <1>1 DEF ActiveIn

LEMMA OneMentioned ==
    ASSUME NEW list, NEW h \in Nat, NEW n
    PROVE  ActiveIn(list, h + 1, n) <=>
             IF list[h + 1].arg = n /\ list[h + 1].action \in {"load", "unload"}
             THEN list[h + 1].action = "load" ELSE ActiveIn(list, h, n)
<1> DEFINE S == Mentions(list, h, n)
           T == Mentions(list, h + 1, n)
<1>1. CASE list[h + 1].arg = n /\ list[h + 1].action \in {"load", "unload"}
  <2>1. h + 1 \in T /\ T \subseteq 1..h + 1
    BY <1>1 DEF Mentions
  <2> HIDE DEF T
  <2>2. Max(T) = h + 1 /\ T # {}
    BY <2>1, MaxUpTo
  <2> QED BY <1>1, <2>2 DEF ActiveIn, T
<1>2. CASE ~(list[h + 1].arg = n /\ list[h + 1].action \in {"load", "unload"})
  <2>1. T = S
    BY <1>2 DEF Mentions
  <2> QED BY <1>2, <2>1 DEF ActiveIn
<1> QED
  BY <1>1, <1>2

\* Calls that come later make no difference.
LEMMA MentionsKept ==
    ASSUME NEW list, NEW later, NEW h \in Nat, \A k \in 1..h : later[k] = list[k], NEW n
    PROVE  ActiveIn(later, h, n) <=> ActiveIn(list, h, n)
<1> DEFINE S == Mentions(list, h, n)
<1>1. Mentions(later, h, n) = S
  BY DEF Mentions
<1> DEFINE Good == {i \in 0..h : ActiveIn(later, i, n) <=> ActiveIn(list, i, n)}
<1>2. 0 \in Good
  BY NoneMentioned
<1>3. ASSUME NEW i \in 1..h, i - 1 \in Good PROVE i \in Good
  <2>1. i - 1 \in Nat /\ (i - 1) + 1 = i /\ later[i] = list[i]
    OBVIOUS
  <2>2. ActiveIn(later, i - 1, n) <=> ActiveIn(list, i - 1, n)
    BY <1>3
  <2>3. /\ ActiveIn(later, i, n) <=> IF later[i].arg = n /\ later[i].action \in {"load", "unload"}
                                     THEN later[i].action = "load" ELSE ActiveIn(later, i - 1, n)
        /\ ActiveIn(list, i, n) <=> IF list[i].arg = n /\ list[i].action \in {"load", "unload"}
                                    THEN list[i].action = "load" ELSE ActiveIn(list, i - 1, n)
    <3> DEFINE j == i - 1
    <3>1. j \in Nat /\ j + 1 = i
      BY <2>1
    <3> HIDE DEF j
    <3>2. /\ ActiveIn(later, j + 1, n) <=>
               IF later[j + 1].arg = n /\ later[j + 1].action \in {"load", "unload"}
               THEN later[j + 1].action = "load" ELSE ActiveIn(later, j, n)
          /\ ActiveIn(list, j + 1, n) <=>
               IF list[j + 1].arg = n /\ list[j + 1].action \in {"load", "unload"}
               THEN list[j + 1].action = "load" ELSE ActiveIn(list, j, n)
      BY <3>1, OneMentioned
    <3> QED BY <3>1, <3>2 DEF j
  <2>4. ActiveIn(later, i, n) <=> ActiveIn(list, i, n)
    BY <2>1, <2>2, <2>3
  <2> QED BY <2>4
<1> HIDE DEF Good
<1>4. \A i \in 0..h : i \in Good
  BY <1>2, <1>3, UpTo
<1> QED
  BY <1>4 DEF Good

\* The files of a name among the first ones, and what is known of them.
FilesOf(n, k) == {f \in 1..k : NameOf(SkillFiles[f]) = n}

KnowsFiles(map, k) ==
    /\ DOMAIN map = {NameOf(SkillFiles[f]) : f \in 1..k}
    /\ \A n \in DOMAIN map : map[n] = Skill(SkillFiles[Max(FilesOf(n, k))])

LEMMA OneFileMore ==
    ASSUME NEW map, NEW k \in Nat, KnowsFiles(map, k)
    PROVE  KnowsFiles(Put(map, NameOf(SkillFiles[k + 1]), Skill(SkillFiles[k + 1])), k + 1)
<1> DEFINE name == NameOf(SkillFiles[k + 1])
           skill == Skill(SkillFiles[k + 1])
           more == Put(map, name, skill)
<1>1. /\ DOMAIN more = DOMAIN map \cup {name}
      /\ \A n \in DOMAIN more : more[n] = IF n = name THEN skill ELSE map[n]
  BY DEF Put
<1> HIDE DEF more
<1>2. DOMAIN more = {NameOf(SkillFiles[f]) : f \in 1..k + 1}
  <2>1. DOMAIN map = {NameOf(SkillFiles[f]) : f \in 1..k}
    BY DEF KnowsFiles
  <2>2. \A f \in 1..k + 1 : f \in 1..k \/ f = k + 1
    OBVIOUS
  <2>3. 1..k \subseteq 1..k + 1 /\ k + 1 \in 1..k + 1
    OBVIOUS
  <2> QED BY <1>1, <2>1, <2>2, <2>3
<1>3. ASSUME NEW n \in DOMAIN more PROVE more[n] = Skill(SkillFiles[Max(FilesOf(n, k + 1))])
  <2>1. CASE n = name
    <3>1. k + 1 \in FilesOf(n, k + 1) /\ FilesOf(n, k + 1) \subseteq 1..k + 1
      BY <2>1 DEF FilesOf
    <3>2. Max(FilesOf(n, k + 1)) = k + 1
      BY <3>1, MaxUpTo
    <3> QED BY <1>1, <2>1, <3>2
  <2>2. CASE n # name
    <3>1. FilesOf(n, k + 1) = FilesOf(n, k)
      BY <2>2 DEF FilesOf
    <3> HIDE DEF name
    <3>2. n \in DOMAIN map /\ more[n] = map[n]
      BY <1>1, <2>2
    <3> QED BY <3>1, <3>2 DEF KnowsFiles
  <2> QED BY <2>1, <2>2
<1> QED
  BY <1>2, <1>3 DEF KnowsFiles, more

\* The skills found are those of the files, each as its last file has it.
LEMMA FoundKnows == KnowsFiles(Found, Len(SkillFiles)) /\ DOMAIN SkillFiles = 1..Len(SkillFiles)
<1> DEFINE N == Len(SkillFiles)
           IsFound(g, n) ==
             g = [k \in 0..n |-> IF k = 0 THEN <<>>
                                 ELSE Put(g[k - 1], NameOf(SkillFiles[k]), Skill(SkillFiles[k]))]
           found == CHOOSE g : IsFound(g, N)
<1>0. N \in Nat /\ DOMAIN SkillFiles = 1..N
  BY PipelineAssumption, LenProperties
<1>1. \E g : IsFound(g, N)
  <2> DEFINE Good == {n \in 0..N : \E g : IsFound(g, n)}
  <2>1. 0 \in Good
    <3> DEFINE g == [k \in 0..0 |-> <<>>]
    <3>1. \A k \in 0..0 : k = 0 /\ g[k] = <<>>
      OBVIOUS
    <3>2. IsFound(g, 0)
      BY <3>1
    <3> HIDE DEF g
    <3> QED BY <1>0, <3>2
  <2>2. ASSUME NEW n \in 1..N, n - 1 \in Good PROVE n \in Good
    <3>1. PICK g : IsFound(g, n - 1)
      BY <2>2
    <3> DEFINE next(k, before) == Put(before, NameOf(SkillFiles[k]), Skill(SkillFiles[k]))
               h == [k \in 0..n |-> IF k = n THEN next(n, g[n - 1]) ELSE g[k]]
    <3>2. \A k \in 0..n - 1 : g[k] = IF k = 0 THEN <<>> ELSE next(k, g[k - 1])
      BY <3>1
    <3> HIDE DEF next
    <3>3. ASSUME NEW k \in 0..n
          PROVE  h[k] = IF k = 0 THEN <<>> ELSE next(k, h[k - 1])
      <4>1. CASE k = n
        <5>1. h[k] = next(n, g[n - 1]) /\ h[n - 1] = g[n - 1] /\ k # 0
          BY <1>0, <4>1
        <5> HIDE DEF h
        <5> QED BY <4>1, <5>1
      <4>2. CASE k # n
        <5>1. k \in 0..n - 1 /\ h[k] = g[k] /\ (k # 0 => h[k - 1] = g[k - 1])
          BY <1>0, <4>2
        <5> HIDE DEF h
        <5>2. CASE k = 0
          BY <3>2, <5>1, <5>2
        <5>3. CASE k # 0
          BY <3>2, <5>1, <5>3
        <5> QED BY <5>2, <5>3
      <4> QED BY <4>1, <4>2
    <3>4. IsFound(h, n)
      BY <3>3 DEF next
    <3> HIDE DEF h
    <3> QED BY <3>4
  <2> HIDE DEF Good
  <2>3. \A n \in 0..N : n \in Good
    BY <1>0, <2>1, <2>2, UpTo
  <2> QED BY <1>0, <2>3 DEF Good
<1>2. IsFound(found, N)
  BY <1>1
<1>3. Found = found[N]
  BY DEF Found, Discover
<1> HIDE DEF found
<1>4. \A k \in 0..N : found[k] = IF k = 0 THEN <<>>
                                 ELSE Put(found[k - 1], NameOf(SkillFiles[k]), Skill(SkillFiles[k]))
  BY <1>2
<1> DEFINE Fine == {k \in 0..N : KnowsFiles(found[k], k)}
<1>5. 0 \in Fine
  <2>1. found[0] = <<>>
    BY <1>0, <1>4
  <2>2. DOMAIN <<>> = {} /\ {NameOf(SkillFiles[f]) : f \in 1..0} = {}
    OBVIOUS
  <2>3. KnowsFiles(<<>>, 0)
    BY <2>2 DEF KnowsFiles
  <2> QED BY <1>0, <2>1, <2>3
<1>6. ASSUME NEW k \in 1..N, k - 1 \in Fine PROVE k \in Fine
  <2> DEFINE j == k - 1
  <2>1. /\ j \in Nat /\ j + 1 = k /\ KnowsFiles(found[j], j)
        /\ found[k] = Put(found[j], NameOf(SkillFiles[k]), Skill(SkillFiles[k]))
    BY <1>0, <1>4, <1>6
  <2> HIDE DEF j
  <2>2. KnowsFiles(Put(found[j], NameOf(SkillFiles[j + 1]), Skill(SkillFiles[j + 1])), j + 1)
    BY <2>1, OneFileMore
  <2>3. KnowsFiles(found[k], k)
    BY <2>1, <2>2
  <2> QED BY <1>0, <2>3
<1> HIDE DEF Fine
<1>7. \A k \in 0..N : k \in Fine
  BY <1>0, <1>5, <1>6, UpTo
<1>8. KnowsFiles(found[N], N)
  BY <1>0, <1>7 DEF Fine
<1> QED
  BY <1>0, <1>3, <1>8

LEMMA NamesNotEmpty == "" \notin DOMAIN Found
<1>1. DOMAIN Found = {NameOf(SkillFiles[f]) : f \in DOMAIN SkillFiles}
  BY FoundKnows DEF KnowsFiles
<1>2. \A f \in DOMAIN SkillFiles : NameOf(SkillFiles[f]) # ""
  BY PipelineAssumption
<1> QED
  BY <1>1, <1>2

-----------------------------------------------------------------------------
\* What is loaded when so many of the calls have been carried out.
LoadedBy(set, list, h) ==
    /\ set \subseteq DOMAIN Found
    /\ \A n \in DOMAIN Found : n \in set <=> ActiveIn(list, h, n)

LEMMA OneCallMore ==
    ASSUME NEW set, NEW list, NEW h \in Nat, LoadedBy(set, list, h)
    PROVE  LoadedBy(Loaded(Found, set, list[h + 1].action, list[h + 1].arg), list, h + 1)
<1> DEFINE action == list[h + 1].action
           arg == list[h + 1].arg
           next == Loaded(Found, set, action, arg)
<1>1. set \subseteq DOMAIN Found /\ \A n \in DOMAIN Found : n \in set <=> ActiveIn(list, h, n)
  BY DEF LoadedBy
<1>2. \A n : ActiveIn(list, h + 1, n) <=>
               IF arg = n /\ action \in {"load", "unload"} THEN action = "load" ELSE ActiveIn(list, h, n)
  BY OneMentioned
<1>3. next = IF arg = "" THEN set
             ELSE IF action = "load" THEN set \cup ({arg} \cap DOMAIN Found)
             ELSE IF action = "unload" THEN set \ {arg}
             ELSE set
  BY DEF Loaded
<1> HIDE DEF action, arg, next
<1>4. next \subseteq DOMAIN Found
  BY <1>1, <1>3
<1>5. ASSUME NEW n \in DOMAIN Found PROVE n \in next <=> ActiveIn(list, h + 1, n)
  <2>1. n # "" /\ (n \in set <=> ActiveIn(list, h, n))
    BY <1>1, NamesNotEmpty
  <2>2. ActiveIn(list, h + 1, n) <=>
          IF arg = n /\ action \in {"load", "unload"} THEN action = "load" ELSE ActiveIn(list, h, n)
    BY <1>2
  <2> QED BY <1>3, <2>1, <2>2
<1> QED
  BY <1>4, <1>5 DEF LoadedBy, next, action, arg

LEMMA CallsCarriedOut ==
    ASSUME NEW calls \in Seq(Calls), said \in Seq(Calls), LoadedBy(loaded, said, Len(said))
    PROVE  LoadedBy(LoadedAfter(calls), said \o calls, Len(said) + Len(calls))
<1> DEFINE N == Len(calls)
           m == Len(said)
           list == said \o calls
           step(k, before) == Loaded(Found, before, calls[k].action, calls[k].arg)
           V == SUBSET (loaded \cup DOMAIN Found)
           steps == [k \in 1..N |-> [before \in V |-> step(k, before)]]
           IsAfter(g) == g = [k \in 0..N |-> IF k = 0 THEN loaded ELSE step(k, g[k - 1])]
           after == CHOOSE g : IsAfter(g)
<1>0. /\ N \in Nat /\ m \in Nat /\ loaded \in V
      /\ \A k \in 1..m : list[k] = said[k]
      /\ \A k \in 1..N : list[m + k] = calls[k]
  <2>1. N \in Nat /\ m \in Nat
    BY LenProperties
  <2>2. \A k \in 1..m + N : list[k] = IF k <= m THEN said[k] ELSE calls[k - m]
    BY ConcatProperties
  <2> HIDE DEF list, m, N
  <2>3. \A k \in 1..N : m + k \in 1..m + N /\ ~(m + k <= m) /\ (m + k) - m = k
    BY <2>1
  <2>4. \A k \in 1..m : k \in 1..m + N /\ k <= m
    BY <2>1
  <2> QED BY <2>1, <2>2, <2>3, <2>4
<1> HIDE DEF list, m, N
<1>1. \E g : IsAfter(g)
  <2>1. steps \in [1..N -> [V -> V]]
    <3>1. ASSUME NEW k \in 1..N, NEW before \in V PROVE step(k, before) \in V
      BY DEF Loaded
    <3> HIDE DEF V, step
    <3> QED BY <3>1
  <2> HIDE DEF V
  <2>2. PICK g : IsCourse(g, V, loaded, steps, N)
    <3> HIDE DEF steps
    <3> QED BY <1>0, <2>1, CourseExists
  <2>3. g \in [0..N -> V] /\ g[0] = loaded /\ \A k \in 1..N : g[k] = steps[k][g[k - 1]]
    BY <2>2 DEF IsCourse
  <2>4. ASSUME NEW k \in 0..N PROVE g[k] = IF k = 0 THEN loaded ELSE step(k, g[k - 1])
    <3>1. CASE k = 0
      BY <2>3, <3>1
    <3>2. CASE k # 0
      <4>1. k \in 1..N /\ k - 1 \in 0..N
        BY <1>0, <3>2
      <4>2. g[k - 1] \in V /\ g[k] = steps[k][g[k - 1]]
        BY <2>3, <4>1
      <4> HIDE DEF step
      <4>3. steps[k][g[k - 1]] = step(k, g[k - 1])
        BY <4>1, <4>2
      <4> QED BY <3>2, <4>2, <4>3
    <3> QED BY <3>1, <3>2
  <2> HIDE DEF step, steps
  <2>5. IsAfter(g)
    BY <2>3, <2>4
  <2> QED BY <2>5
<1>2. IsAfter(after)
  BY <1>1
<1>3. LoadedAfter(calls) = after[N]
  BY DEF LoadedAfter, N
<1> HIDE DEF after, V, steps
<1>4. \A k \in 0..N : after[k] = IF k = 0 THEN loaded ELSE step(k, after[k - 1])
  BY <1>2
<1> DEFINE Fine == {k \in 0..N : LoadedBy(after[k], list, m + k)}
<1>5. 0 \in Fine
  <2>1. after[0] = loaded /\ m + 0 = m
    <3> HIDE DEF step
    <3>1. 0 \in 0..N /\ m + 0 = m
      BY <1>0
    <3>2. after[0] = IF 0 = 0 THEN loaded ELSE step(0, after[0 - 1])
      BY <1>4, <3>1
    <3> QED BY <3>1, <3>2
  <2>2. \A n : ActiveIn(list, m, n) <=> ActiveIn(said, m, n)
    BY <1>0, MentionsKept
  <2>3. LoadedBy(loaded, list, m)
    BY <2>2 DEF LoadedBy, m
  <2> QED BY <1>0, <2>1, <2>3
<1>6. ASSUME NEW k \in 1..N, k - 1 \in Fine PROVE k \in Fine
  <2> DEFINE h == m + (k - 1)
             set == after[k - 1]
  <2>1. /\ h \in Nat /\ h + 1 = m + k /\ LoadedBy(set, list, h)
        /\ after[k] = step(k, set) /\ list[h + 1] = calls[k]
    <3>1. h \in Nat /\ h + 1 = m + k
      BY <1>0
    <3>2. k \in 0..N /\ k # 0 /\ list[m + k] = calls[k]
      BY <1>0
    <3>3. LoadedBy(set, list, h)
      BY <1>6
    <3>4. after[k] = step(k, set)
      <4> HIDE DEF step
      <4> QED BY <1>4, <3>2
    <3> HIDE DEF h, set, step
    <3> QED BY <3>1, <3>2, <3>3, <3>4
  <2> HIDE DEF h, set
  <2>2. LoadedBy(Loaded(Found, set, list[h + 1].action, list[h + 1].arg), list, h + 1)
    BY <2>1, OneCallMore
  <2>3. LoadedBy(after[k], list, m + k)
    BY <2>1, <2>2
  <2> QED BY <1>0, <2>3
<1> HIDE DEF Fine
<1>7. \A k \in 0..N : k \in Fine
  BY <1>0, <1>5, <1>6, UpTo
<1>8. LoadedBy(after[N], list, m + N)
  BY <1>0, <1>7 DEF Fine
<1> QED
  BY <1>3, <1>8 DEF list, m, N

\* The texts of the skills that are active after so many calls.
ActiveTexts(list, h) == {<<n, Found[n].content>> : n \in {x \in DOMAIN Found : ActiveIn(list, h, x)}}

\* The loaded skills are those last said to be, and a prompt has the texts of
\* those there were when it was made.
SkillsInv ==
    /\ said \in Seq(Calls)
    /\ LoadedBy(loaded, said, Len(said))
    /\ \A i \in 1..Len(runs) : /\ runs[i].heard \in 0..Len(said)
                               /\ runs[i].prompt.active = ActiveTexts(said, runs[i].heard)

LEMMA InitSkills == Init => SkillsInv
<1> SUFFICES ASSUME Init PROVE SkillsInv
  OBVIOUS
<1>1. said = <<>> /\ loaded = {} /\ Len(runs) = 0
  BY EmptySeq DEF Init
<1>2. said \in Seq(Calls) /\ Len(said) = 0
  BY <1>1, EmptySeq
<1>3. LoadedBy(loaded, said, 0)
  BY <1>1, NoneMentioned DEF LoadedBy
<1> QED
  BY <1>1, <1>2, <1>3 DEF SkillsInv

LEMMA LoadedShown ==
    ASSUME NEW set, NEW list, NEW h, LoadedBy(set, list, h)
    PROVE  LoadedInstructions(Found, set) = ActiveTexts(list, h)
<1>1. set \cap DOMAIN Found = {x \in DOMAIN Found : ActiveIn(list, h, x)}
  BY DEF LoadedBy
<1> QED
  BY <1>1 DEF LoadedInstructions, ActiveTexts

LEMMA NextSkills == HistoryInv /\ SkillsInv /\ [Next]_vars => SkillsInv'
<1> SUFFICES ASSUME HistoryInv, SkillsInv, [Next]_vars PROVE SkillsInv'
  OBVIOUS
<1>1. ASSUME UNCHANGED <<said, loaded, runs>> PROVE SkillsInv'
  BY <1>1 DEF SkillsInv
<1>2. ASSUME NEW a, NEW ref, SwitchModel(a, ref) PROVE SkillsInv'
  BY <1>1, <1>2 DEF SwitchModel
<1>3. ASSUME NEW steps, RunPipeline(steps) PROVE SkillsInv'
  BY <1>1, <1>3 DEF RunPipeline
<1>4. CASE EndPipeline
  BY <1>1, <1>4 DEF EndPipeline
<1>5. CASE UNCHANGED vars
  BY <1>1, <1>5 DEF vars
<1>6. CASE BeginStep
  <2> DEFINE r == NewRun(Head(todo), ag')
  <2>1. OneMore(r) /\ UNCHANGED <<said, loaded>>
    BY <1>6, BeginRuns DEF BeginStep
  <2>2. r.heard = Len(said) /\ r.prompt.active = LoadedInstructions(Found, loaded)
    BY DEF NewRun, Prompt
  <2> HIDE DEF r
  <2>3. r.prompt.active = ActiveTexts(said, r.heard)
    BY <2>2, LoadedShown DEF SkillsInv
  <2>4. Len(said) \in 0..Len(said)
    BY LenProperties DEF SkillsInv
  <2>5. ASSUME NEW i \in 1..Len(runs')
        PROVE  /\ runs'[i].heard \in 0..Len(said)
               /\ runs'[i].prompt.active = ActiveTexts(said, runs'[i].heard)
    <3>1. CASE i \in 1..Len(runs)
      BY <2>1, <3>1 DEF SkillsInv, OneMore
    <3>2. CASE i = Len(runs) + 1
      BY <2>1, <2>2, <2>3, <2>4, <3>2 DEF OneMore
    <3> QED BY <2>1, <3>1, <3>2 DEF OneMore
  <2> QED BY <2>1, <2>5 DEF SkillsInv
<1>7. ASSUME NEW end, NEW more, LastGoesOn(end, more), NEW i \in 1..Len(runs')
      PROVE  /\ i \in 1..Len(runs)
             /\ runs'[i].heard = runs[i].heard /\ runs'[i].prompt = runs[i].prompt
  <2>1. i \in 1..Len(runs)
    BY <1>7 DEF LastGoesOn
  <2>2. CASE i = Len(runs)
    BY <1>7, <2>1, <2>2 DEF LastGoesOn, GoesOn
  <2>3. CASE i # Len(runs)
    BY <1>7, <2>1, <2>3 DEF LastGoesOn
  <2> QED BY <2>1, <2>2, <2>3
<1>8. ASSUME NEW end, NEW more, LastGoesOn(end, more), UNCHANGED <<said, loaded>>
      PROVE  SkillsInv'
  <2>1. ASSUME NEW i \in 1..Len(runs')
        PROVE  /\ runs'[i].heard \in 0..Len(said)
               /\ runs'[i].prompt.active = ActiveTexts(said, runs'[i].heard)
    BY <1>7, <1>8 DEF SkillsInv
  <2> QED BY <1>8, <2>1 DEF SkillsInv
<1>9. ASSUME NEW compacted \in BOOLEAN, Fails(compacted) PROVE SkillsInv'
  BY <1>8, <1>9, FailRuns DEF Fails
<1>10. CASE Conclude
  BY <1>8, <1>10, ConcludeRuns DEF Conclude
<1>11. ASSUME NEW turn \in Turns, NEW compacted \in BOOLEAN, Turn(turn, compacted) PROVE SkillsInv'
  <2> DEFINE calls == SkillCalls(turn)
             m == Len(said)
  <2>1. LastGoesOn("running", IF compacted THEN 1 ELSE 0)
    BY <1>11, TurnRuns
  <2>2. loaded' = LoadedAfter(calls) /\ said' = said \o calls
    BY <1>11 DEF Turn, TakeUpCalls
  <2>3. calls \in Seq(Calls)
    BY TurnLength, WithinIsPart DEF SkillCalls
  <2> HIDE DEF calls
  <2>4. /\ said \in Seq(Calls) /\ m \in Nat /\ Len(calls) \in Nat
        /\ said' \in Seq(Calls) /\ Len(said') = m + Len(calls)
        /\ \A k \in 1..m : said'[k] = said[k]
    <3>1. said \in Seq(Calls)
      BY DEF SkillsInv
    <3>2. m \in Nat /\ Len(calls) \in Nat
      BY <2>3, <3>1, LenProperties
    <3>3. /\ said' \in Seq(Calls) /\ Len(said') = m + Len(calls)
          /\ \A k \in 1..m + Len(calls) : said'[k] = IF k <= m THEN said[k] ELSE calls[k - m]
      BY <2>2, <2>3, <3>1, ConcatProperties
    <3> HIDE DEF m
    <3>4. \A k \in 1..m : k \in 1..m + Len(calls) /\ k <= m
      BY <3>2
    <3> QED BY <3>1, <3>2, <3>3, <3>4
  <2>5. LoadedBy(loaded', said', Len(said'))
    BY <2>2, <2>3, <2>4, CallsCarriedOut DEF SkillsInv
  <2>6. ASSUME NEW i \in 1..Len(runs')
        PROVE  /\ runs'[i].heard \in 0..Len(said')
               /\ runs'[i].prompt.active = ActiveTexts(said', runs'[i].heard)
    <3> DEFINE h == runs[i].heard
    <3>1. /\ i \in 1..Len(runs)
          /\ runs'[i].heard = h /\ runs'[i].prompt = runs[i].prompt
      BY <1>7, <2>1
    <3>2. h \in 0..m /\ runs[i].prompt.active = ActiveTexts(said, h)
      BY <3>1 DEF SkillsInv
    <3> HIDE DEF h, m
    <3>3. h \in Nat /\ h \in 0..Len(said') /\ \A k \in 1..h : said'[k] = said[k]
      BY <2>4, <3>2
    <3>4. \A n : ActiveIn(said', h, n) <=> ActiveIn(said, h, n)
      BY <3>3, MentionsKept
    <3>5. ActiveTexts(said', h) = ActiveTexts(said, h)
      BY <3>4 DEF ActiveTexts
    <3> QED BY <3>1, <3>2, <3>3, <3>5
  <2> QED BY <2>4, <2>5, <2>6 DEF SkillsInv
<1> QED
  BY <1>2, <1>3, <1>4, <1>5, <1>6, <1>9, <1>10, <1>11 DEF Next

\* A step's prompt has the text of a skill if and only if the last that any
\* agent has said of it, in an earlier step, was to load it, and the text is
\* that of the last file of its name, for any skills, agents and calls.
THEOREM SkillsAlwaysShown == Spec => []ActiveSkillsShown
<1> DEFINE Inv == HistoryInv /\ SkillsInv
<1>1. Inv => ActiveSkillsShown
  <2> DEFINE text(n) == Skill(SkillFiles[Max({f \in DOMAIN SkillFiles : NameOf(SkillFiles[f]) = n})]).content
             names == {NameOf(SkillFiles[f]) : f \in DOMAIN SkillFiles}
  <2> SUFFICES ASSUME Inv, NEW i \in 1..Len(runs)
               PROVE  runs[i].prompt.active =
                        {<<n, text(n)>> : n \in names \cap
                           {m \in {said[k].arg : k \in DOMAIN said} : ActiveIn(said, runs[i].heard, m)}}
    <3>1. DOMAIN runs = 1..Len(runs)
      BY LenProperties DEF HistoryInv, ModelsInv, RunsInv
    <3> QED BY <3>1 DEF ActiveSkillsShown, ActiveIn, Mentions
  <2> DEFINE h == runs[i].heard
  <2>1. DOMAIN Found = names /\ \A n \in names : Found[n].content = text(n)
    BY FoundKnows DEF KnowsFiles, FilesOf
  <2>2. said \in Seq(Calls) /\ h \in 0..Len(said) /\ runs[i].prompt.active = ActiveTexts(said, h)
    BY DEF SkillsInv
  <2> HIDE DEF h, names, text
  <2>3. ASSUME NEW n, ActiveIn(said, h, n) PROVE n \in {said[k].arg : k \in DOMAIN said}
    <3>1. PICK k \in 1..h : said[k].arg = n
      BY <2>3 DEF ActiveIn, Mentions
    <3>2. k \in DOMAIN said
      BY <2>2, LenProperties
    <3> QED BY <3>1, <3>2
  <2>4. {x \in DOMAIN Found : ActiveIn(said, h, x)} =
          names \cap {m \in {said[k].arg : k \in DOMAIN said} : ActiveIn(said, h, m)}
    BY <2>1, <2>3
  <2>5. ActiveTexts(said, h) =
          {<<n, text(n)>> : n \in names \cap
             {m \in {said[k].arg : k \in DOMAIN said} : ActiveIn(said, h, m)}}
    BY <2>1, <2>4 DEF ActiveTexts
  <2> QED BY <2>2, <2>5 DEF h
<1>2. Init => Inv
  BY InitHistory, InitSkills
<1>3. Inv /\ [Next]_vars => Inv'
  BY NextHistory, NextSkills
<1> HIDE DEF Inv
<1> QED
  BY <1>1, <1>2, <1>3, PTL DEF Spec
===============================================================================
