----------------------------- MODULE Enhancement ------------------------------
(***************************************************************************)
(* The statistics of internal/enhance/enhance.go: what the engine remembers *)
(* of an agent's sessions, tools and failures. A mean is a fraction, kept   *)
(* by the code's recurrence but without the rounding of float64.            *)
(***************************************************************************)
EXTENDS Integers, Sequences, FiniteSets, Maps

Record(agent, session, steps, calls, success) ==
    [agent |-> agent, session |-> session, steps |-> steps, calls |-> calls, success |-> success]

\* total is the entry "total_calls" of ToolFrequency, usage the sum of the others.
NewProfile ==
    [avgSteps |-> [num |-> 0, den |-> 1], successRate |-> [num |-> 0, den |-> 1],
     total |-> 0, usage |-> 0, failures |-> <<>>]

NewEngine == [sessions |-> <<>>, profiles |-> <<>>]

Profile(engine, agent) ==
    IF agent \in DOMAIN engine.profiles THEN engine.profiles[agent] ELSE NewProfile

WithProfile(engine, agent, profile) ==
    [engine EXCEPT !.profiles = Put(@, agent, profile)]

\* Where in the list of sessions the agent's are.
sessionsByAgent(engine, agent) ==
    {k \in DOMAIN engine.sessions : engine.sessions[k].agent = agent}

\* The mean of n values from that of n - 1 and the n-th.
MeanWith(mean, n, value) ==
    [num |-> mean.num * (n - 1) + value * mean.den, den |-> mean.den * n]

\* Mutant: the sessions are counted over all agents.
MutantRecordSession(engine, s) ==
    LET recorded == [engine EXCEPT !.sessions = Append(@, s)]
        n == Len(recorded.sessions)
        p == Profile(engine, s.agent)
    IN  WithProfile(recorded, s.agent,
          [p EXCEPT !.avgSteps = MeanWith(@, n, s.steps),
                    !.total = @ + s.calls,
                    !.successRate = MeanWith(@, n, IF s.success THEN 1 ELSE 0)])

RecordSession(engine, s) ==
    LET recorded == [engine EXCEPT !.sessions = Append(@, s)]
        n == Cardinality(sessionsByAgent(recorded, s.agent))
        p == Profile(engine, s.agent)
    IN  WithProfile(recorded, s.agent,
          [p EXCEPT !.avgSteps = MeanWith(@, n, s.steps),
                    !.total = @ + s.calls,
                    !.successRate = MeanWith(@, n, IF s.success THEN 1 ELSE 0)])

\* Mutant: the newest failure is dropped instead of the oldest.
MutantRecordErrorPattern(engine, agent, error) ==
    LET p == Profile(engine, agent)
    IN  WithProfile(engine, agent,
          [p EXCEPT !.failures =
             Append(IF Len(@) > 10 THEN SubSeq(@, 1, Len(@) - 1) ELSE @, error)])

RecordErrorPattern(engine, agent, error) ==
    LET p == Profile(engine, agent)
    IN  WithProfile(engine, agent,
          [p EXCEPT !.failures = Append(IF Len(@) > 10 THEN Tail(@) ELSE @, error)])

\* A tool of that name shares its entry with the total.
RecordToolUsage(engine, agent, tool) ==
    LET p == Profile(engine, agent)
    IN  WithProfile(engine, agent,
          IF tool = <<"total_calls">> THEN [p EXCEPT !.total = @ + 1] ELSE [p EXCEPT !.usage = @ + 1])

\* Mutant: the sessions of all agents count.
MutantTips(engine, agent, many, few) ==
    LET p == Profile(engine, agent)
        due(tip) == CASE tip = "batch"  -> p.avgSteps.num > many * p.avgSteps.den
                      [] tip = "verify" -> /\ 2 * p.successRate.num < p.successRate.den
                                           /\ Len(engine.sessions) > few
    IN  {tip \in {"batch", "verify"} : due(tip)}

\* The tips for an agent (GenerateAgentInstructions): to batch its steps if it
\* takes more than many (15) in the mean, to verify its results if of more than
\* few (3) sessions less than half have finished. The program never adds an
\* insight to the engine.
Tips(engine, agent, many, few) ==
    LET p == Profile(engine, agent)
        due(tip) == CASE tip = "batch"  -> p.avgSteps.num > many * p.avgSteps.den
                      [] tip = "verify" -> /\ 2 * p.successRate.num < p.successRate.den
                                           /\ Cardinality(sessionsByAgent(engine, agent)) > few
    IN  {tip \in {"batch", "verify"} : due(tip)}
===============================================================================
