------------------------------ MODULE SetupProofs ------------------------------
(***************************************************************************)
(* For any configuration files, environments, switches and dialogues: what  *)
(* App.Init makes of the files, what the wizard leaves in them, and what    *)
(* its checklist makes of the keys that are typed.                          *)
(***************************************************************************)
EXTENDS Wizard, RecursionTheorems

-----------------------------------------------------------------------------
(* References.                                                              *)

\* A reference or a model id, of whatever its parts are.
IsRef(r) == r # <<>> /\ \E S : r \in Seq(S)

LEMMA ReferencesAreRefs == \A r \in References : IsRef(r)
  BY DEF References, IsRef

LEMMA NoModelIsRef == IsRef(NoModel)
<1>1. NoModel \in Seq({""}) /\ NoModel # <<>>
  BY DEF NoModel
<1> QED
  BY <1>1, Zenon DEF IsRef

LEMMA OneIsRef == ASSUME NEW x PROVE IsRef(<<x>>)
<1>1. <<x>> \in Seq({x}) /\ <<x>> # <<>>
  OBVIOUS
<1> QED
  BY <1>1, Zenon DEF IsRef

\* A reference is its first part, a slash, and the rest.
LEMMA RefSplit ==
    ASSUME NEW r, IsRef(r)
    PROVE  <<Head(r)>> \o Tail(r) = r
<1>1. PICK S : r \in Seq(S)
  BY DEF IsRef
<1>2. r # <<>>
  BY DEF IsRef
<1>3. \A x \in S : <<x>> \in Seq(S) /\ Len(<<x>>) = 1 /\ <<x>>[1] = x
  OBVIOUS
<1> QED
  BY <1>1, <1>2, <1>3, HeadTailProperties, ConcatProperties, LenProperties, SeqEqual

\* A provider's name and an id of it make a reference, which can be taken
\* apart again.
LEMMA RefJoin ==
    ASSUME NEW p, NEW id, IsRef(id)
    PROVE  /\ IsRef(<<p>> \o id)
           /\ Head(<<p>> \o id) = p
           /\ Tail(<<p>> \o id) = id
           /\ Len(<<p>> \o id) > 1
<1>1. PICK S : id \in Seq(S)
  BY DEF IsRef
<1>2. id # <<>>
  BY DEF IsRef
<1> DEFINE T == S \cup {p}
<1>3. id \in Seq(T) /\ p \in T
  BY <1>1, SeqMonotonic
<1>4. Len(id) \in Nat /\ Len(id) # 0
  BY <1>2, <1>3
<1> HIDE DEF T
<1>5. <<p>> \in Seq(T) /\ Len(<<p>>) = 1
  BY <1>3
<1>6. Head(<<p>> \o id) = p /\ Tail(<<p>> \o id) = id
  BY <1>3
<1>7. <<p>> \o id \in Seq(T) /\ Len(<<p>> \o id) = 1 + Len(id)
  BY <1>3, <1>5, ConcatProperties
<1>8. <<p>> \o id # <<>>
  BY <1>7, <1>4
<1>9. IsRef(<<p>> \o id)
  BY <1>7, <1>8, Zenon DEF IsRef
<1> QED
  BY <1>4, <1>6, <1>7, <1>9

-----------------------------------------------------------------------------
(* Routing.                                                                 *)

\* A registry lists ids only.
IdsListed(reg) == \A p \in DOMAIN reg : \A id \in reg[p] : IsRef(id)

\* What RoutedAsNamed says of one agent.
Routed(reg, ref, provider, modelRef) ==
    LET lists == {p \in DOMAIN reg : ref \in reg[p]}
        named == Len(ref) > 1 /\ Head(ref) \in DOMAIN reg
        rest == Tail(ref)
    IN  IF named /\ (rest = <<"">> => rest \in reg[Head(ref)])
        THEN <<provider>> \o modelRef = ref
        ELSE modelRef = ref /\ (lists # {} => provider \in lists)

\* A reference that is listed under its provider's name.
LEMMA ListedIsNamed ==
    ASSUME NEW reg, IdsListed(reg), NEW ref, ref \in Listed(reg)
    PROVE  /\ Len(ref) > 1 /\ Head(ref) \in DOMAIN reg
           /\ Tail(ref) \in reg[Head(ref)]
<1>0. PICK p \in DOMAIN reg : \E id \in reg[p] : ref = <<p>> \o id
  BY DEF Listed
<1>1. PICK id \in reg[p] : ref = <<p>> \o id
  BY <1>0
<1>2. IsRef(id)
  BY DEF IdsListed
<1> QED
  BY <1>1, <1>2, RefJoin

LEMMA NamedIsListed ==
    ASSUME NEW reg, NEW ref, IsRef(ref), Head(ref) \in DOMAIN reg, Tail(ref) \in reg[Head(ref)]
    PROVE  ref \in Listed(reg)
<1> DEFINE p == Head(ref)
           id == Tail(ref)
<1>1. ref = <<p>> \o id
  BY RefSplit
<1>2. p \in DOMAIN reg /\ id \in reg[p]
  OBVIOUS
<1> HIDE DEF p, id
<1>3. ref \in {<<p>> \o i : i \in reg[p]}
  BY <1>1, <1>2
<1> QED
  BY <1>2, <1>3 DEF Listed

\* Whatever GetByModel returns is what the reference says.
LEMMA RoutesAsNamed ==
    ASSUME NEW reg, IdsListed(reg), NEW ref, IsRef(ref), NEW route \in Routes(reg, ref)
    PROVE  Routed(reg, ref, route[1], route[2])
<1>1. CASE ref \in Listed(reg) \/ NamesProvider(reg, ref)
  <2>1. route[1] = Head(ref) /\ route[2] = Tail(ref)
    BY <1>1 DEF Routes
  <2>2. <<route[1]>> \o route[2] = ref
    BY <2>1, RefSplit
  <2>3. /\ Len(ref) > 1 /\ Head(ref) \in DOMAIN reg
        /\ Tail(ref) = <<"">> => Tail(ref) \in reg[Head(ref)]
    BY <1>1, ListedIsNamed DEF NamesProvider
  <2> QED BY <2>2, <2>3 DEF Routed
<1>2. CASE ~(ref \in Listed(reg) \/ NamesProvider(reg, ref))
  <2>1. PICK p \in {q \in DOMAIN reg : ref \in reg[q]} : route = <<p, ref>>
    BY <1>2 DEF Routes
  <2>2. route[1] = p /\ route[2] = ref
    BY <2>1
  <2>3. ~(/\ Len(ref) > 1 /\ Head(ref) \in DOMAIN reg
          /\ (Tail(ref) = <<"">> => Tail(ref) \in reg[Head(ref)]))
    BY <1>2, NamedIsListed DEF NamesProvider
  <2> QED BY <2>1, <2>2, <2>3 DEF Routed
<1> QED
  BY <1>1, <1>2

\* A reference nobody knows goes to any provider as it is.
LEMMA CandidatesAsNamed ==
    ASSUME IdsListed(registry), NEW ref, IsRef(ref), NEW route \in Candidates(ref)
    PROVE  Routed(registry, ref, route[1], route[2])
<1>1. CASE Routes(registry, ref) # {}
  BY <1>1, RoutesAsNamed DEF Candidates
<1>2. CASE Routes(registry, ref) = {}
  <2>1. PICK p \in DOMAIN registry : route = <<p, ref>>
    BY <1>2 DEF Candidates
  <2>2. ~(ref \in Listed(registry) \/ NamesProvider(registry, ref))
    BY <1>2 DEF Routes
  <2>3. ~(/\ Len(ref) > 1 /\ Head(ref) \in DOMAIN registry
          /\ (Tail(ref) = <<"">> => Tail(ref) \in registry[Head(ref)]))
    BY <2>2, NamedIsListed DEF NamesProvider
  <2>4. {q \in DOMAIN registry : ref \in registry[q]} = {}
    BY <1>2, <2>2 DEF Routes
  <2> QED BY <2>1, <2>3, <2>4 DEF Routed
<1> QED
  BY <1>1, <1>2

\* Only without any provider there is nowhere to go.
LEMMA CandidatesExist ==
    ASSUME NEW ref, IdsListed(registry)
    PROVE  Candidates(ref) = {} <=> DOMAIN registry = {}
<1>1. ASSUME DOMAIN registry = {} PROVE Routes(registry, ref) = {}
  <2>1. ref \notin Listed(registry) /\ ~NamesProvider(registry, ref)
    BY <1>1, ListedIsNamed DEF NamesProvider
  <2> QED BY <2>1, <1>1 DEF Routes
<1>2. CASE DOMAIN registry = {}
  <2>1. (DOMAIN registry) \X {ref} = {}
    BY <1>2
  <2> QED BY <2>1, <1>1, <1>2 DEF Candidates
<1>3. CASE DOMAIN registry # {}
  <2>1. PICK q \in DOMAIN registry : TRUE
    BY <1>3
  <2>2. <<q, ref>> \in (DOMAIN registry) \X {ref}
    OBVIOUS
  <2> QED BY <2>2, <1>3 DEF Candidates
<1> QED
  BY <1>2, <1>3

-----------------------------------------------------------------------------
(* Files and what is made of them.                                          *)

\* An entry of a provider, of an agent, and maps of them.
EntryOK(e) ==
    /\ e = ProviderConfig(e.models, e.default, e.key, e.variable)
    /\ IsRef(e.default)
    /\ \A id \in e.models : IsRef(id)

AgentOK(e) == e = AgentConfig(e.model, e.prompt, e.permission) /\ IsRef(e.model)

EntriesOK(map) == map = [p \in DOMAIN map |-> map[p]] /\ \A p \in DOMAIN map : EntryOK(map[p])

AgentsOK(map) == map = [a \in DOMAIN map |-> map[a]] /\ \A a \in DOMAIN map : AgentOK(map[a])

FileOK(f) ==
    /\ f = [providers |-> f.providers, agents |-> f.agents, mcp |-> f.mcp, nulls |-> f.nulls,
            steps |-> f.steps, tokens |-> f.tokens, compact |-> f.compact, state |-> f.state]
    /\ EntriesOK(f.providers) /\ AgentsOK(f.agents)
    /\ ~Parses(f) => f.agents = <<>> /\ f.providers = <<>>
    /\ "providers" \in f.nulls => f.providers = <<>>
    /\ "agents" \in f.nulls => f.agents = <<>>
    /\ "mcp" \in f.nulls => f.mcp = <<>>

LEMMA FilesAreOK ==
    ASSUME NEW f, IsFile(f)
    PROVE  FileOK(f)
<1> DEFINE ps == f.providers
           as == f.agents
<1>1. f = [providers |-> [p \in DOMAIN ps |-> ProviderConfig(ps[p].models, ps[p].default, ps[p].key,
                                                             ps[p].variable)],
           agents    |-> [a \in DOMAIN as |-> AgentConfig(as[a].model, as[a].prompt,
                                                          as[a].permission)],
           mcp       |-> f.mcp, nulls |-> f.nulls, steps |-> f.steps,
           tokens    |-> f.tokens, compact |-> f.compact, state |-> f.state]
  BY DEF IsFile
<1>2. /\ ps = [p \in DOMAIN ps |-> ProviderConfig(ps[p].models, ps[p].default, ps[p].key,
                                                  ps[p].variable)]
      /\ as = [a \in DOMAIN as |-> AgentConfig(as[a].model, as[a].prompt, as[a].permission)]
  BY <1>1
<1>3. /\ \A p \in DOMAIN ps : ps[p].models \subseteq References /\ ps[p].default \in References
      /\ \A a \in DOMAIN as : as[a].model \in References
      /\ ~Parses(f) => f = [Empty EXCEPT !.state = f.state]
      /\ "providers" \in f.nulls => ps = <<>>
      /\ "agents" \in f.nulls => as = <<>>
      /\ "mcp" \in f.nulls => f.mcp = <<>>
  BY DEF IsFile
<1>4. f = [providers |-> ps, agents |-> as, mcp |-> f.mcp, nulls |-> f.nulls,
           steps |-> f.steps, tokens |-> f.tokens, compact |-> f.compact, state |-> f.state]
  BY <1>1, <1>2
<1>5. ~Parses(f) => as = <<>> /\ ps = <<>>
  BY <1>3 DEF Empty
<1> HIDE DEF ps, as
<1>6. ASSUME NEW p \in DOMAIN ps PROVE EntryOK(ps[p])
  <2>1. ps[p] = ProviderConfig(ps[p].models, ps[p].default, ps[p].key, ps[p].variable)
    BY <1>2
  <2>2. IsRef(ps[p].default) /\ \A id \in ps[p].models : IsRef(id)
    BY <1>3, ReferencesAreRefs
  <2> QED BY <2>1, <2>2 DEF EntryOK
<1>7. ASSUME NEW a \in DOMAIN as PROVE AgentOK(as[a])
  <2>1. as[a] = AgentConfig(as[a].model, as[a].prompt, as[a].permission)
    BY <1>2
  <2>2. IsRef(as[a].model)
    BY <1>3, ReferencesAreRefs
  <2> QED BY <2>1, <2>2 DEF AgentOK
<1>8. ps = [p \in DOMAIN ps |-> ps[p]] /\ as = [a \in DOMAIN as |-> as[a]]
  BY <1>2
<1>9. EntriesOK(ps) /\ AgentsOK(as)
  BY <1>6, <1>7, <1>8 DEF EntriesOK, AgentsOK
<1> QED
  BY <1>3, <1>4, <1>5, <1>9 DEF FileOK, ps, as

\* One map laid over another.
LEMMA OverProperties ==
    ASSUME NEW new, NEW old
    PROVE  /\ DOMAIN Over(new, old) = (DOMAIN new) \cup (DOMAIN old)
           /\ \A x \in DOMAIN Over(new, old) :
                Over(new, old)[x] = IF x \in DOMAIN new THEN new[x] ELSE old[x]
           /\ Over(new, old) = [x \in DOMAIN Over(new, old) |-> Over(new, old)[x]]
  BY DEF Over

LEMMA NothingOK == EntriesOK(<<>>) /\ AgentsOK(<<>>)
<1>1. DOMAIN <<>> = {} /\ <<>> = [x \in DOMAIN <<>> |-> <<>>[x]]
  OBVIOUS
<1> QED
  BY <1>1 DEF EntriesOK, AgentsOK

LEMMA OverOK ==
    ASSUME NEW new, NEW old
    PROVE  /\ EntriesOK(new) /\ EntriesOK(old) => EntriesOK(Over(new, old))
           /\ AgentsOK(new) /\ AgentsOK(old) => AgentsOK(Over(new, old))
<1> DEFINE both == Over(new, old)
<1>1. /\ DOMAIN both = (DOMAIN new) \cup (DOMAIN old)
      /\ \A x \in DOMAIN both : both[x] = IF x \in DOMAIN new THEN new[x] ELSE old[x]
      /\ both = [x \in DOMAIN both |-> both[x]]
  BY OverProperties
<1> HIDE DEF both
<1>2. ASSUME EntriesOK(new), EntriesOK(old) PROVE EntriesOK(both)
  <2>1. ASSUME NEW x \in DOMAIN both PROVE EntryOK(both[x])
    <3>1. CASE x \in DOMAIN new
      BY <3>1, <1>1, <1>2 DEF EntriesOK
    <3>2. CASE x \notin DOMAIN new
      BY <3>2, <1>1, <1>2 DEF EntriesOK
    <3> QED BY <3>1, <3>2
  <2> QED BY <2>1, <1>1 DEF EntriesOK
<1>3. ASSUME AgentsOK(new), AgentsOK(old) PROVE AgentsOK(both)
  <2>1. ASSUME NEW x \in DOMAIN both PROVE AgentOK(both[x])
    <3>1. CASE x \in DOMAIN new
      BY <3>1, <1>1, <1>3 DEF AgentsOK
    <3>2. CASE x \notin DOMAIN new
      BY <3>2, <1>1, <1>3 DEF AgentsOK
    <3> QED BY <3>1, <3>2
  <2> QED BY <2>1, <1>1 DEF AgentsOK
<1> QED
  BY <1>2, <1>3 DEF both

\* The defaults.
LEMMA DefaultModelIsRef == \A p \in DOMAIN DefaultModel : IsRef(DefaultModel[p])
<1>1. IsRef(Gpt) /\ IsRef(Claude) /\ IsRef(Llama)
  BY OneIsRef DEF Gpt, Claude, Llama
<1>2. IsRef(<<"anthropic">> \o Claude)
  BY <1>1, RefJoin
<1>3. /\ DOMAIN DefaultModel = {"openai", "anthropic", "ollama", "openrouter"}
      /\ DefaultModel["openai"] = Gpt /\ DefaultModel["anthropic"] = Claude
      /\ DefaultModel["ollama"] = Llama /\ DefaultModel["openrouter"] = <<"anthropic">> \o Claude
  BY DEF DefaultModel
<1> QED
  BY <1>1, <1>2, <1>3

LEMMA DefaultIs ==
    /\ Default = [providers |-> Default.providers, agents |-> Default.agents, steps |-> Default.steps,
                  mcp |-> <<>>, nilMcp |-> FALSE, tokens |-> Default.tokens, compact |-> Default.compact]
    /\ EntriesOK(Default.providers) /\ AgentsOK(Default.agents)
    /\ \A p \in DOMAIN Default.providers :
         Default.providers[p].key = Unset /\ Default.providers[p].variable = TRUE
<1>1. Default = [providers |-> Default.providers, agents |-> Default.agents, steps |-> Default.steps,
                 mcp |-> <<>>, nilMcp |-> FALSE, tokens |-> Default.tokens,
                 compact |-> Default.compact]
  BY DEF Default
<1>2. Default.providers =
        [p \in DOMAIN DefaultModel |->
           ProviderConfig(IF p \in {"openai", "anthropic"} THEN {DefaultModel[p]} ELSE {},
                          DefaultModel[p], Unset, TRUE)]
  BY DEF Default
<1>3. Default.agents = [a \in {"default", "planner", "coder", "reviewer"} |->
                          AgentConfig(<<"openai">> \o Gpt, Unset, "default")]
  BY DEF Default
<1>4. ASSUME NEW p \in DOMAIN DefaultModel,
             NEW models, models = {} \/ models = {DefaultModel[p]}
      PROVE  LET e == ProviderConfig(models, DefaultModel[p], Unset, TRUE)
             IN  EntryOK(e) /\ e.key = Unset /\ e.variable = TRUE
  BY <1>4, DefaultModelIsRef DEF EntryOK, ProviderConfig
<1>5. EntriesOK(Default.providers) /\ \A p \in DOMAIN Default.providers :
        Default.providers[p].key = Unset /\ Default.providers[p].variable = TRUE
  <2>1. ASSUME NEW p \in DOMAIN DefaultModel
        PROVE  LET e == Default.providers[p]
               IN  EntryOK(e) /\ e.key = Unset /\ e.variable = TRUE
    <3> DEFINE models == IF p \in {"openai", "anthropic"} THEN {DefaultModel[p]} ELSE {}
    <3>1. Default.providers[p] = ProviderConfig(models, DefaultModel[p], Unset, TRUE)
      BY <1>2
    <3>2. models = {} \/ models = {DefaultModel[p]}
      OBVIOUS
    <3> HIDE DEF models
    <3> QED BY <3>1, <3>2, <1>4
  <2>2. DOMAIN Default.providers = DOMAIN DefaultModel
    BY <1>2
  <2>3. Default.providers = [p \in DOMAIN Default.providers |-> Default.providers[p]]
    BY <1>2
  <2> QED BY <2>1, <2>2, <2>3 DEF EntriesOK
<1>6. AgentsOK(Default.agents)
  <2>1. IsRef(<<"openai">> \o Gpt)
    BY OneIsRef, RefJoin DEF Gpt
  <2>2. AgentOK(AgentConfig(<<"openai">> \o Gpt, Unset, "default"))
    BY <2>1 DEF AgentOK, AgentConfig
  <2> QED BY <1>3, <2>2 DEF AgentsOK
<1> QED
  BY <1>1, <1>5, <1>6

-----------------------------------------------------------------------------
(* What Load makes of a file, and what a workspace's file adds.             *)

ConfigOK(c) ==
    /\ c = [providers |-> c.providers, agents |-> c.agents, steps |-> c.steps, mcp |-> c.mcp,
            nilMcp |-> c.nilMcp, tokens |-> c.tokens, compact |-> c.compact]
    /\ EntriesOK(c.providers) /\ AgentsOK(c.agents)

\* A section read from a file: what the file has, and else the defaults if the
\* section is not an empty one.
LEMMA AgentsSection ==
    ASSUME NEW f, FileOK(f)
    PROVE  LET read == Section(f, "agents", Default.agents)
           IN  /\ AgentsOK(read)
               /\ DOMAIN read = DOMAIN f.agents \cup
                                  (IF "agents" \in f.nulls THEN {} ELSE DOMAIN Default.agents)
               /\ \A a \in DOMAIN f.agents : read[a] = f.agents[a]
<1> DEFINE read == Section(f, "agents", Default.agents)
           default == Default.agents
<1>1. AgentsOK(f.agents) /\ AgentsOK(default)
  BY DefaultIs DEF FileOK
<1>2. CASE "agents" \in f.nulls
  <2>1. f.agents = <<>> /\ read = <<>>
    BY <1>2 DEF FileOK, Section
  <2>2. DOMAIN read = {}
    BY <2>1
  <2> QED BY <2>1, <2>2, <1>2, NothingOK
<1>3. CASE "agents" \notin f.nulls
  <2>1. read = Over(f.agents, default)
    BY <1>3 DEF Section
  <2> HIDE DEF read, default
  <2>2. AgentsOK(read) /\ DOMAIN read = DOMAIN f.agents \cup DOMAIN default
    BY <2>1, <1>1, OverProperties, OverOK
  <2>3. \A a \in DOMAIN f.agents : read[a] = f.agents[a]
    BY <2>1, OverProperties
  <2> QED BY <2>2, <2>3, <1>3 DEF read, default
<1> QED
  BY <1>2, <1>3

LEMMA ProvidersSection ==
    ASSUME NEW f, FileOK(f)
    PROVE  LET read == Section(f, "providers", Default.providers)
           IN  /\ EntriesOK(read)
               /\ DOMAIN f.providers \subseteq DOMAIN read
               /\ \A p \in DOMAIN f.providers : read[p] = f.providers[p]
               /\ \A p \in DOMAIN read \ DOMAIN f.providers :
                    read[p].key = Unset /\ read[p].variable = TRUE
<1> DEFINE read == Section(f, "providers", Default.providers)
           default == Default.providers
<1>1. /\ EntriesOK(f.providers) /\ EntriesOK(default)
      /\ \A p \in DOMAIN default : default[p].key = Unset /\ default[p].variable = TRUE
  BY DefaultIs DEF FileOK
<1>2. CASE "providers" \in f.nulls
  <2>1. f.providers = <<>> /\ read = <<>>
    BY <1>2 DEF FileOK, Section
  <2>2. DOMAIN read = {}
    BY <2>1
  <2> QED BY <2>1, <2>2, <1>2, NothingOK
<1>3. CASE "providers" \notin f.nulls
  <2>1. read = Over(f.providers, default)
    BY <1>3 DEF Section
  <2> HIDE DEF read, default
  <2>2. EntriesOK(read) /\ DOMAIN read = DOMAIN f.providers \cup DOMAIN default
    BY <2>1, <1>1, OverProperties, OverOK
  <2>3. \A p \in DOMAIN f.providers : read[p] = f.providers[p]
    BY <2>1, OverProperties
  <2>4. \A p \in DOMAIN read \ DOMAIN f.providers : read[p] = default[p] /\ p \in DOMAIN default
    BY <2>1, <2>2, OverProperties
  <2>5. \A p \in DOMAIN read \ DOMAIN f.providers : read[p].key = Unset /\ read[p].variable = TRUE
    BY <2>4, <1>1
  <2> QED BY <2>2, <2>3, <2>5, <1>3 DEF read, default
<1> QED
  BY <1>2, <1>3

LEMMA DecodeIs ==
    ASSUME NEW f, FileOK(f)
    PROVE  LET d == Decode(f)
           IN  /\ ConfigOK(d)
               /\ d.providers = Section(f, "providers", Default.providers)
               /\ d.agents = Section(f, "agents", Default.agents)
               /\ d.nilMcp = ("mcp" \in f.nulls)
               /\ d.mcp # <<>> => f.mcp # <<>>
<1> DEFINE d == Decode(f)
<1>1. d = [providers |-> Section(f, "providers", Default.providers),
           agents    |-> Section(f, "agents", Default.agents),
           steps     |-> OrDefault(f.steps, Default.steps),
           mcp       |-> Section(f, "mcp", Default.mcp),
           nilMcp    |-> "mcp" \in f.nulls,
           tokens    |-> OrDefault(f.tokens, Default.tokens),
           compact   |-> OrDefault(f.compact, Default.compact)]
  BY DEF Decode
<1> HIDE DEF d
<1>2. /\ d.providers = Section(f, "providers", Default.providers)
      /\ d.agents = Section(f, "agents", Default.agents)
      /\ d.nilMcp = ("mcp" \in f.nulls)
      /\ d.mcp = Section(f, "mcp", Default.mcp)
      /\ d = [providers |-> d.providers, agents |-> d.agents, steps |-> d.steps, mcp |-> d.mcp,
              nilMcp |-> d.nilMcp, tokens |-> d.tokens, compact |-> d.compact]
  BY <1>1
<1>3. EntriesOK(d.providers) /\ AgentsOK(d.agents)
  BY <1>2, AgentsSection, ProvidersSection
<1>4. Default.mcp = <<>>
  BY DEF Default
<1>5. ASSUME f.mcp = <<>> PROVE d.mcp = <<>>
  <2>1. Over(<<>>, <<>>) = <<>>
    BY DEF Over
  <2> QED BY <2>1, <1>2, <1>4, <1>5 DEF Section
<1> QED
  BY <1>2, <1>3, <1>5 DEF d, ConfigOK

\* Looking for a key changes nothing else.
LEMMA WithKeyIs ==
    ASSUME NEW p, NEW e, NEW vs, EntryOK(e)
    PROVE  LET with == WithKey(p, e, vs)
           IN  /\ EntryOK(with) /\ with.models = e.models /\ with.default = e.default
               /\ with.key = IF e.key = Unset /\ ((e.variable /\ Named(p) \in vs) \/ Fallback(p) \in vs)
                             THEN "env" ELSE e.key
<1>1. e = [models |-> e.models, default |-> e.default, key |-> e.key, variable |-> e.variable]
  BY DEF EntryOK, ProviderConfig
<1> QED
  BY <1>1 DEF WithKey, EntryOK, ProviderConfig

\* The configuration of a file that parses.
LEMMA LoadIs ==
    ASSUME NEW f, NEW vs, FileOK(f), Parses(f)
    PROVE  LET c == Load(f, vs)
               read == Section(f, "providers", Default.providers)
           IN  /\ ConfigOK(c)
               /\ c.agents = Section(f, "agents", Default.agents)
               /\ DOMAIN c.providers = DOMAIN read
               /\ \A p \in DOMAIN read : c.providers[p] = WithKey(p, read[p], vs)
               /\ c.nilMcp = ("mcp" \in f.nulls)
<1> DEFINE c == Load(f, vs)
           d == Decode(f)
           read == Section(f, "providers", Default.providers)
           ps == [p \in DOMAIN d.providers |-> WithKey(p, d.providers[p], vs)]
<1>1. c = [d EXCEPT !.providers = ps]
  BY DEF Load, resolveProviderEnv
<1>2. /\ d = [providers |-> d.providers, agents |-> d.agents, steps |-> d.steps, mcp |-> d.mcp,
              nilMcp |-> d.nilMcp, tokens |-> d.tokens, compact |-> d.compact]
      /\ EntriesOK(d.providers) /\ AgentsOK(d.agents)
      /\ d.providers = read /\ d.agents = Section(f, "agents", Default.agents)
      /\ d.nilMcp = ("mcp" \in f.nulls)
  BY DecodeIs DEF ConfigOK
<1> HIDE DEF c, d, read
<1>3. EntriesOK(ps)
  <2>1. \A p \in DOMAIN d.providers : EntryOK(d.providers[p])
    BY <1>2 DEF EntriesOK
  <2>2. \A p \in DOMAIN ps : EntryOK(ps[p])
    BY <2>1, WithKeyIs
  <2> QED BY <2>2 DEF EntriesOK
<1>4. DOMAIN ps = DOMAIN read /\ \A p \in DOMAIN read : ps[p] = WithKey(p, read[p], vs)
  BY <1>2
<1> HIDE DEF ps
<1>5. c = [providers |-> ps, agents |-> d.agents, steps |-> d.steps, mcp |-> d.mcp,
           nilMcp |-> d.nilMcp, tokens |-> d.tokens, compact |-> d.compact]
  BY <1>1, <1>2
<1>6. c.providers = ps /\ c.agents = d.agents /\ c.nilMcp = d.nilMcp
  BY <1>5
<1>7. ConfigOK(c)
  BY <1>5, <1>6, <1>2, <1>3 DEF ConfigOK
<1> QED
  BY <1>2, <1>4, <1>6, <1>7 DEF c, read

\* The configuration of any file.
LEMMA LoadOK ==
    ASSUME NEW f, NEW vs, FileOK(f)
    PROVE  LET c == Load(f, vs)
           IN  /\ ConfigOK(c)
               /\ DOMAIN c.agents =
                    IF ~Parses(f) THEN DOMAIN Default.agents
                    ELSE DOMAIN f.agents \cup
                           (IF "agents" \in f.nulls THEN {} ELSE DOMAIN Default.agents)
               /\ Parses(f) => \A a \in DOMAIN f.agents : c.agents[a] = f.agents[a]
               /\ c.nilMcp => "mcp" \in f.nulls
<1> DEFINE c == Load(f, vs)
           read == Section(f, "agents", Default.agents)
<1>1. CASE Parses(f)
  <2>1. ConfigOK(c) /\ c.agents = read /\ c.nilMcp = ("mcp" \in f.nulls)
    BY <1>1, LoadIs
  <2>2. /\ DOMAIN read = DOMAIN f.agents \cup
                            (IF "agents" \in f.nulls THEN {} ELSE DOMAIN Default.agents)
        /\ \A a \in DOMAIN f.agents : read[a] = f.agents[a]
    BY AgentsSection
  <2> HIDE DEF c, read
  <2>3. /\ DOMAIN c.agents = DOMAIN f.agents \cup
                               (IF "agents" \in f.nulls THEN {} ELSE DOMAIN Default.agents)
        /\ \A a \in DOMAIN f.agents : c.agents[a] = f.agents[a]
    BY <2>1, <2>2
  <2> QED BY <2>1, <2>3, <1>1 DEF c
<1>2. CASE ~Parses(f)
  <2>1. Load(f, vs) = Default
    BY <1>2 DEF Load
  <2>2. ConfigOK(Default) /\ Default.nilMcp = FALSE
    BY DefaultIs DEF ConfigOK
  <2> QED BY <2>1, <2>2, <1>2
<1> QED
  BY <1>1, <1>2

\* The key that a provider gets.
LEMMA KeyIs ==
    ASSUME NEW f, NEW vs, FileOK(f), NEW p \in DOMAIN Load(f, vs).providers
    PROVE  LET entry == f.providers[p]
               there == p \in DOMAIN f.providers
               written == there /\ entry.key # Unset
           IN  Load(f, vs).providers[p].key =
                 IF ~Parses(f) THEN Unset
                 ELSE IF written THEN entry.key
                 ELSE IF \/ Fallback(p) \in vs
                         \/ Named(p) \in vs /\ (there => entry.variable) THEN "env"
                 ELSE Unset
<1> DEFINE c == Load(f, vs)
           read == Section(f, "providers", Default.providers)
<1>1. CASE ~Parses(f)
  <2>1. c = Default
    BY <1>1 DEF Load
  <2> QED BY <2>1, <1>1, DefaultIs
<1>2. CASE Parses(f)
  <2>1. /\ DOMAIN c.providers = DOMAIN read
        /\ \A q \in DOMAIN read : c.providers[q] = WithKey(q, read[q], vs)
    BY <1>2, LoadIs
  <2>2. /\ EntriesOK(read)
        /\ p \in DOMAIN f.providers => read[p] = f.providers[p]
        /\ p \in DOMAIN read \ DOMAIN f.providers => read[p].key = Unset /\ read[p].variable = TRUE
    BY ProvidersSection
  <2> HIDE DEF read
  <2>3. p \in DOMAIN read /\ EntryOK(read[p]) /\ c.providers[p] = WithKey(p, read[p], vs)
    BY <2>1, <2>2 DEF EntriesOK
  <2>4. c.providers[p].key =
          IF read[p].key = Unset /\ ((read[p].variable /\ Named(p) \in vs) \/ Fallback(p) \in vs)
          THEN "env" ELSE read[p].key
    BY <2>3, WithKeyIs
  <2> HIDE DEF c
  <2>5. CASE p \in DOMAIN f.providers
    BY <2>2, <2>4, <2>5, <1>2 DEF c
  <2>6. CASE p \notin DOMAIN f.providers
    BY <2>2, <2>3, <2>4, <2>6, <1>2 DEF c
  <2> QED BY <2>5, <2>6
<1> QED
  BY <1>1, <1>2

\* Every id a provider is registered with is one.
LEMMA ModelsAreRefs ==
    ASSUME NEW ps, EntriesOK(ps)
    PROVE  IdsListed([p \in DOMAIN ps |-> Models(ps[p])])
<1>1. ASSUME NEW p \in DOMAIN ps, NEW id \in Models(ps[p]) PROVE IsRef(id)
  BY <1>1 DEF EntriesOK, EntryOK, Models
<1> QED
  BY <1>1 DEF IdsListed

\* What the workspace's file says of an agent.
LEMMA OverrideIs ==
    ASSUME NEW old, NEW new, AgentOK(old), AgentOK(new)
    PROVE  /\ AgentOK(Override(old, new))
           /\ Override(old, new).permission = old.permission
           /\ new.model # NoModel => Override(old, new).model = new.model
           /\ new.prompt # Unset => Override(old, new).prompt = new.prompt
<1>1. old = [model |-> old.model, prompt |-> old.prompt, permission |-> old.permission]
  BY DEF AgentOK, AgentConfig
<1> DEFINE o == Override(old, new)
<1>2. o = [model |-> IF new.model # NoModel THEN new.model ELSE old.model,
           prompt |-> OrDefault(new.prompt, old.prompt), permission |-> old.permission]
  <2> DEFINE model == IF new.model # NoModel THEN new.model ELSE old.model
             prompt == OrDefault(new.prompt, old.prompt)
             half == [old EXCEPT !.model = model]
  <2>1. o = [half EXCEPT !.prompt = prompt]
    BY Zenon DEF Override
  <2>2. half = [model |-> model, prompt |-> old.prompt, permission |-> old.permission]
    BY <1>1
  <2> HIDE DEF half, prompt, model, o
  <2>3. o = [model |-> model, prompt |-> prompt, permission |-> old.permission]
    BY <2>1, <2>2
  <2> QED BY <2>3 DEF model, prompt
<1>3. IsRef(old.model) /\ IsRef(new.model)
  BY DEF AgentOK
<1> HIDE DEF o
<1>4. IsRef(o.model)
  BY <1>2, <1>3
<1>5. o = AgentConfig(o.model, o.prompt, o.permission)
  BY <1>2 DEF AgentConfig
<1> QED
  BY <1>2, <1>4, <1>5 DEF o, AgentOK, OrDefault

LEMMA MergeIs ==
    ASSUME NEW base, NEW ws, ConfigOK(base), ConfigOK(ws)
    PROVE  LET m == MergeWorkspace(base, ws)
           IN  /\ AgentsOK(m.agents)
               /\ DOMAIN m.agents = DOMAIN base.agents
               /\ \A a \in DOMAIN base.agents :
                    m.agents[a] = IF a \in DOMAIN ws.agents THEN Override(base.agents[a], ws.agents[a])
                                  ELSE base.agents[a]
<1> DEFINE m == MergeWorkspace(base, ws)
           as == [a \in DOMAIN base.agents |->
                    IF a \in DOMAIN ws.agents THEN Override(base.agents[a], ws.agents[a])
                    ELSE base.agents[a]]
<1>1. m.agents = as
  BY DEF MergeWorkspace, ConfigOK
<1>2. ASSUME NEW a \in DOMAIN base.agents PROVE AgentOK(as[a])
  <2>1. AgentOK(base.agents[a]) /\ (a \in DOMAIN ws.agents => AgentOK(ws.agents[a]))
    BY DEF ConfigOK, AgentsOK
  <2> QED BY <2>1, OverrideIs
<1>3. AgentsOK(as)
  <2>1. DOMAIN as = DOMAIN base.agents /\ as = [a \in DOMAIN as |-> as[a]]
    OBVIOUS
  <2> QED BY <2>1, <1>2 DEF AgentsOK
<1> QED
  BY <1>1, <1>3

-----------------------------------------------------------------------------
(* The invariant of App.Init.                                               *)

DiskOK(d) ==
    /\ d = [named |-> d.named, main |-> d.main, workspace |-> d.workspace]
    /\ d.main = [place \in Places |-> d.main[place]]
    /\ \A place \in Places : FileOK(d.main[place])
    /\ FileOK(d.workspace)

\* The main file as it was loaded, and with the workspace's file merged in.
MainConfig == Load(Main, env)

MergedConfig ==
    IF Parses(disk.workspace) THEN MergeWorkspace(MainConfig, Decode(disk.workspace)) ELSE MainConfig

\* What is registered is what the main file says.
Registered ==
    /\ registry = [p \in DOMAIN MainConfig.providers |-> Models(MainConfig.providers[p])]
    /\ keys = [p \in DOMAIN MainConfig.providers |-> MainConfig.providers[p].key]

MadeAgent(made) ==
    /\ made = [config |-> made.config, provider |-> made.provider, modelRef |-> made.modelRef]
    /\ AgentOK(made.config)
    /\ Routed(registry, made.config.model, made.provider, made.modelRef)

\* The agents that have been made, of those that have been walked over.
AgentsMade ==
    /\ agents = [a \in DOMAIN agents |-> agents[a]]
    /\ \A a \in DOMAIN agents : MadeAgent(agents[a])
    /\ todo \subseteq DOMAIN config.agents
    /\ DOMAIN agents = IF DOMAIN registry = {} THEN {} ELSE DOMAIN config.agents \ todo

NothingYet == keys = <<>> /\ registry = <<>> /\ agents = <<>>

AppInv ==
    /\ DiskOK(disk)
    /\ pc \in {"load", "register", "merge", "crashed", "mcp", "agents", "ready"}
    /\ pc \in {"load", "register"} => NothingYet
    /\ pc \in {"register", "merge", "crashed"} => config = MainConfig
    /\ pc \in {"merge", "crashed", "mcp", "agents", "ready"} => Registered
    /\ pc \in {"merge", "crashed", "mcp"} => agents = <<>>
    /\ pc = "crashed" => Parses(disk.workspace) /\ Panics(MainConfig, Decode(disk.workspace))
    /\ pc \in {"mcp", "agents", "ready"} => config = MergedConfig
    /\ pc \in {"agents", "ready"} => AgentsMade
    /\ pc = "ready" => todo = {}

LEMMA DisksAreOK == \A d \in Disks : DiskOK(d)
<1> SUFFICES ASSUME NEW d \in Disks PROVE DiskOK(d)
  OBVIOUS
<1> DEFINE main == d.main
<1>1. /\ d = [named |-> d.named, main |-> [place \in Places |-> main[place]],
              workspace |-> d.workspace]
      /\ \A place \in Places : IsFile(main[place])
      /\ IsFile(d.workspace)
  BY SetupAssumption
<1>2. main = [place \in Places |-> main[place]]
  BY <1>1
<1>3. d = [named |-> d.named, main |-> main, workspace |-> d.workspace]
  BY <1>1, <1>2
<1> HIDE DEF main
<1>4. FileOK(d.workspace) /\ \A place \in Places : FileOK(main[place])
  BY <1>1, FilesAreOK
<1> QED
  BY <1>2, <1>3, <1>4 DEF DiskOK, main

\* The main file is one, and the workspace's.
LEMMA MainOK ==
    ASSUME DiskOK(disk)
    PROVE  /\ FileOK(Main) /\ FileOK(disk.workspace)
           /\ ConfigOK(MainConfig) /\ ConfigOK(Decode(disk.workspace))
           /\ AgentsOK(MergedConfig.agents)
           /\ DOMAIN MergedConfig.agents = DOMAIN MainConfig.agents
<1>1. FileOK(Main)
  <2>1. DefaultPath(disk) \in Places
    BY DEF DefaultPath, Places
  <2> QED BY <2>1 DEF DiskOK, Main
<1>2. FileOK(disk.workspace)
  BY DEF DiskOK
<1>3. ConfigOK(MainConfig) /\ ConfigOK(Decode(disk.workspace))
  BY <1>1, <1>2, LoadOK, DecodeIs DEF MainConfig
<1>4. AgentsOK(MainConfig.agents)
  BY <1>3 DEF ConfigOK
<1>5. CASE Parses(disk.workspace)
  <2> DEFINE ws == Decode(disk.workspace)
             base == MainConfig
  <2>1. ConfigOK(base) /\ ConfigOK(ws)
    BY <1>3
  <2>2. MergedConfig = MergeWorkspace(base, ws)
    BY <1>5 DEF MergedConfig
  <2> HIDE DEF ws, base
  <2>3. AgentsOK(MergedConfig.agents) /\ DOMAIN MergedConfig.agents = DOMAIN base.agents
    BY <2>1, <2>2, MergeIs
  <2> QED BY <2>3, <1>1, <1>2, <1>3 DEF base
<1>6. CASE ~Parses(disk.workspace)
  BY <1>1, <1>2, <1>3, <1>4, <1>6 DEF MergedConfig
<1> QED
  BY <1>5, <1>6

LEMMA RegisteredIds ==
    ASSUME DiskOK(disk), Registered
    PROVE  IdsListed(registry)
<1>1. EntriesOK(MainConfig.providers)
  BY MainOK DEF ConfigOK
<1> QED
  BY <1>1, ModelsAreRefs DEF Registered

-----------------------------------------------------------------------------
(* Every step of App.Init, and every switch, keeps it.                      *)

LEMMA InitInv == Init => AppInv
  BY DisksAreOK DEF Init, AppInv, NothingYet

LEMMA LoadConfigStep == AppInv /\ LoadConfig => AppInv'
<1> SUFFICES ASSUME AppInv, LoadConfig PROVE AppInv'
  OBVIOUS
<1>1. DiskOK(disk') /\ NothingYet' /\ pc' = "register"
  BY DEF AppInv, LoadConfig, NothingYet
<1>2. config' = MainConfig'
  BY DEF LoadConfig, MainConfig, Main
<1> QED
  BY <1>1, <1>2 DEF AppInv

LEMMA RegisterStep == AppInv /\ ProvidersFromConfig => AppInv'
<1> SUFFICES ASSUME AppInv, ProvidersFromConfig PROVE AppInv'
  OBVIOUS
<1>1. config = MainConfig /\ agents = <<>> /\ DiskOK(disk)
  BY DEF AppInv, ProvidersFromConfig, NothingYet
<1>2. disk' = disk /\ env' = env /\ config' = config /\ agents' = agents /\ pc' = "merge"
  BY DEF ProvidersFromConfig
<1>3. MainConfig' = MainConfig
  BY <1>2 DEF MainConfig, Main
<1>4. Registered'
  BY <1>1, <1>3 DEF ProvidersFromConfig, Registered
<1> QED
  BY <1>1, <1>2, <1>3, <1>4 DEF AppInv

\* Steps that leave the files and what is registered alone.
LEMMA FilesStay ==
    ASSUME UNCHANGED <<disk, env, keys, registry>>
    PROVE  /\ MainConfig' = MainConfig /\ MergedConfig' = MergedConfig
           /\ Registered' <=> Registered
           /\ Main' = Main
<1>1. disk' = disk /\ env' = env /\ keys' = keys /\ registry' = registry
  OBVIOUS
<1>2. Main' = Main
  BY <1>1 DEF Main
<1>3. MainConfig' = MainConfig
  BY <1>1, <1>2 DEF MainConfig
<1> QED
  BY <1>1, <1>2, <1>3 DEF MergedConfig, Registered

LEMMA MergeStep == AppInv /\ LoadWorkspaceConfig => AppInv'
<1> SUFFICES ASSUME AppInv, LoadWorkspaceConfig PROVE AppInv'
  OBVIOUS
<1>1. DiskOK(disk) /\ config = MainConfig /\ Registered /\ agents = <<>>
  BY DEF AppInv, LoadWorkspaceConfig
<1>2. UNCHANGED <<disk, env, keys, registry, clients, agents>>
  BY DEF LoadWorkspaceConfig
<1>3. /\ MainConfig' = MainConfig /\ MergedConfig' = MergedConfig /\ Registered'
      /\ DiskOK(disk') /\ agents' = <<>> /\ disk' = disk
  BY <1>1, <1>2, FilesStay
<1>4. CASE ~Parses(disk.workspace)
  <2>1. config' = config /\ pc' = "mcp"
    BY <1>4 DEF LoadWorkspaceConfig
  <2>2. MergedConfig = MainConfig
    BY <1>4 DEF MergedConfig
  <2> QED BY <2>1, <2>2, <1>1, <1>3 DEF AppInv
<1>5. CASE Parses(disk.workspace) /\ Panics(config, Decode(disk.workspace))
  <2>1. config' = config /\ pc' = "crashed"
    BY <1>5 DEF LoadWorkspaceConfig
  <2> QED BY <2>1, <1>1, <1>3, <1>5 DEF AppInv
<1>6. CASE Parses(disk.workspace) /\ ~Panics(config, Decode(disk.workspace))
  <2>1. config' = MergeWorkspace(config, Decode(disk.workspace)) /\ pc' = "mcp"
    BY <1>6 DEF LoadWorkspaceConfig
  <2>2. config' = MergedConfig
    BY <2>1, <1>1, <1>6 DEF MergedConfig
  <2> QED BY <2>1, <2>2, <1>1, <1>3 DEF AppInv
<1> QED
  BY <1>4, <1>5, <1>6

LEMMA McpStep == AppInv /\ (\E name \in todo : StartMcp(name)) => AppInv'
<1> SUFFICES ASSUME AppInv, NEW name \in todo, StartMcp(name) PROVE AppInv'
  OBVIOUS
<1>1. /\ UNCHANGED <<disk, env, keys, registry>> /\ pc = "mcp" /\ pc' = "mcp"
      /\ config' = config /\ agents' = agents
  BY DEF StartMcp
<1>2. DiskOK(disk) /\ Registered /\ agents = <<>> /\ config = MergedConfig
  BY <1>1 DEF AppInv
<1>3. MergedConfig' = MergedConfig /\ Registered' /\ DiskOK(disk')
  BY <1>1, <1>2, FilesStay
<1> QED
  BY <1>1, <1>2, <1>3 DEF AppInv

LEMMA StartAgentsStep == AppInv /\ StartAgents => AppInv'
<1> SUFFICES ASSUME AppInv, StartAgents PROVE AppInv'
  OBVIOUS
<1>1. /\ UNCHANGED <<disk, env, keys, registry>> /\ pc = "mcp" /\ pc' = "agents"
      /\ config' = config /\ agents' = agents /\ todo' = DOMAIN config.agents
      /\ registry' = registry
  BY DEF StartAgents
<1>2. DiskOK(disk) /\ Registered /\ agents = <<>> /\ config = MergedConfig
  BY <1>1 DEF AppInv
<1>3. MergedConfig' = MergedConfig /\ Registered' /\ DiskOK(disk')
  BY <1>1, <1>2, FilesStay
<1>4. DOMAIN agents' = {} /\ agents' = [a \in DOMAIN agents' |-> agents'[a]]
  BY <1>1, <1>2
<1>5. AgentsMade'
  BY <1>1, <1>4 DEF AgentsMade
<1> QED
  BY <1>1, <1>2, <1>3, <1>5 DEF AppInv

LEMMA MakeAgentStep == AppInv /\ (\E a \in todo : MakeAgent(a)) => AppInv'
<1> SUFFICES ASSUME AppInv, NEW a \in todo, MakeAgent(a) PROVE AppInv'
  OBVIOUS
<1>1. /\ UNCHANGED <<disk, env, keys, registry>> /\ pc = "agents" /\ pc' = "agents"
      /\ config' = config /\ registry' = registry /\ todo' = todo \ {a}
  BY DEF MakeAgent
<1>2. DiskOK(disk) /\ Registered /\ AgentsMade /\ config = MergedConfig
  BY <1>1 DEF AppInv
<1>3. MergedConfig' = MergedConfig /\ Registered' /\ DiskOK(disk')
  BY <1>1, <1>2, FilesStay
<1> DEFINE ac == config.agents[a]
<1>4. IdsListed(registry) /\ AgentOK(ac)
  <2>1. AgentsOK(config.agents) /\ a \in DOMAIN config.agents
    BY <1>2, MainOK DEF AgentsMade
  <2> QED BY <2>1, <1>2, RegisteredIds DEF AgentsOK
<1>5. IsRef(ac.model)
  BY <1>4 DEF AgentOK
<1> HIDE DEF ac
<1>6. CASE Candidates(ac.model) = {}
  <2>1. agents' = agents /\ DOMAIN registry = {}
    BY <1>4, <1>6, CandidatesExist DEF MakeAgent, ac
  <2>2. AgentsMade'
    BY <2>1, <1>1, <1>2 DEF AgentsMade, MadeAgent
  <2> QED BY <2>2, <1>1, <1>2, <1>3 DEF AppInv
<1>7. CASE Candidates(ac.model) # {}
  <2>1. PICK choice \in Candidates(ac.model) :
          agents' = Put(agents, a, [config |-> ac, provider |-> choice[1], modelRef |-> choice[2]])
    BY <1>7 DEF MakeAgent, ac
  <2> DEFINE made == [config |-> ac, provider |-> choice[1], modelRef |-> choice[2]]
  <2>2. Routed(registry, ac.model, choice[1], choice[2]) /\ DOMAIN registry # {}
    BY <1>4, <1>5, <1>7, CandidatesAsNamed, CandidatesExist
  <2>3. MadeAgent(made)
    BY <2>2, <1>4 DEF MadeAgent
  <2>4. agents' = Put(agents, a, made)
    BY <2>1
  <2> HIDE DEF made
  <2>5. /\ DOMAIN agents' = DOMAIN agents \cup {a} /\ agents'[a] = made
        /\ \A b \in DOMAIN agents : b # a => agents'[b] = agents[b]
        /\ agents' = [b \in DOMAIN agents' |-> agents'[b]]
    <3> DEFINE put == Put(agents, a, made)
    <3>1. /\ DOMAIN put = DOMAIN agents \cup {a} /\ put[a] = made
          /\ \A b \in DOMAIN agents : b # a => put[b] = agents[b]
          /\ put = [b \in DOMAIN put |-> put[b]]
      BY DEF Put
    <3>2. agents' = put
      BY <2>4
    <3> HIDE DEF put
    <3> QED BY <3>1, <3>2
  <2>6. ASSUME NEW b \in DOMAIN agents' PROVE MadeAgent(agents'[b])
    BY <2>3, <2>5, <1>2 DEF AgentsMade
  <2>7. DOMAIN agents' = DOMAIN config.agents \ todo'
    BY <2>2, <2>5, <1>1, <1>2 DEF AgentsMade
  <2>8. \A b \in DOMAIN agents' : MadeAgent(agents[b])'
    BY <2>6, <1>1 DEF MadeAgent
  <2>9. AgentsMade'
    BY <2>2, <2>5, <2>7, <2>8, <1>1, <1>2 DEF AgentsMade
  <2> QED BY <2>9, <1>1, <1>2, <1>3 DEF AppInv
<1> QED
  BY <1>6, <1>7

LEMMA ReadyStep == AppInv /\ Ready => AppInv'
<1> SUFFICES ASSUME AppInv, Ready PROVE AppInv'
  OBVIOUS
<1>1. /\ UNCHANGED <<disk, env, keys, registry>> /\ pc = "agents" /\ pc' = "ready"
      /\ config' = config /\ agents' = agents /\ registry' = registry /\ todo' = {} /\ todo = {}
  BY DEF Ready
<1>2. DiskOK(disk) /\ Registered /\ AgentsMade /\ config = MergedConfig
  BY <1>1 DEF AppInv
<1>3. MergedConfig' = MergedConfig /\ Registered' /\ DiskOK(disk')
  BY <1>1, <1>2, FilesStay
<1>4. AgentsMade'
  BY <1>1, <1>2 DEF AgentsMade, MadeAgent
<1> QED
  BY <1>1, <1>2, <1>3, <1>4 DEF AppInv

LEMMA SwitchStep ==
    AppInv /\ (\E a \in SwitchAgents, ref \in SwitchRefs : SwitchModel(a, ref)) => AppInv'
<1> SUFFICES ASSUME AppInv, NEW a \in SwitchAgents, NEW ref \in SwitchRefs, SwitchModel(a, ref)
             PROVE  AppInv'
  OBVIOUS
<1>1. /\ UNCHANGED <<disk, env, keys, registry>> /\ pc = "ready" /\ pc' = "ready"
      /\ config' = config /\ registry' = registry /\ todo' = todo /\ a \in DOMAIN agents
  BY DEF SwitchModel
<1>2. DiskOK(disk) /\ Registered /\ AgentsMade /\ config = MergedConfig /\ todo = {}
  BY <1>1 DEF AppInv
<1>3. MergedConfig' = MergedConfig /\ Registered' /\ DiskOK(disk')
  BY <1>1, <1>2, FilesStay
<1> DEFINE old == agents[a].config
           new == [old EXCEPT !.model = ref]
<1>4. PICK route \in Routes(registry, ref) :
        agents' = [agents EXCEPT ![a] = [config |-> new, provider |-> route[1],
                                         modelRef |-> route[2]]]
  BY DEF SwitchModel
<1>5. IsRef(ref) /\ IdsListed(registry)
  BY <1>2, SetupAssumption, ReferencesAreRefs, RegisteredIds
<1>6. Routed(registry, ref, route[1], route[2])
  BY <1>5, RoutesAsNamed
<1>7. AgentOK(old)
  BY <1>1, <1>2 DEF AgentsMade, MadeAgent
<1> HIDE DEF old
<1>8. new = AgentConfig(ref, old.prompt, old.permission)
  BY <1>7 DEF AgentOK, AgentConfig
<1>9. AgentOK(new) /\ new.model = ref
  BY <1>5, <1>8 DEF AgentOK, AgentConfig
<1> HIDE DEF new
<1> DEFINE made == [config |-> new, provider |-> route[1], modelRef |-> route[2]]
<1>10. MadeAgent(made)
  BY <1>6, <1>9 DEF MadeAgent
<1>11. agents' = [agents EXCEPT ![a] = made]
  BY <1>4
<1> HIDE DEF made
<1>12. /\ DOMAIN agents' = DOMAIN agents
       /\ \A b \in DOMAIN agents : agents'[b] = IF b = a THEN made ELSE agents[b]
       /\ agents' = [b \in DOMAIN agents' |-> agents'[b]]
  BY <1>1, <1>2, <1>11 DEF AgentsMade
<1>13. \A b \in DOMAIN agents' : MadeAgent(agents'[b])
  BY <1>2, <1>10, <1>12 DEF AgentsMade
<1>14. \A b \in DOMAIN agents' : MadeAgent(agents[b])'
  BY <1>13, <1>1 DEF MadeAgent
<1>15. AgentsMade'
  BY <1>1, <1>2, <1>12, <1>14 DEF AgentsMade
<1> QED
  BY <1>1, <1>2, <1>3, <1>15 DEF AppInv

LEMMA StutterStep == AppInv /\ UNCHANGED vars => AppInv'
<1> SUFFICES ASSUME AppInv, UNCHANGED vars PROVE AppInv'
  OBVIOUS
<1>1. /\ pc' = pc /\ disk' = disk /\ env' = env /\ config' = config /\ keys' = keys
      /\ registry' = registry /\ todo' = todo /\ agents' = agents
      /\ UNCHANGED <<disk, env, keys, registry>>
  BY DEF vars
<1>2. MainConfig' = MainConfig /\ MergedConfig' = MergedConfig /\ (Registered' <=> Registered)
  BY <1>1, FilesStay
<1>3. NothingYet' <=> NothingYet
  BY <1>1 DEF NothingYet
<1>4. AgentsMade' <=> AgentsMade
  BY <1>1 DEF AgentsMade, MadeAgent
<1> QED
  BY <1>1, <1>2, <1>3, <1>4 DEF AppInv

LEMMA NextKeepsInv == AppInv /\ Next => AppInv'
  BY LoadConfigStep, RegisterStep, MergeStep, McpStep, StartAgentsStep, MakeAgentStep, ReadyStep,
     SwitchStep DEF Next

\* The file may be changed while the program is not running.
LEMMA EditStep ==
    ASSUME AppInv, pc = "load", DiskOK(disk'),
           UNCHANGED <<pc, env, config, keys, registry, clients, todo, agents>>
    PROVE  AppInv'
  BY DEF AppInv, NothingYet

-----------------------------------------------------------------------------
(* What it says of the three properties.                                    *)

LEMMA InvRoutes == AppInv => RoutedAsNamed
<1> SUFFICES ASSUME AppInv, NEW a \in DOMAIN agents
             PROVE  Routed(registry, agents[a].config.model, agents[a].provider, agents[a].modelRef)
  BY Zenon DEF RoutedAsNamed, Routed
<1>1. CASE pc \in {"agents", "ready"}
  BY <1>1 DEF AppInv, AgentsMade, MadeAgent
<1>2. CASE pc \notin {"agents", "ready"}
  <2>1. agents = <<>>
    BY <1>2 DEF AppInv, NothingYet
  <2> QED BY <2>1
<1> QED
  BY <1>1, <1>2

LEMMA InvLeavesNobodyOut == AppInv => NobodyLeftOut
<1> SUFFICES ASSUME AppInv PROVE NobodyLeftOut
  OBVIOUS
<1>1. FileOK(Main) /\ FileOK(disk.workspace) /\ ConfigOK(MainConfig)
  BY MainOK DEF AppInv
<1> DEFINE all == IF ~Parses(Main) THEN DOMAIN Default.agents
                  ELSE DOMAIN Main.agents \cup
                         (IF "agents" \in Main.nulls THEN {} ELSE DOMAIN Default.agents)
<1>2. ASSUME pc = "ready"
      PROVE  DOMAIN agents = IF registry = <<>> THEN {} ELSE all
  <2>1. AgentsMade /\ todo = {} /\ config = MergedConfig /\ Registered /\ DiskOK(disk)
    BY <1>2 DEF AppInv
  <2>2. DOMAIN config.agents = all
    <3>1. DOMAIN config.agents = DOMAIN MainConfig.agents
      BY <2>1, MainOK
    <3>2. DOMAIN MainConfig.agents = all
      BY <1>1, LoadOK DEF MainConfig
    <3> QED BY <3>1, <3>2
  <2> HIDE DEF all
  <2>3. DOMAIN registry = {} <=> registry = <<>>
    BY <2>1 DEF Registered
  <2> QED BY <2>1, <2>2, <2>3 DEF AgentsMade
<1>3. ASSUME pc = "crashed"
      PROVE  "mcp" \in Main.nulls /\ disk.workspace.mcp # <<>>
  <2>1. MainConfig.nilMcp /\ Decode(disk.workspace).mcp # <<>>
    BY <1>3 DEF AppInv, Panics
  <2>2. "mcp" \in Main.nulls
    BY <2>1, <1>1, LoadOK DEF MainConfig
  <2>3. disk.workspace.mcp # <<>>
    BY <2>1, <1>1, DecodeIs
  <2> QED BY <2>2, <2>3
<1> QED
  BY <1>2, <1>3 DEF NobodyLeftOut

LEMMA InvLetsWorkspaceWin == AppInv => WorkspaceWins
<1> SUFFICES ASSUME AppInv, pc \in {"mcp", "agents", "ready"}, Parses(disk.workspace),
                    NEW a \in DOMAIN config.agents \cap DOMAIN disk.workspace.agents
             PROVE  LET said == disk.workspace.agents[a]
                    IN  /\ said.model # NoModel => config.agents[a].model = said.model
                        /\ said.prompt # Unset => config.agents[a].prompt = said.prompt
  BY Zenon DEF WorkspaceWins
<1> DEFINE ws == Decode(disk.workspace)
           base == MainConfig
           said == disk.workspace.agents[a]
<1>1. DiskOK(disk) /\ config = MergeWorkspace(base, ws)
  BY DEF AppInv, MergedConfig
<1>2. FileOK(Main) /\ FileOK(disk.workspace) /\ ConfigOK(base) /\ ConfigOK(ws)
  BY <1>1, MainOK
<1>3. /\ DOMAIN ws.agents = DOMAIN disk.workspace.agents \cup
                              (IF "agents" \in disk.workspace.nulls THEN {} ELSE DOMAIN Default.agents)
      /\ \A b \in DOMAIN disk.workspace.agents : ws.agents[b] = disk.workspace.agents[b]
  BY <1>2, DecodeIs, AgentsSection
<1> HIDE DEF ws, base
<1>5. a \in DOMAIN base.agents /\ config.agents[a] = Override(base.agents[a], said)
  BY <1>1, <1>2, <1>3, MergeIs
<1>6. AgentOK(base.agents[a]) /\ AgentOK(said)
  BY <1>2, <1>3, <1>5 DEF ConfigOK, AgentsOK
<1>7. /\ said.model # NoModel => config.agents[a].model = said.model
      /\ said.prompt # Unset => config.agents[a].prompt = said.prompt
  BY <1>5, <1>6, OverrideIs
<1> QED
  BY <1>7

-----------------------------------------------------------------------------
(* The invariant of the dialogue.                                           *)

Asking == {"select", "providers", "models", "agents", "write"}

\* The file the dialogue began with.
Was == IF Parses(before) THEN before ELSE Empty

\* What was typed is in cfg.
KeysTyped ==
    \A p \in answers.keys \ answers.removed :
      p \in DOMAIN cfg.providers /\ cfg.providers[p].key = "typed"

\* What was picked is in cfg, the models by the names of its providers; an
\* agent it did not have is allowed nothing by it.
ModelsPicked ==
    /\ DOMAIN Was.agents \subseteq DOMAIN cfg.agents
    /\ \A a \in DOMAIN cfg.agents :
         cfg.agents[a].permission = IF a \in DOMAIN Was.agents THEN Was.agents[a].permission
                                    ELSE Unset
    /\ \A a \in DOMAIN answers.picked :
         /\ a \in DOMAIN cfg.agents /\ cfg.agents[a].model = answers.picked[a]
         /\ answers.picked[a] \in AllModels

Edited == cfg.state = "good" /\ Kept(cfg, Was) /\ KeysTyped /\ ModelsPicked

\* What f has in this section, g has as well.
PartOf(f, g, section) ==
    \A name \in DOMAIN f[section] : name \in DOMAIN g[section] /\ f[section][name] = g[section][name]

DialogueInv ==
    /\ step \in Asking \cup {"off", "writing", "done", "stopped", "torn", "panicked"}
    /\ step \in Asking \cup {"writing"} => pc = "load"
    /\ FileOK(cfg) /\ FileOK(before)
    /\ answers = [keys |-> answers.keys, configured |-> answers.configured,
                  removed |-> answers.removed, picked |-> answers.picked]
    /\ step = "select" => cfg = Was /\ answers = NoAnswers
    /\ step \in {"providers", "models", "agents", "write", "writing", "done"} => Edited
    /\ step = "providers" => /\ chosen \in Seq(1..Items) /\ chosen # <<>> /\ Ascending(chosen)
                             /\ answers.removed = {}
    /\ step \in {"providers", "models"} => answers.picked = <<>>
    /\ step = "agents" => "agents" \notin cfg.nulls
    /\ step \in Asking \cup {"stopped", "panicked"} => File = before
    /\ step = "writing" => File = Blank
    /\ step = "torn" => \A section \in {"providers", "agents", "mcp"} : PartOf(File, cfg, section)
    /\ step = "done" => File = cfg

Inv == AppInv /\ DialogueInv

-----------------------------------------------------------------------------
(* What the steps of the dialogue do to cfg.                                *)

FileOf(ps, as, mcp, nulls, steps, tokens, compact, state) ==
    [providers |-> ps, agents |-> as, mcp |-> mcp, nulls |-> nulls,
     steps |-> steps, tokens |-> tokens, compact |-> compact, state |-> state]

LEMMA FileIs ==
    ASSUME NEW f, FileOK(f)
    PROVE  f = FileOf(f.providers, f.agents, f.mcp, f.nulls, f.steps, f.tokens, f.compact, f.state)
  BY DEF FileOK, FileOf

LEMMA EmptyOK == FileOK(Empty) /\ FileOK(Blank) /\ Parses(Empty)
<1> DEFINE full == Empty
           blank == Blank
<1>1. full = FileOf(<<>>, <<>>, <<>>, {}, Unset, Unset, Unset, "good")
  BY DEF Empty, FileOf
<1>2. blank = [full EXCEPT !.state = "blank"]
  BY DEF Blank
<1> HIDE DEF full, blank
<1>3. blank = FileOf(<<>>, <<>>, <<>>, {}, Unset, Unset, Unset, "blank")
  BY <1>1, <1>2 DEF FileOf
<1>4. Parses(full) /\ Parses(blank)
  BY <1>1, <1>3 DEF Parses, FileOf
<1>5. FileOK(full) /\ FileOK(blank)
  BY <1>1, <1>3, <1>4, NothingOK DEF FileOK, FileOf
<1> QED
  BY <1>4, <1>5 DEF full, blank

\* A file with other entries, fewer empty sections.
Changed(new, old) ==
    /\ FileOK(new) /\ new.state = old.state
    /\ new.mcp = old.mcp /\ new.steps = old.steps /\ new.tokens = old.tokens
    /\ new.compact = old.compact
    /\ old.nulls \ new.nulls \subseteq {"providers", "agents"}

LEMMA ChangedFile ==
    ASSUME NEW f, FileOK(f), Parses(f), NEW new,
           new = FileOf(new.providers, new.agents, f.mcp, new.nulls, f.steps, f.tokens, f.compact,
                        f.state),
           EntriesOK(new.providers), AgentsOK(new.agents),
           new.nulls \subseteq f.nulls, f.nulls \ new.nulls \subseteq {"providers", "agents"},
           "providers" \in new.nulls => new.providers = <<>>,
           "agents" \in new.nulls => new.agents = <<>>
    PROVE  Changed(new, f)
<1>1. /\ new.mcp = f.mcp /\ new.steps = f.steps /\ new.tokens = f.tokens
      /\ new.compact = f.compact /\ new.state = f.state
  BY DEF FileOf
<1>2. Parses(new)
  BY <1>1 DEF Parses
<1>3. "mcp" \in new.nulls => new.mcp = <<>>
  BY <1>1 DEF FileOK
<1>4. new = [providers |-> new.providers, agents |-> new.agents, mcp |-> new.mcp,
             nulls |-> new.nulls, steps |-> new.steps, tokens |-> new.tokens,
             compact |-> new.compact, state |-> new.state]
  BY <1>1 DEF FileOf
<1>5. FileOK(new)
  BY <1>2, <1>3, <1>4 DEF FileOK
<1> QED
  BY <1>1, <1>5 DEF Changed

\* Other entries in a section that is there.
LEMMA ProvidersChanged ==
    ASSUME NEW f, FileOK(f), Parses(f), NEW ps, EntriesOK(ps), "providers" \notin f.nulls,
           NEW new, new = [f EXCEPT !.providers = ps]
    PROVE  Changed(new, f) /\ new.providers = ps /\ new.agents = f.agents /\ new.nulls = f.nulls
<1>1. new = FileOf(ps, f.agents, f.mcp, f.nulls, f.steps, f.tokens, f.compact, f.state)
  <2>1. f = FileOf(f.providers, f.agents, f.mcp, f.nulls, f.steps, f.tokens, f.compact, f.state)
    BY FileIs
  <2> QED BY <2>1 DEF FileOf
<1>2. new.providers = ps /\ new.agents = f.agents /\ new.nulls = f.nulls
  BY <1>1 DEF FileOf
<1>3. /\ "agents" \in f.nulls => f.agents = <<>>
      /\ AgentsOK(f.agents)
  BY DEF FileOK
<1>4. Changed(new, f)
  BY <1>1, <1>2, <1>3, ChangedFile
<1> QED
  BY <1>2, <1>4

LEMMA AgentsChanged ==
    ASSUME NEW f, FileOK(f), Parses(f), "agents" \notin f.nulls,
           NEW new, AgentsOK(new.agents),
           new = FileOf(f.providers, new.agents, f.mcp, f.nulls, f.steps, f.tokens, f.compact, f.state)
    PROVE  Changed(new, f) /\ new.providers = f.providers /\ new.nulls = f.nulls
<1>1. new.providers = f.providers /\ new.nulls = f.nulls
  BY DEF FileOf
<1>2. /\ "providers" \in f.nulls => f.providers = <<>>
      /\ EntriesOK(f.providers)
  BY DEF FileOK
<1>3. Changed(new, f)
  BY <1>1, <1>2, ChangedFile
<1> QED
  BY <1>1, <1>3

\* A section that is there, be it empty.
LEMMA NullsChanged ==
    ASSUME NEW f, FileOK(f), Parses(f), NEW section \in {"providers", "agents"},
           NEW new, new = [f EXCEPT !.nulls = f.nulls \ {section}]
    PROVE  /\ Changed(new, f) /\ new.providers = f.providers /\ new.agents = f.agents
           /\ new.nulls = f.nulls \ {section}
<1> DEFINE ns == f.nulls \ {section}
<1>1. new = FileOf(f.providers, f.agents, f.mcp, ns, f.steps, f.tokens, f.compact, f.state)
  BY FileIs DEF FileOf
<1>2. ns \subseteq f.nulls /\ f.nulls \ ns \subseteq {"providers", "agents"}
  OBVIOUS
<1>3. /\ "providers" \in ns => f.providers = <<>>
      /\ "agents" \in ns => f.agents = <<>>
      /\ EntriesOK(f.providers) /\ AgentsOK(f.agents)
  BY DEF FileOK
<1> HIDE DEF ns
<1>4. new.providers = f.providers /\ new.agents = f.agents /\ new.nulls = ns
  BY <1>1 DEF FileOf
<1>5. Changed(new, f)
  BY <1>1, <1>2, <1>3, <1>4, ChangedFile
<1> QED
  BY <1>4, <1>5 DEF ns

LEMMA ChangedTwice ==
    ASSUME NEW a, NEW b, NEW c, Changed(b, a), Changed(c, b)
    PROVE  Changed(c, a)
  BY DEF Changed

LEMMA PutOK ==
    ASSUME NEW map, NEW x, NEW value
    PROVE  /\ EntriesOK(map) /\ EntryOK(value) => EntriesOK(Put(map, x, value))
           /\ AgentsOK(map) /\ AgentOK(value) => AgentsOK(Put(map, x, value))
<1> DEFINE put == Put(map, x, value)
<1>1. /\ DOMAIN put = (DOMAIN map) \cup {x} /\ put[x] = value
      /\ \A y \in DOMAIN map : y # x => put[y] = map[y]
      /\ put = [y \in DOMAIN put |-> put[y]]
  BY DEF Put
<1> HIDE DEF put
<1>2. ASSUME EntriesOK(map), EntryOK(value) PROVE EntriesOK(put)
  BY <1>1, <1>2 DEF EntriesOK
<1>3. ASSUME AgentsOK(map), AgentOK(value) PROVE AgentsOK(put)
  BY <1>1, <1>3 DEF AgentsOK
<1> QED
  BY <1>2, <1>3 DEF put

LEMMA ThereIs ==
    ASSUME FileOK(cfg), Parses(cfg), NEW section \in {"providers", "agents"}
    PROVE  LET there == There(section)
           IN  /\ Changed(there, cfg)
               /\ there.providers = cfg.providers /\ there.agents = cfg.agents
               /\ there.nulls = cfg.nulls \ {section}
  BY NullsChanged DEF There

LEMMA ParsesStays ==
    ASSUME NEW new, NEW old, Changed(new, old), Parses(old)
    PROVE  Parses(new)
  BY DEF Changed, Parses

\* cfg with one entry set.
LEMMA WithIs ==
    ASSUME FileOK(cfg), Parses(cfg), NEW p, NEW entry, EntryOK(entry)
    PROVE  LET with == With(p, entry)
           IN  /\ Changed(with, cfg) /\ with.agents = cfg.agents
               /\ with.providers = Put(cfg.providers, p, entry)
               /\ "providers" \notin with.nulls
<1> DEFINE mid == There("providers")
           with == With(p, entry)
           ps == Put(cfg.providers, p, entry)
<1>1. /\ Changed(mid, cfg) /\ mid.providers = cfg.providers /\ mid.agents = cfg.agents
      /\ mid.nulls = cfg.nulls \ {"providers"}
  BY ThereIs
<1>2. EntriesOK(ps)
  BY PutOK DEF FileOK
<1>3. with = [mid EXCEPT !.providers = Put(mid.providers, p, entry)]
  BY DEF With
<1> HIDE DEF mid, with
<1>4. with = [mid EXCEPT !.providers = ps]
  BY <1>1, <1>3
<1> HIDE DEF ps
<1>5. FileOK(mid) /\ Parses(mid) /\ "providers" \notin mid.nulls
  BY <1>1, ParsesStays DEF Changed
<1>6. Changed(with, mid) /\ with.providers = ps /\ with.agents = mid.agents /\ with.nulls = mid.nulls
  BY <1>2, <1>4, <1>5, ProvidersChanged
<1>7. Changed(with, cfg)
  BY <1>1, <1>6, ChangedTwice
<1> QED
  BY <1>1, <1>5, <1>6, <1>7 DEF with, ps

LEMMA EntryIs ==
    ASSUME FileOK(cfg), NEW p
    PROVE  /\ EntryOK(Entry(p))
           /\ p \in DOMAIN cfg.providers => Entry(p) = cfg.providers[p]
<1>1. CASE p \in DOMAIN cfg.providers
  BY <1>1 DEF FileOK, EntriesOK, Entry
<1>2. CASE p \notin DOMAIN cfg.providers
  <2>1. EntryOK(ProviderConfig({}, NoModel, Unset, FALSE))
    BY NoModelIsRef DEF EntryOK, ProviderConfig
  <2> QED BY <2>1, <1>2 DEF Entry
<1> QED
  BY <1>1, <1>2

\* What may become of an entry.
LEMMA EntriesAre ==
    ASSUME FileOK(cfg), NEW p, NEW key, NEW default, IsRef(default),
           NEW entry \in Entries(p, key, default)
    PROVE  /\ EntryOK(entry) /\ entry.variable = Entry(p).variable
           /\ entry.key = OrDefault(key, Entry(p).key)
<1> DEFINE old == Entry(p)
           Result(found) == [old EXCEPT !.key = OrDefault(key, @),
                                        !.default = IF default = NoModel THEN @ ELSE default,
                                        !.models = IF found = {} THEN @ ELSE found]
<1>1. PICK found \in Discoveries \cup {{}} : entry = Result(found)
  BY Zenon DEF Entries
<1>2. EntryOK(old)
  BY EntryIs
<1> HIDE DEF old
<1> DEFINE k == OrDefault(key, old.key)
           d == IF default = NoModel THEN old.default ELSE default
           m == IF found = {} THEN old.models ELSE found
           half == [old EXCEPT !.key = k]
           most == [half EXCEPT !.default = d]
<1>3. /\ entry = [most EXCEPT !.models = m]
      /\ most = [half EXCEPT !.default = d]
      /\ half = [old EXCEPT !.key = k]
  BY <1>1, Zenon
<1>4. IsRef(d) /\ \A id \in m : IsRef(id)
  <2>1. IsRef(old.default) /\ \A id \in old.models : IsRef(id)
    BY <1>2 DEF EntryOK
  <2>2. \A id \in found : IsRef(id)
    BY WizardAssumption, ReferencesAreRefs
  <2> QED BY <2>1, <2>2
<1> HIDE DEF k, d, m, half, most, Result
<1>5. old = [models |-> old.models, default |-> old.default, key |-> old.key,
             variable |-> old.variable]
  BY <1>2 DEF EntryOK, ProviderConfig
<1>6. half = [old EXCEPT !.key = k]
  BY <1>3
<1>7. half = [models |-> old.models, default |-> old.default, key |-> k, variable |-> old.variable]
  BY <1>5, <1>6
<1>8. most = [half EXCEPT !.default = d]
  BY <1>3
<1>9. most = [models |-> old.models, default |-> d, key |-> k, variable |-> old.variable]
  BY <1>7, <1>8
<1>10. entry = [most EXCEPT !.models = m]
  BY <1>3
<1>11. entry = [models |-> m, default |-> d, key |-> k, variable |-> old.variable]
  BY <1>9, <1>10
<1>12. EntryOK(entry)
  BY <1>4, <1>11 DEF EntryOK, ProviderConfig
<1>13. entry.variable = old.variable /\ entry.key = k
  BY <1>11
<1> QED
  BY <1>12, <1>13 DEF k, old

-----------------------------------------------------------------------------
(* What the dialogue has done so far is still so after the next step.       *)

\* What was kept outside the sections of providers and agents is kept.
LEMMA KeptFields ==
    ASSUME Kept(cfg, Was), Changed(cfg', cfg), before' = before
    PROVE  /\ Was' = Was
           /\ \A field \in {"mcp", "steps", "tokens", "compact"} : cfg'[field] = Was[field]
           /\ Was.nulls \ cfg'.nulls \subseteq {"providers", "agents"}
<1>1. /\ \A field \in {"mcp", "steps", "tokens", "compact"} : cfg[field] = Was[field]
      /\ Was.nulls \ cfg.nulls \subseteq {"providers", "agents"}
  BY DEF Kept
<1>2. Was' = Was
  BY DEF Was
<1> HIDE DEF Was
<1> QED
  BY <1>1, <1>2 DEF Changed

\* A section that is there where it was not changes nothing.
LEMMA ThereEdited ==
    ASSUME Edited, Changed(cfg', cfg), cfg'.providers = cfg.providers, cfg'.agents = cfg.agents,
           before' = before, answers' = answers
    PROVE  Edited'
<1>1. cfg.state = "good" /\ Kept(cfg, Was) /\ KeysTyped /\ ModelsPicked
  BY DEF Edited
<1>2. /\ Was' = Was
      /\ \A field \in {"mcp", "steps", "tokens", "compact"} : cfg'[field] = Was[field]
      /\ Was.nulls \ cfg'.nulls \subseteq {"providers", "agents"}
  BY <1>1, KeptFields
<1>3. cfg'.state = "good"
  BY <1>1 DEF Changed
<1>4. Kept(cfg, Was)'
  BY <1>1, <1>2 DEF Kept
<1>5. KeysTyped'
  BY <1>1 DEF KeysTyped
<1>6. AllModels' = AllModels
  BY DEF AllModels
<1>7. ModelsPicked'
  BY <1>1, <1>2, <1>6 DEF ModelsPicked
<1> QED
  BY <1>3, <1>4, <1>5, <1>7 DEF Edited

\* An entry that was asked about.
LEMMA EntryEdited ==
    ASSUME FileOK(cfg), Edited, answers.removed = {}, answers.picked = <<>>,
           NEW p, NEW key \in {Unset, "typed"}, NEW entry, EntryOK(entry),
           entry.variable = Entry(p).variable, entry.key = OrDefault(key, Entry(p).key),
           cfg' = With(p, entry), before' = before,
           answers'.keys = answers.keys \cup (IF key = Unset THEN {} ELSE {p}),
           answers'.configured = answers.configured \cup {p},
           answers'.removed = {}, answers'.picked = <<>>
    PROVE  FileOK(cfg') /\ Edited'
<1>1. cfg.state = "good" /\ Kept(cfg, Was) /\ KeysTyped /\ ModelsPicked
  BY DEF Edited
<1>2. /\ Changed(cfg', cfg) /\ cfg'.agents = cfg.agents
      /\ cfg'.providers = Put(cfg.providers, p, entry)
  <2>1. Parses(cfg)
    BY <1>1 DEF Parses
  <2> QED BY <2>1, WithIs
<1>3. /\ DOMAIN cfg'.providers = (DOMAIN cfg.providers) \cup {p}
      /\ cfg'.providers[p] = entry
      /\ \A q \in DOMAIN cfg.providers : q # p => cfg'.providers[q] = cfg.providers[q]
  BY <1>2 DEF Put
<1>4. /\ Was' = Was
      /\ \A field \in {"mcp", "steps", "tokens", "compact"} : cfg'[field] = Was[field]
      /\ Was.nulls \ cfg'.nulls \subseteq {"providers", "agents"}
  BY <1>1, <1>2, KeptFields
<1>5. cfg'.state = "good" /\ FileOK(cfg')
  BY <1>1, <1>2 DEF Changed
<1>6. p \in DOMAIN cfg.providers => Entry(p) = cfg.providers[p]
  BY EntryIs
<1>7. /\ DOMAIN cfg.providers = (DOMAIN Was.providers) \cup answers.configured
      /\ \A q \in DOMAIN Was.providers :
           /\ cfg.providers[q].variable = Was.providers[q].variable
           /\ cfg.providers[q].key = IF q \in answers.keys THEN "typed" ELSE Was.providers[q].key
           /\ q \notin answers.configured => cfg.providers[q] = Was.providers[q]
  BY <1>1 DEF Kept
<1>8. \A q \in answers.keys : q \in DOMAIN cfg.providers /\ cfg.providers[q].key = "typed"
  BY <1>1 DEF KeysTyped
<1>9. ASSUME NEW q \in DOMAIN Was.providers
      PROVE  /\ cfg'.providers[q].variable = Was.providers[q].variable
             /\ cfg'.providers[q].key = IF q \in answers'.keys THEN "typed" ELSE Was.providers[q].key
             /\ q \notin answers'.configured => cfg'.providers[q] = Was.providers[q]
  <2>1. CASE q # p
    BY <2>1, <1>3, <1>7
  <2>2. CASE q = p
    <3>1. /\ q \in answers'.configured /\ cfg'.providers[q] = entry
          /\ entry.variable = cfg.providers[q].variable
          /\ entry.key = OrDefault(key, cfg.providers[q].key)
      BY <2>2, <1>3, <1>6, <1>7
    <3>2. CASE key = Unset
      BY <3>1, <3>2, <2>2, <1>7 DEF OrDefault
    <3>3. CASE key # Unset
      BY <3>1, <3>3, <2>2, <1>7 DEF OrDefault
    <3> QED BY <3>2, <3>3
  <2> QED BY <2>1, <2>2
<1>10. Kept(cfg, Was)'
  <2>1. DOMAIN cfg'.providers = ((DOMAIN Was.providers) \cup answers'.configured) \ answers'.removed
    BY <1>3, <1>7
  <2>2. \A a \in DOMAIN Was.agents :
          cfg'.agents[a] = [Was.agents[a] EXCEPT
            !.model = IF a \in DOMAIN answers'.picked THEN answers'.picked[a] ELSE @]
    <3>1. \A a \in DOMAIN Was.agents :
            cfg.agents[a] = [Was.agents[a] EXCEPT
              !.model = IF a \in DOMAIN answers.picked THEN answers.picked[a] ELSE @]
      BY <1>1, Zenon DEF Kept
    <3>2. cfg'.agents = cfg.agents /\ answers'.picked = answers.picked
      BY <1>2
    <3> HIDE DEF Was
    <3> QED BY <3>1, <3>2, Zenon
  <2> QED BY <2>1, <2>2, <1>4, <1>9 DEF Kept
<1>11. KeysTyped'
  <2>1. ASSUME NEW q \in answers'.keys
        PROVE  q \in DOMAIN cfg'.providers /\ cfg'.providers[q].key = "typed"
    <3>1. CASE q # p
      BY <3>1, <1>3, <1>8
    <3>2. CASE q = p /\ key = "typed"
      BY <3>2, <1>3 DEF OrDefault, Unset
    <3>3. CASE q = p /\ key = Unset
      <4>1. q \in answers.keys
        BY <3>3
      <4>2. Entry(p) = cfg.providers[q] /\ cfg.providers[q].key = "typed"
        BY <4>1, <3>3, <1>6, <1>8
      <4> QED BY <4>2, <3>3, <1>3 DEF OrDefault, Unset
    <3> QED BY <3>1, <3>2, <3>3
  <2> QED BY <2>1 DEF KeysTyped
<1>12. ModelsPicked'
  <2>1. DOMAIN answers'.picked = {}
    OBVIOUS
  <2> QED BY <2>1, <1>1, <1>2, <1>4 DEF ModelsPicked
<1> QED
  BY <1>5, <1>10, <1>11, <1>12 DEF Edited

\* An entry that was given up, be it one that was there.
LEMMA EntryRemoved ==
    ASSUME FileOK(cfg), Edited, answers.removed = {}, answers.picked = <<>>, NEW p,
           before' = before, answers'.keys = answers.keys,
           answers'.configured = answers.configured,
           answers'.removed = {p}, answers'.picked = <<>>
    PROVE  cfg' = [With(p, Entry(p)) EXCEPT !.providers = [q \in DOMAIN @ \ {p} |-> @[q]]]
           => FileOK(cfg') /\ Edited'
<1>0. SUFFICES ASSUME cfg' = [With(p, Entry(p)) EXCEPT
                                !.providers = [q \in DOMAIN @ \ {p} |-> @[q]]]
               PROVE  FileOK(cfg') /\ Edited'
  BY Zenon
<1> DEFINE mid == With(p, Entry(p))
           ps == [q \in DOMAIN mid.providers \ {p} |-> mid.providers[q]]
<1>1. cfg.state = "good" /\ Kept(cfg, Was) /\ KeysTyped /\ ModelsPicked
  BY DEF Edited
<1>2. /\ Changed(mid, cfg) /\ mid.agents = cfg.agents
      /\ mid.providers = Put(cfg.providers, p, Entry(p))
      /\ "providers" \notin mid.nulls
  <2>1. Parses(cfg)
    BY <1>1 DEF Parses
  <2> QED BY <2>1, WithIs, EntryIs
<1>3. cfg' = [mid EXCEPT !.providers = ps]
  BY <1>0, Zenon
<1> HIDE DEF mid
<1>4. FileOK(mid) /\ Parses(mid)
  BY <1>1, <1>2 DEF Changed, Parses
<1>5. EntriesOK(ps)
  BY <1>4 DEF FileOK, EntriesOK
<1>6. /\ DOMAIN ps = DOMAIN cfg.providers \ {p}
      /\ \A q \in DOMAIN ps : ps[q] = cfg.providers[q]
  BY <1>2 DEF Put
<1> HIDE DEF ps
<1>7. Changed(cfg', mid) /\ cfg'.providers = ps /\ cfg'.agents = mid.agents
  BY <1>2, <1>3, <1>4, <1>5, ProvidersChanged
<1>8. Changed(cfg', cfg) /\ cfg'.agents = cfg.agents
  BY <1>2, <1>7, ChangedTwice
<1>9. /\ Was' = Was
      /\ \A field \in {"mcp", "steps", "tokens", "compact"} : cfg'[field] = Was[field]
      /\ Was.nulls \ cfg'.nulls \subseteq {"providers", "agents"}
  BY <1>1, <1>8, KeptFields
<1>10. cfg'.state = "good" /\ FileOK(cfg')
  BY <1>1, <1>8 DEF Changed
<1>11. Kept(cfg, Was)'
  <2>1. DOMAIN cfg'.providers = ((DOMAIN Was.providers) \cup answers'.configured) \ answers'.removed
    BY <1>1, <1>6, <1>7 DEF Kept
  <2>2. \A a \in DOMAIN Was.agents :
          cfg'.agents[a] = [Was.agents[a] EXCEPT
            !.model = IF a \in DOMAIN answers'.picked THEN answers'.picked[a] ELSE @]
    <3>1. \A a \in DOMAIN Was.agents :
            cfg.agents[a] = [Was.agents[a] EXCEPT
              !.model = IF a \in DOMAIN answers.picked THEN answers.picked[a] ELSE @]
      BY <1>1, Zenon DEF Kept
    <3>2. cfg'.agents = cfg.agents /\ answers'.picked = answers.picked
      BY <1>8
    <3> HIDE DEF Was
    <3> QED BY <3>1, <3>2, Zenon
  <2>3. ASSUME NEW q \in DOMAIN Was.providers \ {p}
        PROVE  cfg'.providers[q] = cfg.providers[q]
    BY <1>1, <1>6, <1>7 DEF Kept
  <2>4. ASSUME NEW q \in DOMAIN Was.providers \ answers'.removed
        PROVE  /\ cfg'.providers[q].variable = Was.providers[q].variable
               /\ cfg'.providers[q].key = IF q \in answers'.keys THEN "typed"
                                          ELSE Was.providers[q].key
               /\ q \notin answers'.configured => cfg'.providers[q] = Was.providers[q]
    <3>1. /\ cfg.providers[q].variable = Was.providers[q].variable
          /\ cfg.providers[q].key = IF q \in answers.keys THEN "typed" ELSE Was.providers[q].key
          /\ q \notin answers.configured => cfg.providers[q] = Was.providers[q]
      BY <1>1 DEF Kept
    <3> QED BY <3>1, <2>3
  <2> QED BY <2>1, <2>2, <2>4, <1>9 DEF Kept
<1>12. KeysTyped'
  BY <1>1, <1>6, <1>7 DEF KeysTyped
<1>13. ModelsPicked'
  <2>1. DOMAIN answers'.picked = {}
    OBVIOUS
  <2> QED BY <2>1, <1>1, <1>8, <1>9 DEF ModelsPicked
<1> QED
  BY <1>10, <1>11, <1>12, <1>13 DEF Edited

\* A model of the file is a provider's name and an id.
LEMMA AllModelsRefs ==
    ASSUME FileOK(cfg), NEW ref \in AllModels
    PROVE  /\ IsRef(ref)
           /\ \E p \in DOMAIN cfg.providers : \E id : IsRef(id) /\ id # NoModel /\ ref = <<p>> \o id
<1>1. PICK p \in DOMAIN cfg.providers :
        ref \in {<<p>> \o id : id \in (cfg.providers[p].models \cup {cfg.providers[p].default})
                                      \ {NoModel}}
  BY Zenon DEF AllModels
<1>2. PICK id \in (cfg.providers[p].models \cup {cfg.providers[p].default}) \ {NoModel} :
        ref = <<p>> \o id
  BY <1>1
<1>3. IsRef(id)
  BY DEF FileOK, EntriesOK, EntryOK
<1> QED
  BY <1>2, <1>3, RefJoin

\* An agent that is given another model.
LEMMA ModelSet ==
    ASSUME NEW e, AgentOK(e), NEW m
    PROVE  [e EXCEPT !.model = m] = AgentConfig(m, e.prompt, e.permission)
<1> DEFINE new == [e EXCEPT !.model = m]
<1>1. e = AgentConfig(e.model, e.prompt, e.permission)
  BY DEF AgentOK
<1>2. new = [e EXCEPT !.model = m]
  OBVIOUS
<1> HIDE DEF new
<1>3. new = AgentConfig(m, e.prompt, e.permission)
  BY <1>1, <1>2 DEF AgentConfig
<1> QED
  BY <1>3 DEF new

LEMMA WasOK == FileOK(before) => FileOK(Was) /\ Parses(Was)
  BY EmptyOK DEF Was

LEMMA PickEdited ==
    ASSUME FileOK(cfg), FileOK(before), Edited, "agents" \notin cfg.nulls, NEW a,
           NEW ref \in AllModels, before' = before, answers'.keys = answers.keys,
           answers'.configured = answers.configured, answers'.removed = answers.removed,
           answers'.picked = Put(answers.picked, a, ref)
    PROVE  cfg' = [cfg EXCEPT !.agents = Put(@, a, [AgentOf(a) EXCEPT !.model = ref])]
           => FileOK(cfg') /\ Edited' /\ "agents" \notin cfg'.nulls
<1>0. SUFFICES ASSUME cfg' = [cfg EXCEPT !.agents = Put(@, a, [AgentOf(a) EXCEPT !.model = ref])]
               PROVE  FileOK(cfg') /\ Edited' /\ "agents" \notin cfg'.nulls
  BY Zenon
<1> DEFINE old == AgentOf(a)
           new == [old EXCEPT !.model = ref]
           as == Put(cfg.agents, a, new)
<1>1. cfg.state = "good" /\ Kept(cfg, Was) /\ KeysTyped /\ ModelsPicked
  BY DEF Edited
<1>2. AgentOK(old)
  <2>1. AgentOK(AgentConfig(NoModel, Unset, Unset))
    BY NoModelIsRef DEF AgentOK, AgentConfig
  <2> QED BY <2>1 DEF AgentOf, FileOK, AgentsOK
<1>3. IsRef(ref)
  BY AllModelsRefs
<1>4. cfg' = [cfg EXCEPT !.agents = as]
  BY <1>0, Zenon
<1>5. /\ a \in DOMAIN cfg.agents => old = cfg.agents[a]
      /\ a \notin DOMAIN cfg.agents => old.permission = Unset
  BY DEF AgentOf, AgentConfig
<1> HIDE DEF old
<1>6. new = AgentConfig(ref, old.prompt, old.permission)
  BY <1>2, ModelSet, Zenon
<1> HIDE DEF new
<1>7. AgentOK(new) /\ new.model = ref /\ new.permission = old.permission /\ new.prompt = old.prompt
  BY <1>3, <1>6 DEF AgentOK, AgentConfig
<1>8. AgentsOK(as)
  BY <1>7, PutOK DEF FileOK
<1>9. /\ DOMAIN as = (DOMAIN cfg.agents) \cup {a} /\ as[a] = new
      /\ \A b \in DOMAIN cfg.agents : b # a => as[b] = cfg.agents[b]
  BY DEF Put
<1> HIDE DEF as
<1>10. /\ Changed(cfg', cfg) /\ cfg'.providers = cfg.providers /\ cfg'.agents = as
       /\ cfg'.nulls = cfg.nulls
  <2>1. Parses(cfg)
    BY <1>1 DEF Parses
  <2>2. cfg = FileOf(cfg.providers, cfg.agents, cfg.mcp, cfg.nulls, cfg.steps, cfg.tokens,
                     cfg.compact, cfg.state)
    BY FileIs
  <2>3. cfg' = FileOf(cfg.providers, as, cfg.mcp, cfg.nulls, cfg.steps, cfg.tokens, cfg.compact,
                      cfg.state)
    BY <2>2, <1>4 DEF FileOf
  <2>4. cfg'.agents = as
    BY <2>3 DEF FileOf
  <2>5. /\ FileOK(cfg) /\ "agents" \notin cfg.nulls /\ AgentsOK(cfg'.agents)
        /\ cfg' = FileOf(cfg.providers, cfg'.agents, cfg.mcp, cfg.nulls, cfg.steps, cfg.tokens,
                         cfg.compact, cfg.state)
    BY <2>3, <2>4, <1>8
  <2> QED BY <2>1, <2>4, <2>5, AgentsChanged
<1>11. /\ Was' = Was
       /\ \A field \in {"mcp", "steps", "tokens", "compact"} : cfg'[field] = Was[field]
       /\ Was.nulls \ cfg'.nulls \subseteq {"providers", "agents"}
  BY <1>1, <1>10, KeptFields
<1>12. cfg'.state = "good" /\ FileOK(cfg')
  BY <1>1, <1>10 DEF Changed
<1> DEFINE picked == answers.picked
           picks == answers'.picked
<1>13. /\ DOMAIN picks = (DOMAIN picked) \cup {a} /\ picks[a] = ref
       /\ \A b \in DOMAIN picked : b # a => picks[b] = picked[b]
  BY DEF Put
<1> HIDE DEF picked, picks
<1>14. /\ DOMAIN Was.agents \subseteq DOMAIN cfg.agents
       /\ \A b \in DOMAIN cfg.agents :
            cfg.agents[b].permission = IF b \in DOMAIN Was.agents THEN Was.agents[b].permission
                                       ELSE Unset
       /\ \A b \in DOMAIN picked :
            b \in DOMAIN cfg.agents /\ cfg.agents[b].model = picked[b] /\ picked[b] \in AllModels
  BY <1>1 DEF ModelsPicked, picked
<1>15. ASSUME NEW b \in DOMAIN Was.agents
       PROVE  cfg'.agents[b] = [Was.agents[b] EXCEPT
                !.model = IF b \in DOMAIN picks THEN picks[b] ELSE @]
  <2> DEFINE w == Was.agents[b]
             m == IF b \in DOMAIN picked THEN picked[b] ELSE w.model
             n == IF b \in DOMAIN picks THEN picks[b] ELSE w.model
  <2>1. AgentOK(w)
    BY WasOK DEF FileOK, AgentsOK
  <2>2. cfg.agents[b] = [w EXCEPT !.model = m]
    BY <1>1, Zenon DEF Kept, picked
  <2> HIDE DEF w
  <2>3. /\ [w EXCEPT !.model = m] = AgentConfig(m, w.prompt, w.permission)
        /\ [w EXCEPT !.model = n] = AgentConfig(n, w.prompt, w.permission)
    BY <2>1, ModelSet, Zenon
  <2>4. cfg.agents[b] = AgentConfig(m, w.prompt, w.permission)
    BY <2>2, <2>3, Zenon
  <2>5. CASE b = a
    <3>1. n = ref
      BY <2>5, <1>13
    <3>2. b \in DOMAIN cfg.agents
      BY <1>14
    <3>3. old.prompt = w.prompt /\ old.permission = w.permission
      BY <3>2, <2>4, <2>5, <1>5 DEF AgentConfig
    <3>4. cfg'.agents[b] = AgentConfig(n, w.prompt, w.permission)
      BY <3>1, <3>3, <2>5, <1>6, <1>9, <1>10
    <3> QED BY <3>4, <2>3, Zenon DEF w
  <2>6. CASE b # a
    <3>1. n = m
      BY <2>6, <1>13
    <3>2. cfg'.agents[b] = cfg.agents[b]
      BY <2>6, <1>9, <1>10, <1>14
    <3>3. cfg'.agents[b] = AgentConfig(n, w.prompt, w.permission)
      BY <3>1, <3>2, <2>4
    <3> QED BY <3>3, <2>3, Zenon DEF w
  <2> QED BY <2>5, <2>6
<1>16. Kept(cfg, Was)'
  <2>1. /\ DOMAIN cfg.providers = ((DOMAIN Was.providers) \cup answers.configured) \ answers.removed
        /\ \A p \in DOMAIN Was.providers \ answers.removed :
             /\ cfg.providers[p].variable = Was.providers[p].variable
             /\ cfg.providers[p].key = IF p \in answers.keys THEN "typed" ELSE Was.providers[p].key
             /\ p \notin answers.configured => cfg.providers[p] = Was.providers[p]
    BY <1>1 DEF Kept
  <2> HIDE DEF Was
  <2>2. \A b \in DOMAIN Was.agents :
          cfg'.agents[b] = [Was.agents[b] EXCEPT
            !.model = IF b \in DOMAIN answers'.picked THEN answers'.picked[b] ELSE @]
    BY <1>15, Zenon DEF picks
  <2>3. \A b \in DOMAIN Was'.agents :
          cfg'.agents[b] = [Was'.agents[b] EXCEPT
            !.model = IF b \in DOMAIN answers'.picked THEN answers'.picked[b] ELSE @]
    BY <2>2, <1>11, Zenon
  <2>4. /\ DOMAIN cfg'.providers = ((DOMAIN Was'.providers) \cup answers'.configured)
                                   \ answers'.removed
        /\ \A p \in DOMAIN Was'.providers \ answers'.removed :
             /\ cfg'.providers[p].variable = Was'.providers[p].variable
             /\ cfg'.providers[p].key = IF p \in answers'.keys THEN "typed"
                                        ELSE Was'.providers[p].key
             /\ p \notin answers'.configured => cfg'.providers[p] = Was'.providers[p]
    BY <2>1, <1>10, <1>11
  <2>5. /\ \A field \in {"mcp", "steps", "tokens", "compact"} : cfg'[field] = Was'[field]
        /\ Was'.nulls \ cfg'.nulls \subseteq {"providers", "agents"}
    BY <1>11
  <2> QED BY <2>3, <2>4, <2>5, Zenon DEF Kept
<1>17. KeysTyped'
  BY <1>1, <1>10 DEF KeysTyped
<1>18. AllModels' = AllModels
  BY <1>10 DEF AllModels
<1>19. ModelsPicked'
  <2>1. DOMAIN Was.agents \subseteq DOMAIN cfg'.agents
    BY <1>9, <1>10, <1>14
  <2>2. ASSUME NEW b \in DOMAIN cfg'.agents
        PROVE  cfg'.agents[b].permission = IF b \in DOMAIN Was.agents THEN Was.agents[b].permission
                                           ELSE Unset
    <3>1. CASE b = a
      <4>1. cfg'.agents[b].permission = old.permission
        BY <3>1, <1>7, <1>9, <1>10
      <4> QED BY <4>1, <3>1, <1>5, <1>14
    <3>2. CASE b # a
      BY <3>2, <1>9, <1>10, <1>14
    <3> QED BY <3>1, <3>2
  <2>3. ASSUME NEW b \in DOMAIN picks
        PROVE  b \in DOMAIN cfg'.agents /\ cfg'.agents[b].model = picks[b] /\ picks[b] \in AllModels
    <3>1. CASE b = a
      BY <3>1, <1>7, <1>9, <1>10, <1>13
    <3>2. CASE b # a
      BY <3>2, <1>9, <1>10, <1>13, <1>14
    <3> QED BY <3>1, <3>2
  <2> HIDE DEF Was, AllModels
  <2> QED BY <2>1, <2>2, <2>3, <1>11, <1>18 DEF ModelsPicked, picks
<1> QED
  BY <1>10, <1>12, <1>16, <1>17, <1>19 DEF Edited

-----------------------------------------------------------------------------
(* Every step of the dialogue keeps the invariant.                          *)

\* The dialogue as it is, on the file as it is.
LEMMA DialogueStays ==
    ASSUME DialogueInv, UNCHANGED dialogue, File' = File,
           step \in Asking \cup {"writing"} => pc' = pc
    PROVE  DialogueInv'
<1>1. /\ step' = step /\ chosen' = chosen /\ cfg' = cfg /\ before' = before /\ answers' = answers
  BY DEF dialogue
<1>2. Was' = Was /\ AllModels' = AllModels
  BY <1>1 DEF Was, AllModels
<1>3. Edited' <=> Edited
  BY <1>1, <1>2 DEF Edited, Kept, KeysTyped, ModelsPicked
<1> QED
  BY <1>1, <1>2, <1>3 DEF DialogueInv

LEMMA EditedStays ==
    ASSUME UNCHANGED <<cfg, answers, before>>
    PROVE  Edited' <=> Edited
<1>1. cfg' = cfg /\ answers' = answers /\ before' = before
  OBVIOUS
<1>2. Was' = Was /\ AllModels' = AllModels
  BY <1>1 DEF Was, AllModels
<1> QED
  BY <1>1, <1>2 DEF Edited, Kept, KeysTyped, ModelsPicked

LEMMA ProjectOK == DiskOK(disk) => FileOK(File)
  BY DEF DiskOK, File, Places

LEMMA WizardInitInv == WizardInit => Inv
<1> SUFFICES ASSUME WizardInit PROVE Inv
  OBVIOUS
<1>1. AppInv
  BY InitInv DEF WizardInit
<1>2. FileOK(before) /\ FileOK(cfg) /\ step = "off"
  BY <1>1, EmptyOK, ProjectOK DEF WizardInit, AppInv
<1>3. answers = [keys |-> answers.keys, configured |-> answers.configured,
                 removed |-> answers.removed, picked |-> answers.picked]
  BY DEF WizardInit, NoAnswers
<1>4. DialogueInv
  BY <1>2, <1>3 DEF DialogueInv, Asking
<1> QED
  BY <1>1, <1>4 DEF Inv

\* Steps that leave the program and its files alone.
LEMMA AppStays ==
    ASSUME AppInv, UNCHANGED vars
    PROVE  AppInv' /\ File' = File /\ pc' = pc
  BY StutterStep DEF vars, File

LEMMA ConfigureStep == Inv /\ Configure => Inv'
<1> SUFFICES ASSUME Inv, Configure PROVE Inv'
  OBVIOUS
<1>1. /\ UNCHANGED vars /\ pc = "load" /\ before' = File /\ step' = "select" /\ answers' = NoAnswers
      /\ cfg' = IF Parses(File) THEN File ELSE Empty
  BY DEF Configure
<1>2. AppInv' /\ File' = File /\ pc' = "load"
  BY <1>1, AppStays DEF Inv
<1>3. FileOK(before') /\ FileOK(cfg')
  BY <1>1, EmptyOK, ProjectOK DEF Inv, AppInv
<1>4. cfg' = Was'
  BY <1>1 DEF Was
<1>5. answers' = [keys |-> answers'.keys, configured |-> answers'.configured,
                  removed |-> answers'.removed, picked |-> answers'.picked]
  BY <1>1 DEF NoAnswers
<1>6. DialogueInv'
  BY <1>1, <1>2, <1>3, <1>4, <1>5 DEF DialogueInv, Asking
<1> QED
  BY <1>2, <1>6 DEF Inv

LEMMA SelectStep == Inv /\ Select => Inv'
<1> SUFFICES ASSUME Inv, Select PROVE Inv'
  OBVIOUS
<1>1. UNCHANGED vars /\ UNCHANGED dialogue
  BY DEF Select
<1>2. AppInv' /\ File' = File /\ pc' = pc
  BY <1>1, AppStays DEF Inv
<1> QED
  BY <1>1, <1>2, DialogueStays DEF Inv

\* At the start of the questions nothing has been changed.
LEMMA StartEdited ==
    ASSUME FileOK(before), cfg = Was, answers = NoAnswers, cfg.state = "good"
    PROVE  Edited
<1>1. /\ answers.keys = {} /\ answers.configured = {} /\ answers.removed = {}
      /\ DOMAIN answers.picked = {}
  BY DEF NoAnswers
<1>2. ASSUME NEW a \in DOMAIN Was.agents
      PROVE  cfg.agents[a] = [Was.agents[a] EXCEPT
               !.model = IF a \in DOMAIN answers.picked THEN answers.picked[a] ELSE @]
  <2> DEFINE w == Was.agents[a]
             m == IF a \in DOMAIN answers.picked THEN answers.picked[a] ELSE w.model
  <2>1. AgentOK(w)
    BY WasOK DEF FileOK, AgentsOK
  <2>2. m = w.model
    BY <1>1
  <2> HIDE DEF w, m
  <2>3. [w EXCEPT !.model = m] = AgentConfig(m, w.prompt, w.permission)
    BY <2>1, ModelSet, Zenon
  <2>4. [w EXCEPT !.model = m] = w
    BY <2>1, <2>2, <2>3 DEF AgentOK
  <2>5. cfg.agents[a] = w
    BY DEF w
  <2> QED BY <2>4, <2>5, Zenon DEF w, m
<1>3. Kept(cfg, Was)
  BY <1>1, <1>2 DEF Kept
<1>4. KeysTyped /\ ModelsPicked
  BY <1>1 DEF KeysTyped, ModelsPicked
<1> QED
  BY <1>3, <1>4 DEF Edited

LEMMA SelectedStep == Inv /\ Selected => Inv'
<1> SUFFICES ASSUME Inv, Selected PROVE Inv'
  OBVIOUS
<1>1. /\ UNCHANGED vars /\ before' = before /\ answers' = answers /\ step = "select"
      /\ chosen' = Within([i \in 1..Items |-> i], list.ticked)
      /\ step' = IF list.state = "exited" THEN "stopped"
                 ELSE IF cfg.state = "blank" THEN "panicked"
                 ELSE IF chosen' = <<>> THEN "write" ELSE "providers"
      /\ cfg' = IF step' = "write" THEN There("agents") ELSE cfg
  BY DEF Selected
<1>2. AppInv' /\ File' = File /\ pc' = pc
  BY <1>1, AppStays DEF Inv
<1>3. /\ pc = "load" /\ FileOK(cfg) /\ FileOK(before) /\ cfg = Was /\ answers = NoAnswers
      /\ File = before
      /\ answers = [keys |-> answers.keys, configured |-> answers.configured,
                    removed |-> answers.removed, picked |-> answers.picked]
  BY <1>1 DEF Inv, DialogueInv, Asking
<1>4. Was' = Was /\ Parses(cfg)
  BY <1>1, <1>3, WasOK DEF Was
<1>5. CASE step' \in {"stopped", "panicked"}
  <2>1. cfg' = cfg
    BY <1>1, <1>5
  <2>2. DialogueInv'
    BY <2>1, <1>1, <1>2, <1>3, <1>5 DEF DialogueInv, Asking
  <2> QED BY <2>2, <1>2 DEF Inv
<1>6. CASE step' = "write"
  <2>1. cfg' = There("agents") /\ cfg.state = "good"
    BY <1>1, <1>4, <1>6 DEF Parses
  <2>2. Edited
    BY <2>1, <1>3, StartEdited
  <2>3. Changed(cfg', cfg) /\ cfg'.providers = cfg.providers /\ cfg'.agents = cfg.agents
    BY <2>1, <1>3, <1>4, ThereIs
  <2>4. Edited' /\ FileOK(cfg')
    BY <2>2, <2>3, <1>1, ThereEdited DEF Changed
  <2>5. DialogueInv'
    BY <2>4, <1>1, <1>2, <1>3, <1>6 DEF DialogueInv, Asking
  <2> QED BY <2>5, <1>2 DEF Inv
<1>7. CASE step' = "providers"
  <2>1. cfg' = cfg /\ cfg.state = "good" /\ chosen' # <<>>
    BY <1>1, <1>4, <1>7 DEF Parses
  <2>2. Edited
    BY <2>1, <1>3, StartEdited
  <2>3. Edited'
    BY <2>1, <2>2, <1>1, EditedStays
  <2>4. chosen' \in Seq(1..Items) /\ Ascending(chosen')
    <3> DEFINE s == [i \in 1..Items |-> i]
    <3>1. Items \in Nat
      BY MultiSelectAssumption
    <3>2. s \in Seq(1..Items) /\ s \in Seq(Int) /\ Len(s) = Items
      BY <3>1
    <3>3. Ascending(s)
      BY <3>1, <3>2 DEF Ascending
    <3> HIDE DEF s
    <3>4. Within(s, list.ticked) \in Seq(1..Items) /\ Ascending(Within(s, list.ticked))
      BY <3>2, <3>3, WithinIsPart, WithinAscending
    <3> QED BY <3>4, <1>1 DEF s
  <2>5. answers'.removed = {} /\ answers'.picked = <<>>
    BY <1>1, <1>3 DEF NoAnswers
  <2>6. DialogueInv'
    BY <2>1, <2>3, <2>4, <2>5, <1>1, <1>2, <1>3, <1>7 DEF DialogueInv, Asking
  <2> QED BY <2>6, <1>2 DEF Inv
<1> QED
  BY <1>1, <1>5, <1>6, <1>7

\* What is left of the items after the first one.
LEMMA TailAscending ==
    ASSUME NEW N \in Nat, NEW s \in Seq(1..N), s # <<>>, Ascending(s)
    PROVE  /\ Head(s) \in 1..N /\ Tail(s) \in Seq(1..N) /\ Ascending(Tail(s))
           /\ Head(s) = N => Tail(s) = <<>>
<1>1. /\ Head(s) = s[1] /\ Len(s) \in Nat /\ Len(s) # 0
      /\ \A i \in 1..Len(s) : s[i] \in 1..N
  BY ElementOfSeq
<1>2. /\ Tail(s) \in Seq(1..N) /\ Len(Tail(s)) = Len(s) - 1
      /\ \A i \in 1..Len(s) - 1 : Tail(s)[i] = s[i + 1]
  BY <1>1
<1>3. Ascending(Tail(s))
  BY <1>1, <1>2 DEF Ascending
<1>4. ASSUME Head(s) = N PROVE Tail(s) = <<>>
  <2>1. ASSUME Len(s) > 1 PROVE FALSE
    <3>1. s[1] < s[2] /\ s[2] \in 1..N
      BY <2>1, <1>1 DEF Ascending
    <3> QED BY <3>1, <1>1, <1>4
  <2>2. Len(Tail(s)) = 0
    BY <2>1, <1>1, <1>2
  <2> QED BY <2>2, <1>2
<1> QED
  BY <1>1, <1>2, <1>3, <1>4

\* What a question about a provider leaves of the answers.
LEMMA AnswersAre ==
    ASSUME answers = [keys |-> answers.keys, configured |-> answers.configured,
                      removed |-> answers.removed, picked |-> answers.picked], NEW p, NEW key
    PROVE  /\ answers' = [answers EXCEPT !.keys = @ \cup (IF key = Unset THEN {} ELSE {p}),
                                         !.configured = @ \cup {p}]
              => answers' = [keys |-> answers.keys \cup (IF key = Unset THEN {} ELSE {p}),
                             configured |-> answers.configured \cup {p},
                             removed |-> answers.removed, picked |-> answers.picked]
           /\ answers' = [answers EXCEPT !.removed = @ \cup {p}]
              => answers' = [keys |-> answers.keys, configured |-> answers.configured,
                             removed |-> answers.removed \cup {p}, picked |-> answers.picked]
           /\ answers' = [answers EXCEPT !.picked = Put(@, p, key)]
              => answers' = [keys |-> answers.keys, configured |-> answers.configured,
                             removed |-> answers.removed, picked |-> Put(answers.picked, p, key)]
<1>1. ASSUME answers' = [answers EXCEPT !.keys = @ \cup (IF key = Unset THEN {} ELSE {p}),
                                        !.configured = @ \cup {p}]
      PROVE  answers' = [keys |-> answers.keys \cup (IF key = Unset THEN {} ELSE {p}),
                         configured |-> answers.configured \cup {p},
                         removed |-> answers.removed, picked |-> answers.picked]
  <2> DEFINE ks == answers.keys \cup (IF key = Unset THEN {} ELSE {p})
             cs == answers.configured \cup {p}
             half == [answers EXCEPT !.keys = ks]
  <2>1. answers' = [half EXCEPT !.configured = cs] /\ half = [answers EXCEPT !.keys = ks]
    BY <1>1, Zenon
  <2> HIDE DEF half, ks, cs
  <2>2. half = [answers EXCEPT !.keys = ks]
    BY <2>1
  <2>3. half = [keys |-> ks, configured |-> answers.configured,
                removed |-> answers.removed, picked |-> answers.picked]
    BY <2>2
  <2>4. answers' = [half EXCEPT !.configured = cs]
    BY <2>1
  <2>5. answers' = [keys |-> ks, configured |-> cs,
                    removed |-> answers.removed, picked |-> answers.picked]
    BY <2>3, <2>4
  <2> QED BY <2>5 DEF ks, cs
<1>2. ASSUME answers' = [answers EXCEPT !.removed = @ \cup {p}]
      PROVE  answers' = [keys |-> answers.keys, configured |-> answers.configured,
                         removed |-> answers.removed \cup {p}, picked |-> answers.picked]
  BY <1>2
<1>3. ASSUME answers' = [answers EXCEPT !.picked = Put(@, p, key)]
      PROVE  answers' = [keys |-> answers.keys, configured |-> answers.configured,
                         removed |-> answers.removed, picked |-> Put(answers.picked, p, key)]
  <2> DEFINE picks == Put(answers.picked, p, key)
  <2>1. answers' = [answers EXCEPT !.picked = picks]
    BY <1>3, Zenon
  <2> HIDE DEF picks
  <2>2. answers' = [keys |-> answers.keys, configured |-> answers.configured,
                    removed |-> answers.removed, picked |-> picks]
    BY <2>1
  <2> QED BY <2>2 DEF picks
<1> QED
  BY <1>1, <1>2, <1>3, Zenon

\* A provider, be it one of the list or a custom one, that was asked about.
LEMMA AskedAbout ==
    ASSUME FileOK(cfg), Edited, answers.removed = {}, answers.picked = <<>>, before' = before,
           answers = [keys |-> answers.keys, configured |-> answers.configured,
                      removed |-> answers.removed, picked |-> answers.picked],
           NEW p, NEW key \in {Unset, "typed"}, NEW default, IsRef(default),
           NEW entry \in Entries(p, key, default), cfg' = With(p, entry)
    PROVE  answers' = [answers EXCEPT !.keys = @ \cup (IF key = Unset THEN {} ELSE {p}),
                                      !.configured = @ \cup {p}]
           => /\ FileOK(cfg') /\ Edited' /\ answers'.removed = {} /\ answers'.picked = <<>>
              /\ answers' = [keys |-> answers'.keys, configured |-> answers'.configured,
                             removed |-> answers'.removed, picked |-> answers'.picked]
<1>0. SUFFICES ASSUME answers' = [answers EXCEPT !.keys = @ \cup (IF key = Unset THEN {} ELSE {p}),
                                                 !.configured = @ \cup {p}]
               PROVE  /\ FileOK(cfg') /\ Edited' /\ answers'.removed = {} /\ answers'.picked = <<>>
                      /\ answers' = [keys |-> answers'.keys, configured |-> answers'.configured,
                                     removed |-> answers'.removed, picked |-> answers'.picked]
  BY Zenon
<1>1. answers' = [keys |-> answers.keys \cup (IF key = Unset THEN {} ELSE {p}),
                  configured |-> answers.configured \cup {p},
                  removed |-> answers.removed, picked |-> answers.picked]
  BY <1>0, AnswersAre, Zenon
<1>2. /\ answers'.keys = answers.keys \cup (IF key = Unset THEN {} ELSE {p})
      /\ answers'.configured = answers.configured \cup {p}
      /\ answers'.removed = {} /\ answers'.picked = <<>>
  BY <1>1
<1>3. answers' = [keys |-> answers'.keys, configured |-> answers'.configured,
                  removed |-> answers'.removed, picked |-> answers'.picked]
  BY <1>1
<1>4. EntryOK(entry) /\ entry.variable = Entry(p).variable /\ entry.key = OrDefault(key, Entry(p).key)
  BY EntriesAre
<1>5. FileOK(cfg') /\ Edited'
  BY <1>2, <1>4, EntryEdited
<1> QED
  BY <1>2, <1>3, <1>5

LEMMA ConfigureNextStep == Inv /\ ConfigureNext => Inv'
<1> SUFFICES ASSUME Inv, ConfigureNext PROVE Inv'
  OBVIOUS
<1> DEFINE p == KnownProviders[Head(chosen)]
<1>1. /\ UNCHANGED vars /\ before' = before /\ step = "providers" /\ chosen' = Tail(chosen)
      /\ step' = IF chosen' = <<>> THEN "models" ELSE step
      /\ IF p = "" THEN ConfigureCustom ELSE ConfigureProvider(p)
  BY DEF ConfigureNext
<1>2. AppInv' /\ File' = File /\ pc' = pc
  BY <1>1, AppStays DEF Inv
<1>3. /\ pc = "load" /\ FileOK(cfg) /\ FileOK(before) /\ File = before /\ Edited
      /\ chosen \in Seq(1..Items) /\ chosen # <<>> /\ Ascending(chosen)
      /\ answers.removed = {} /\ answers.picked = <<>>
      /\ answers = [keys |-> answers.keys, configured |-> answers.configured,
                    removed |-> answers.removed, picked |-> answers.picked]
  BY <1>1 DEF Inv, DialogueInv, Asking
<1>4. /\ Head(chosen) \in 1..Items /\ chosen' \in Seq(1..Items) /\ Ascending(chosen')
      /\ Head(chosen) = Items => chosen' = <<>>
  BY <1>1, <1>3, TailAscending, MultiSelectAssumption
<1>5. /\ p = "" => step' = "models"
      /\ step' \in {"providers", "models"}
      /\ step' = "providers" => chosen' # <<>>
  BY <1>1, <1>4, WizardAssumption
<1>6. ASSUME FileOK(cfg'), Edited', answers'.picked = <<>>,
             answers'.removed = {} \/ step' = "models",
             answers' = [keys |-> answers'.keys, configured |-> answers'.configured,
                         removed |-> answers'.removed, picked |-> answers'.picked]
      PROVE  Inv'
  <2>1. DialogueInv'
    BY <1>1, <1>2, <1>3, <1>4, <1>5, <1>6 DEF DialogueInv, Asking
  <2> QED BY <2>1, <1>2 DEF Inv
<1>7. CASE p # ""
  <2>1. ConfigureProvider(p)
    BY <1>1, <1>7
  <2>2. IsRef(DefaultModel[p])
    <3> DEFINE T == (DOMAIN DefaultModel) \cup {""}
    <3>1. KnownProviders \in Seq(T) /\ Head(chosen) \in 1..Len(KnownProviders)
      BY <1>4, WizardAssumption
    <3> HIDE DEF T
    <3>2. p \in T
      BY <3>1, ElementOfSeq
    <3> QED BY <3>2, <1>7, DefaultModelIsRef DEF T
  <2> HIDE DEF p
  <2>3. PICK key \in IF NeedsKey(p) THEN {Unset, "typed"} ELSE {Unset} :
          /\ \E entry \in Entries(p, key, DefaultModel[p]) : cfg' = With(p, entry)
          /\ answers' = [answers EXCEPT !.keys = @ \cup (IF key = Unset THEN {} ELSE {p}),
                                        !.configured = @ \cup {p}]
    BY <2>1, Zenon DEF ConfigureProvider
  <2>4. PICK entry \in Entries(p, key, DefaultModel[p]) : cfg' = With(p, entry)
    BY <2>3, Zenon
  <2>5. key \in {Unset, "typed"}
    OBVIOUS
  <2>6. answers' = [answers EXCEPT !.keys = @ \cup (IF key = Unset THEN {} ELSE {p}),
                                   !.configured = @ \cup {p}]
    BY <2>3, Zenon
  <2>7. /\ FileOK(cfg') /\ Edited' /\ answers'.removed = {} /\ answers'.picked = <<>>
        /\ answers' = [keys |-> answers'.keys, configured |-> answers'.configured,
                       removed |-> answers'.removed, picked |-> answers'.picked]
    BY <2>2, <2>4, <2>5, <2>6, <1>1, <1>3, AskedAbout, Zenon
  <2> QED BY <2>7, <1>6
<1>8. CASE p = ""
  <2>1. ConfigureCustom /\ step' = "models"
    BY <1>1, <1>5, <1>8
  <2>2. CASE cfg' = There("providers") /\ UNCHANGED answers
    <3>1. Parses(cfg)
      BY <1>3 DEF Edited, Parses
    <3>2. /\ Changed(cfg', cfg) /\ cfg'.providers = cfg.providers /\ cfg'.agents = cfg.agents
      BY <3>1, <2>2, <1>3, ThereIs
    <3>3. Edited' /\ FileOK(cfg')
      BY <3>2, <2>2, <1>1, <1>3, ThereEdited DEF Changed
    <3> QED BY <3>3, <2>1, <2>2, <1>3, <1>6
  <2>3. ASSUME NEW q \in CustomNames,
               cfg' = [With(q, Entry(q)) EXCEPT !.providers = [r \in DOMAIN @ \ {q} |-> @[r]]],
               answers' = [answers EXCEPT !.removed = @ \cup {q}]
        PROVE  Inv'
    <3>1. answers' = [keys |-> answers.keys, configured |-> answers.configured,
                      removed |-> answers.removed \cup {q}, picked |-> answers.picked]
      BY <2>3, <1>3, AnswersAre, Zenon
    <3>2. /\ answers'.keys = answers.keys /\ answers'.configured = answers.configured
          /\ answers'.removed = {q} /\ answers'.picked = <<>>
      BY <3>1, <1>3
    <3>3. answers' = [keys |-> answers'.keys, configured |-> answers'.configured,
                      removed |-> answers'.removed, picked |-> answers'.picked]
      BY <3>1
    <3>4. cfg' = [With(q, Entry(q)) EXCEPT !.providers = [r \in DOMAIN @ \ {q} |-> @[r]]]
      BY <2>3, Zenon
    <3>5. FileOK(cfg') /\ Edited'
      BY <3>2, <3>4, <1>1, <1>3, EntryRemoved, Zenon
    <3> QED BY <3>2, <3>3, <3>5, <2>1, <1>6
  <2>4. ASSUME NEW q \in CustomNames, NEW key \in {Unset, "typed"}, NEW default \in CustomModels,
               NEW entry \in Entries(q, key, default), cfg' = With(q, entry),
               answers' = [answers EXCEPT !.keys = @ \cup (IF key = Unset THEN {} ELSE {q}),
                                          !.configured = @ \cup {q}]
        PROVE  Inv'
    <3>1. IsRef(default)
      BY WizardAssumption, ReferencesAreRefs
    <3>2. answers' = [answers EXCEPT !.keys = @ \cup (IF key = Unset THEN {} ELSE {q}),
                                     !.configured = @ \cup {q}]
      BY <2>4, Zenon
    <3>3. /\ FileOK(cfg') /\ Edited' /\ answers'.removed = {} /\ answers'.picked = <<>>
          /\ answers' = [keys |-> answers'.keys, configured |-> answers'.configured,
                         removed |-> answers'.removed, picked |-> answers'.picked]
      BY <3>1, <3>2, <2>4, <1>1, <1>3, AskedAbout, Zenon
    <3> QED BY <3>3, <1>6
  <2> QED BY <2>1, <2>2, <2>3, <2>4, Zenon DEF ConfigureCustom
<1> QED
  BY <1>7, <1>8

LEMMA CollectModelsStep == Inv /\ CollectModels => Inv'
<1> SUFFICES ASSUME Inv, CollectModels PROVE Inv'
  OBVIOUS
<1>1. /\ UNCHANGED vars /\ before' = before /\ answers' = answers /\ step = "models"
      /\ cfg' = There("agents") /\ step' \in {"write", "agents"}
  BY DEF CollectModels
<1>2. AppInv' /\ File' = File /\ pc' = pc
  BY <1>1, AppStays DEF Inv
<1>3. /\ pc = "load" /\ FileOK(cfg) /\ FileOK(before) /\ File = before /\ Edited
      /\ answers = [keys |-> answers.keys, configured |-> answers.configured,
                    removed |-> answers.removed, picked |-> answers.picked]
  BY <1>1 DEF Inv, DialogueInv, Asking
<1>4. Parses(cfg)
  BY <1>3 DEF Edited, Parses
<1>5. /\ Changed(cfg', cfg) /\ cfg'.providers = cfg.providers /\ cfg'.agents = cfg.agents
      /\ "agents" \notin cfg'.nulls
  BY <1>1, <1>3, <1>4, ThereIs
<1>6. Edited' /\ FileOK(cfg')
  BY <1>1, <1>3, <1>5, ThereEdited DEF Changed
<1>7. DialogueInv'
  BY <1>1, <1>2, <1>3, <1>5, <1>6 DEF DialogueInv, Asking
<1> QED
  BY <1>2, <1>7 DEF Inv

LEMMA AskAgentStep == Inv /\ AskAgent => Inv'
<1> SUFFICES ASSUME Inv, AskAgent PROVE Inv'
  OBVIOUS
<1> DEFINE a == Head(asked)
<1>1. /\ UNCHANGED vars /\ before' = before /\ step = "agents" /\ PickModel(a)
      /\ step' \in {"write", "agents"}
  BY DEF AskAgent
<1>2. AppInv' /\ File' = File /\ pc' = pc
  BY <1>1, AppStays DEF Inv
<1>3. /\ pc = "load" /\ FileOK(cfg) /\ FileOK(before) /\ File = before /\ Edited
      /\ "agents" \notin cfg.nulls
      /\ answers = [keys |-> answers.keys, configured |-> answers.configured,
                    removed |-> answers.removed, picked |-> answers.picked]
  BY <1>1 DEF Inv, DialogueInv, Asking
<1>4. ASSUME FileOK(cfg'), Edited', "agents" \notin cfg'.nulls,
             answers' = [keys |-> answers'.keys, configured |-> answers'.configured,
                         removed |-> answers'.removed, picked |-> answers'.picked]
      PROVE  Inv'
  <2>1. DialogueInv'
    BY <1>1, <1>2, <1>3, <1>4 DEF DialogueInv, Asking
  <2> QED BY <2>1, <1>2 DEF Inv
<1> HIDE DEF a
<1>5. CASE UNCHANGED <<cfg, answers>>
  <2>1. Edited'
    BY <1>1, <1>3, <1>5, EditedStays
  <2> QED BY <2>1, <1>3, <1>4, <1>5
<1>6. ASSUME NEW ref \in AllModels,
             cfg' = [cfg EXCEPT !.agents = Put(@, a, [AgentOf(a) EXCEPT !.model = ref])],
             answers' = [answers EXCEPT !.picked = Put(@, a, ref)]
      PROVE  Inv'
  <2>1. answers' = [keys |-> answers.keys, configured |-> answers.configured,
                    removed |-> answers.removed, picked |-> Put(answers.picked, a, ref)]
    BY <1>6, <1>3, AnswersAre, Zenon
  <2>2. /\ answers'.keys = answers.keys /\ answers'.configured = answers.configured
        /\ answers'.removed = answers.removed /\ answers'.picked = Put(answers.picked, a, ref)
    BY <2>1
  <2>3. answers' = [keys |-> answers'.keys, configured |-> answers'.configured,
                    removed |-> answers'.removed, picked |-> answers'.picked]
    BY <2>1
  <2>4. cfg' = [cfg EXCEPT !.agents = Put(@, a, [AgentOf(a) EXCEPT !.model = ref])]
    BY <1>6, Zenon
  <2>5. FileOK(cfg') /\ Edited' /\ "agents" \notin cfg'.nulls
    BY <2>2, <2>4, <1>1, <1>3, PickEdited, Zenon
  <2> QED BY <2>3, <2>5, <1>4
<1> QED
  BY <1>1, <1>5, <1>6, Zenon DEF PickModel

\* Another file in the current directory.
LEMMA FileWritten ==
    ASSUME DiskOK(disk), NEW f, FileOK(f), disk' = [disk EXCEPT !.main["project"] = f]
    PROVE  DiskOK(disk') /\ File' = f
<1> DEFINE files == [disk.main EXCEPT !["project"] = f]
<1>1. /\ disk = [named |-> disk.named, main |-> disk.main, workspace |-> disk.workspace]
      /\ disk.main = [place \in Places |-> disk.main[place]]
      /\ \A place \in Places : FileOK(disk.main[place])
      /\ FileOK(disk.workspace)
  BY DEF DiskOK
<1>2. disk' = [disk EXCEPT !.main = files]
  BY Zenon
<1>3. /\ files = [place \in Places |-> files[place]]
      /\ \A place \in Places : FileOK(files[place])
      /\ files["project"] = f
  BY <1>1 DEF Places
<1> HIDE DEF files
<1>4. disk' = [named |-> disk.named, main |-> files, workspace |-> disk.workspace]
  BY <1>1, <1>2
<1>5. disk'.main = files /\ disk'.workspace = disk.workspace /\ disk'.named = disk.named
  BY <1>4
<1>6. DiskOK(disk')
  BY <1>1, <1>3, <1>4, <1>5 DEF DiskOK
<1> QED
  BY <1>3, <1>5, <1>6 DEF File

LEMMA TruncateStep == Inv /\ Truncate => Inv'
<1> SUFFICES ASSUME Inv, Truncate PROVE Inv'
  OBVIOUS
<1>1. /\ UNCHANGED <<pc, env, config, keys, registry, clients, todo, agents>>
      /\ step = "write" /\ step' = "writing"
      /\ before' = before /\ cfg' = cfg /\ answers' = answers
  BY DEF Truncate
<1>2. disk' = [disk EXCEPT !.main["project"] = Blank]
  BY DEF Truncate
<1>3. pc = "load" /\ DiskOK(disk) /\ Edited /\ FileOK(Blank)
  BY <1>1, EmptyOK DEF Inv, DialogueInv, AppInv, Asking
<1>4. DiskOK(disk') /\ File' = Blank
  BY <1>2, <1>3, FileWritten, Zenon
<1>5. AppInv'
  BY <1>1, <1>3, <1>4, EditStep DEF Inv
<1>6. Edited'
  BY <1>1, <1>3, EditedStays
<1>7. DialogueInv'
  BY <1>1, <1>3, <1>4, <1>6 DEF Inv, DialogueInv, Asking
<1> QED
  BY <1>5, <1>7 DEF Inv

LEMMA WriteConfigStep == Inv /\ WriteConfig => Inv'
<1> SUFFICES ASSUME Inv, WriteConfig PROVE Inv'
  OBVIOUS
<1>1. /\ UNCHANGED <<pc, env, config, keys, registry, clients, todo, agents>>
      /\ step = "writing" /\ step' = "done"
      /\ before' = before /\ cfg' = cfg /\ answers' = answers
  BY DEF WriteConfig
<1>2. disk' = [disk EXCEPT !.main["project"] = cfg]
  BY DEF WriteConfig
<1>3. pc = "load" /\ DiskOK(disk) /\ Edited /\ FileOK(cfg)
  BY <1>1 DEF Inv, DialogueInv, AppInv, Asking
<1>4. DiskOK(disk') /\ File' = cfg
  BY <1>2, <1>3, FileWritten, Zenon
<1>5. AppInv'
  BY <1>1, <1>3, <1>4, EditStep DEF Inv
<1>6. Edited'
  BY <1>1, <1>3, EditedStays
<1>7. DialogueInv'
  BY <1>1, <1>3, <1>4, <1>6 DEF Inv, DialogueInv, Asking
<1> QED
  BY <1>5, <1>7 DEF Inv

LEMMA StopStep == Inv /\ Stop => Inv'
<1> SUFFICES ASSUME Inv, Stop PROVE Inv'
  OBVIOUS
<1>1. /\ UNCHANGED vars /\ step \in {"providers", "agents"} /\ step' = "stopped"
      /\ before' = before /\ cfg' = cfg /\ answers' = answers
  BY DEF Stop
<1>2. AppInv' /\ File' = File
  BY <1>1, AppStays DEF Inv
<1>3. DialogueInv'
  BY <1>1, <1>2 DEF Inv, DialogueInv, Asking
<1> QED
  BY <1>2, <1>3 DEF Inv

\* A beginning of the text that was to be written.
LEMMA PartOfTheText ==
    ASSUME FileOK(cfg), NEW part \in {Blank, Broken} \cup {Upto(n) : n \in 1..4}
    PROVE  /\ FileOK(part)
           /\ \A section \in {"providers", "agents", "mcp"} : PartOf(part, cfg, section)
<1> DEFINE sections == {"providers", "agents", "mcp"}
<1>1. CASE part = Blank \/ part = Broken
  <2>1. part = FileOf(<<>>, <<>>, <<>>, {}, Unset, Unset, Unset, part.state)
    BY <1>1 DEF Blank, Broken, Empty, FileOf
  <2>2. FileOK(part)
    BY <2>1, NothingOK DEF FileOK, FileOf
  <2>3. \A section \in sections : DOMAIN part[section] = {}
    BY <2>1 DEF FileOf
  <2> QED BY <2>2, <2>3 DEF PartOf
<1>2. ASSUME NEW n \in 1..4, part = Upto(n) PROVE FileOK(part) /\ \A section \in sections : PartOf(part, cfg, section)
  <2> DEFINE as == IF n >= 1 THEN cfg.agents ELSE <<>>
             mcp == IF n >= 2 THEN cfg.mcp ELSE <<>>
             steps == IF n >= 3 THEN cfg.steps ELSE Unset
             ps == IF n >= 4 THEN cfg.providers ELSE <<>>
             nulls == cfg.nulls \cap ((IF n >= 1 THEN {"agents"} ELSE {}) \cup
                        (IF n >= 2 THEN {"mcp"} ELSE {}) \cup
                        (IF n >= 4 THEN {"providers"} ELSE {}))
  <2>1. part = FileOf(ps, as, mcp, nulls, steps, Unset, Unset, "good")
    BY <1>2 DEF Upto, Empty, FileOf
  <2>2. EntriesOK(ps) /\ AgentsOK(as)
    BY NothingOK DEF FileOK
  <2>3. /\ "providers" \in nulls => ps = <<>>
        /\ "agents" \in nulls => as = <<>>
        /\ "mcp" \in nulls => mcp = <<>>
    BY DEF FileOK
  <2>4. /\ ps = <<>> \/ ps = cfg.providers
        /\ as = <<>> \/ as = cfg.agents
        /\ mcp = <<>> \/ mcp = cfg.mcp
    OBVIOUS
  <2> HIDE DEF as, mcp, steps, ps, nulls
  <2>5. FileOK(part)
    BY <2>1, <2>2, <2>3 DEF FileOK, FileOf, Parses
  <2>6. part.providers = ps /\ part.agents = as /\ part.mcp = mcp
    BY <2>1 DEF FileOf
  <2>7. DOMAIN <<>> = {}
    OBVIOUS
  <2>8. \A section \in sections : part[section] = cfg[section] \/ part[section] = <<>>
    BY <2>4, <2>6
  <2>9. \A section \in sections : PartOf(part, cfg, section)
    BY <2>7, <2>8 DEF PartOf
  <2> QED BY <2>5, <2>9
<1> QED
  BY <1>1, <1>2

LEMMA TearStep == Inv /\ Tear => Inv'
<1> SUFFICES ASSUME Inv, Tear PROVE Inv'
  OBVIOUS
<1>1. /\ UNCHANGED <<pc, env, config, keys, registry, clients, todo, agents>>
      /\ step = "writing" /\ step' = "torn"
      /\ before' = before /\ cfg' = cfg /\ answers' = answers
  BY DEF Tear
<1>2. PICK part \in {Blank, Broken} \cup {Upto(n) : n \in 1..4} :
        disk' = [disk EXCEPT !.main["project"] = part]
  BY DEF Tear
<1>3. pc = "load" /\ DiskOK(disk) /\ FileOK(cfg)
  BY <1>1 DEF Inv, DialogueInv, AppInv, Asking
<1>4. /\ FileOK(part)
      /\ \A section \in {"providers", "agents", "mcp"} : PartOf(part, cfg, section)
  BY <1>3, PartOfTheText, Zenon
<1>5. DiskOK(disk') /\ File' = part
  BY <1>2, <1>3, <1>4, FileWritten, Zenon
<1>6. AppInv'
  BY <1>1, <1>3, <1>5, EditStep DEF Inv
<1>7. \A section \in {"providers", "agents", "mcp"} : PartOf(File', cfg', section)
  BY <1>1, <1>4, <1>5
<1>8. DialogueInv'
  BY <1>1, <1>3, <1>7 DEF Inv, DialogueInv, Asking
<1> QED
  BY <1>6, <1>8 DEF Inv

LEMMA UseStep == Inv /\ Use => Inv'
<1> SUFFICES ASSUME Inv, Use PROVE Inv'
  OBVIOUS
<1>1. /\ step \in {"off", "done", "stopped", "torn", "panicked"} /\ Next /\ UNCHANGED dialogue
  BY DEF Use
<1>2. AppInv'
  BY <1>1, NextKeepsInv DEF Inv
<1>3. disk' = disk
  BY <1>1 DEF Next, LoadConfig, ProvidersFromConfig, LoadWorkspaceConfig, StartMcp, StartAgents,
              MakeAgent, Ready, SwitchModel
<1>4. File' = File /\ step \notin Asking \cup {"writing"}
  BY <1>1, <1>3 DEF File, Asking
<1>5. DialogueInv'
  BY <1>1, <1>4, DialogueStays DEF Inv
<1> QED
  BY <1>2, <1>5 DEF Inv

LEMMA WizardStutter == Inv /\ UNCHANGED <<vars, widget, dialogue, dialogues>> => Inv'
<1> SUFFICES ASSUME Inv, UNCHANGED <<vars, widget, dialogue, dialogues>> PROVE Inv'
  OBVIOUS
<1>1. UNCHANGED vars /\ UNCHANGED dialogue
  OBVIOUS
<1>2. AppInv' /\ File' = File /\ pc' = pc
  BY <1>1, AppStays DEF Inv
<1> QED
  BY <1>1, <1>2, DialogueStays DEF Inv

\* The invariant of the configuration's life: edited, loaded, used.
THEOREM InvHolds == WizardSpec => []Inv
<1>1. Inv /\ [WizardNext]_<<vars, widget, dialogue, dialogues>> => Inv'
  BY ConfigureStep, SelectStep, SelectedStep, ConfigureNextStep, CollectModelsStep, AskAgentStep,
     TruncateStep, WriteConfigStep, StopStep, TearStep, UseStep, WizardStutter DEF WizardNext
<1> QED
  BY WizardInitInv, <1>1, PTL DEF WizardSpec

-----------------------------------------------------------------------------
(* What it says of the wizard.                                              *)

LEMMA InvKeepsTheRest == Inv => KeepsTheRest
<1> SUFFICES ASSUME Inv PROVE KeepsTheRest
  OBVIOUS
<1>1. ASSUME step = "done" PROVE Kept(File, IF Parses(before) THEN before ELSE Empty)
  <2>1. File = cfg /\ Kept(cfg, Was)
    BY <1>1 DEF Inv, DialogueInv, Edited
  <2>2. Kept(File, Was)
    BY <2>1
  <2> QED BY <2>2 DEF Was
<1>2. /\ step = "writing" => File = Blank
      /\ step = "torn" => \A section \in {"providers", "agents", "mcp"} : PartOf(File, cfg, section)
  BY DEF Inv, DialogueInv
<1>3. step \notin {"off", "done", "writing", "torn"} => File = before
  BY DEF Inv, DialogueInv
<1> QED
  BY <1>1, <1>2, <1>3 DEF KeepsTheRest, PartOf

LEMMA InvIsUsed == Inv => NextStartUsesIt
<1> SUFFICES ASSUME Inv, pc = "ready", step = "done", DefaultPath(disk) = "project",
                    ~Parses(disk.workspace)
             PROVE  /\ \A a \in DOMAIN answers.picked :
                         /\ agents[a].config.model = config.agents[a].model =>
                              <<agents[a].provider>> \o agents[a].modelRef = answers.picked[a]
                         /\ config.agents[a].permission =
                              IF a \in DOMAIN before.agents THEN before.agents[a].permission
                              ELSE Unset
                    /\ \A p \in answers.keys \ answers.removed : keys[p] = "typed"
  BY Zenon DEF NextStartUsesIt
<1>1. /\ File = cfg /\ cfg.state = "good" /\ KeysTyped /\ ModelsPicked
      /\ FileOK(cfg) /\ FileOK(before)
  BY DEF Inv, DialogueInv, Edited
<1>2. AgentsMade /\ todo = {} /\ config = MergedConfig /\ Registered /\ DiskOK(disk)
  BY DEF Inv, AppInv
<1>3. Main = cfg /\ Parses(cfg)
  BY <1>1 DEF Main, File, Parses
<1>4. config = Load(cfg, env) /\ MainConfig = Load(cfg, env)
  BY <1>2, <1>3 DEF MergedConfig, MainConfig
<1>5. /\ DOMAIN cfg.agents \subseteq DOMAIN config.agents
      /\ \A a \in DOMAIN cfg.agents : config.agents[a] = cfg.agents[a]
  <2> DEFINE c == Load(cfg, env)
  <2>1. /\ DOMAIN c.agents = DOMAIN cfg.agents \cup
                               (IF "agents" \in cfg.nulls THEN {} ELSE DOMAIN Default.agents)
        /\ \A a \in DOMAIN cfg.agents : c.agents[a] = cfg.agents[a]
    BY <1>1, <1>3, LoadOK
  <2> HIDE DEF c
  <2> QED BY <2>1, <1>4 DEF c
<1>6. DOMAIN cfg.providers \subseteq DOMAIN registry
  <2> DEFINE read == Section(cfg, "providers", Default.providers)
  <2>1. DOMAIN Load(cfg, env).providers = DOMAIN read
    BY <1>1, <1>3, LoadIs
  <2>2. DOMAIN cfg.providers \subseteq DOMAIN read
    BY <1>1, ProvidersSection
  <2> QED BY <2>1, <2>2, <1>2, <1>4 DEF Registered
<1>7. ASSUME NEW a \in DOMAIN answers.picked
      PROVE  /\ agents[a].config.model = config.agents[a].model =>
                  <<agents[a].provider>> \o agents[a].modelRef = answers.picked[a]
             /\ config.agents[a].permission =
                  IF a \in DOMAIN before.agents THEN before.agents[a].permission ELSE Unset
  <2> DEFINE ref == answers.picked[a]
             made == agents[a]
  <2>1. /\ a \in DOMAIN cfg.agents /\ cfg.agents[a].model = ref /\ ref \in AllModels
        /\ cfg.agents[a].permission = IF a \in DOMAIN Was.agents THEN Was.agents[a].permission
                                      ELSE Unset
    BY <1>1 DEF ModelsPicked
  <2>2. PICK p \in DOMAIN cfg.providers : \E id : IsRef(id) /\ id # NoModel /\ ref = <<p>> \o id
    BY <2>1, <1>1, AllModelsRefs
  <2>3. PICK id : IsRef(id) /\ id # NoModel /\ ref = <<p>> \o id
    BY <2>2
  <2>4. a \in DOMAIN agents
    <3>1. p \in DOMAIN registry /\ a \in DOMAIN config.agents
      BY <2>1, <1>5, <1>6
    <3> QED BY <3>1, <1>2 DEF AgentsMade
  <2>5. Routed(registry, made.config.model, made.provider, made.modelRef)
    BY <2>4, <1>2 DEF AgentsMade, MadeAgent
  <2>6. config.agents[a].model = ref /\ config.agents[a].permission = cfg.agents[a].permission
    BY <2>1, <1>5
  <2>7. DOMAIN Was.agents = DOMAIN before.agents /\ (Parses(before) => Was = before)
    <3>1. CASE Parses(before)
      BY <3>1 DEF Was
    <3>2. CASE ~Parses(before)
      <4>1. before.agents = <<>> /\ Was = Empty
        BY <3>2, <1>1 DEF Was, FileOK
      <4>2. Empty.agents = <<>>
        BY DEF Empty
      <4> QED BY <4>1, <4>2, <3>2
    <3> QED BY <3>1, <3>2
  <2>8. a \in DOMAIN before.agents => Was = before
    <3>1. ~Parses(before) => before.agents = <<>>
      BY <1>1 DEF FileOK
    <3> QED BY <3>1, <2>7
  <2>9. Len(ref) > 1 /\ Head(ref) = p /\ Tail(ref) = id /\ p \in DOMAIN registry
    BY <2>3, <1>6, RefJoin
  <2> HIDE DEF ref, made
  <2>10. Routed(registry, ref, made.provider, made.modelRef) => <<made.provider>> \o made.modelRef = ref
    BY <2>3, <2>9 DEF Routed, NoModel
  <2>11. made.config.model = config.agents[a].model => <<made.provider>> \o made.modelRef = ref
    BY <2>5, <2>6, <2>10
  <2> HIDE DEF Was
  <2>12. config.agents[a].permission =
           IF a \in DOMAIN before.agents THEN before.agents[a].permission ELSE Unset
    BY <2>1, <2>6, <2>7, <2>8
  <2> QED BY <2>11, <2>12 DEF ref, made
<1>8. ASSUME NEW p \in answers.keys \ answers.removed
      PROVE  keys[p] = "typed"
  <2>1. p \in DOMAIN cfg.providers /\ cfg.providers[p].key = "typed"
    BY <1>1 DEF KeysTyped
  <2>2. p \in DOMAIN Load(cfg, env).providers /\ keys[p] = Load(cfg, env).providers[p].key
    BY <2>1, <1>2, <1>4, <1>6 DEF Registered
  <2>3. "typed" # Unset
    BY DEF Unset
  <2>4. Load(cfg, env).providers[p].key = "typed"
    BY <2>1, <2>2, <2>3, <1>1, <1>3, KeyIs
  <2> QED BY <2>2, <2>4
<1> QED
  BY <1>7, <1>8

-----------------------------------------------------------------------------
(* The theorems.                                                            *)

\* app.go, Init and SwitchModel: an agent runs on the provider its model names,
\* with the id it names, or on one that lists its model, in whatever order the
\* maps are walked and the models switched.
THEOREM AgentsRunAsNamed == WizardSpec => []RoutedAsNamed
  BY InvHolds, InvRoutes, PTL DEF Inv

\* app.go, Init: every agent of the main file is there once Init is done, and
\* no other.
THEOREM EveryAgentMade == WizardSpec => []NobodyLeftOut
  BY InvHolds, InvLeavesNobodyOut, PTL DEF Inv

\* config.go, MergeWorkspace: what the workspace's file says of an agent's model
\* and prompt holds.
THEOREM WorkspaceHolds == WizardSpec => []WorkspaceWins
  BY InvHolds, InvLetsWorkspaceWin, PTL DEF Inv

\* configure.go, Run: what was not asked about is in the file as before.
THEOREM WizardKeepsTheRest == WizardSpec => []KeepsTheRest
  BY InvHolds, InvKeepsTheRest, PTL

\* configure.go, Run, and app.go, Init: the next start uses what was answered.
THEOREM AnswersAreUsed == WizardSpec => []NextStartUsesIt
  BY InvHolds, InvIsUsed, PTL

-----------------------------------------------------------------------------
(* Keys and their bytes.                                                    *)

Keys == DOMAIN Bytes

FirstBytes == {27, 32, 13, 113, 3, 120}

LEMMA BytesAre ==
    /\ Keys = {"up", "down", "space", "enter", "escape", "quit", "interrupt", "other"}
    /\ Bytes["up"] = <<27, 91, 65>> /\ Bytes["down"] = <<27, 91, 66>>
    /\ Bytes["space"] = <<32>> /\ Bytes["enter"] = <<13>> /\ Bytes["escape"] = <<27>>
    /\ Bytes["quit"] = <<113>> /\ Bytes["interrupt"] = <<3>> /\ Bytes["other"] = <<120>>
  BY DEF Bytes, Keys

LEMMA BytesOfKey ==
    ASSUME NEW key \in Keys
    PROVE  /\ Bytes[key] \in Seq(Nat) /\ Len(Bytes[key]) \in 1..3
           /\ Bytes[key][1] \in FirstBytes
           /\ \A j \in 1..Len(Bytes[key]) : j # 1 => Bytes[key][j] \in {91, 65, 66}
<1>1. CASE key = "up"
  BY <1>1, BytesAre DEF FirstBytes
<1>2. CASE key = "down"
  BY <1>2, BytesAre DEF FirstBytes
<1>3. CASE key \in {"space", "enter", "escape", "quit", "interrupt", "other"}
  <2>1. PICK x \in FirstBytes : Bytes[key] = <<x>>
    BY <1>3, BytesAre DEF FirstBytes
  <2>2. x \in Nat
    BY DEF FirstBytes
  <2> QED BY <2>1, <2>2
<1> QED
  BY <1>1, <1>2, <1>3, BytesAre

\* Where the keys start in the bytes they make together.
Placed(text, start, all) ==
    /\ start \in [0..Len(text) -> Nat]
    /\ \A i, k \in 0..Len(text) : i <= k => start[i] <= start[k]
    /\ \A k \in 1..Len(text) : start[k] = start[k - 1] + Len(Bytes[text[k]])
    /\ all \in Seq(Nat) /\ Len(all) = start[Len(text)]
    /\ \A k \in 1..Len(text) : \A j \in 1..Len(Bytes[text[k]]) :
         all[start[k - 1] + j] = Bytes[text[k]][j]
    /\ \A p \in 1..Len(all) : \E k \in 1..Len(text) : start[k - 1] < p /\ p <= start[k]

\* The bytes of the first n keys.
FirstPlaced(text, start, some, n) ==
    /\ some \in Seq(Nat) /\ Len(some) = start[n]
    /\ \A i, k \in 0..n : i <= k => start[i] <= start[k]
    /\ \A k \in 1..n : \A j \in 1..Len(Bytes[text[k]]) : some[start[k - 1] + j] = Bytes[text[k]][j]
    /\ \A p \in 1..Len(some) : \E k \in 1..n : start[k - 1] < p /\ p <= start[k]

LEMMA OneMorePlaced ==
    ASSUME NEW text \in Seq(Keys), NEW start \in [0..Len(text) -> Nat], NEW n \in 1..Len(text),
           NEW some, FirstPlaced(text, start, some, n - 1),
           \A k \in 1..Len(text) : start[k] = start[k - 1] + Len(Bytes[text[k]])
    PROVE  FirstPlaced(text, start, some \o Bytes[text[n]], n)
<1> DEFINE N == Len(text)
           b == Bytes[text[n]]
           more == some \o b
<1>0. N \in Nat /\ \A k \in 1..N : text[k] \in Keys
  BY LenProperties, ElementOfSeq
<1>1. some \in Seq(Nat) /\ Len(some) = start[n - 1] /\ Len(some) \in Nat
  BY LenProperties DEF FirstPlaced
<1>2. b \in Seq(Nat) /\ Len(b) \in 1..3
  BY <1>0, BytesOfKey
<1> HIDE DEF N, b
<1>3. /\ more \in Seq(Nat) /\ Len(more) = Len(some) + Len(b)
      /\ \A i \in 1..Len(some) : more[i] = some[i]
      /\ \A j \in 1..Len(b) : more[Len(some) + j] = b[j]
  <2>1. \A i \in 1..Len(some) + Len(b) : more[i] = IF i <= Len(some) THEN some[i] ELSE b[i - Len(some)]
    BY <1>1, <1>2, ConcatProperties
  <2>2. more \in Seq(Nat) /\ Len(more) = Len(some) + Len(b)
    BY <1>1, <1>2, ConcatProperties
  <2> HIDE DEF more
  <2>3. ASSUME NEW j \in 1..Len(b) PROVE more[Len(some) + j] = b[j]
    <3>1. Len(some) + j \in 1..Len(some) + Len(b) /\ ~(Len(some) + j <= Len(some))
          /\ (Len(some) + j) - Len(some) = j
      BY <1>1, <1>2
    <3> QED BY <2>1, <3>1
  <2>4. ASSUME NEW i \in 1..Len(some) PROVE more[i] = some[i]
    <3>1. i \in 1..Len(some) + Len(b) /\ i <= Len(some)
      BY <1>1, <1>2
    <3> QED BY <2>1, <3>1
  <2> QED BY <2>2, <2>3, <2>4
<1> HIDE DEF more
<1>4. n \in 1..N /\ start[n] = start[n - 1] + Len(b) /\ start \in [0..N -> Nat]
  BY DEF N, b
<1>5. Len(more) = start[n]
  BY <1>1, <1>3, <1>4
<1>6. ASSUME NEW i \in 0..n, NEW k \in 0..n, i <= k PROVE start[i] <= start[k]
  <2>1. n - 1 \in 0..N /\ start[n - 1] \in Nat /\ start[n] \in Nat /\ start[n - 1] <= start[n]
    BY <1>0, <1>2, <1>4
  <2>2. CASE k # n
    <3>1. i \in 0..n - 1 /\ k \in 0..n - 1
      BY <1>0, <1>4, <1>6, <2>2
    <3> QED BY <1>6, <3>1 DEF FirstPlaced
  <2>3. CASE k = n /\ i = n
    BY <2>1, <2>3
  <2>4. CASE k = n /\ i # n
    <3>1. i \in 0..n - 1 /\ n - 1 \in 0..n - 1 /\ i <= n - 1 /\ start[i] \in Nat
      BY <1>0, <1>4, <1>6, <2>4
    <3>2. start[i] <= start[n - 1]
      BY <3>1 DEF FirstPlaced
    <3> QED BY <2>1, <2>4, <3>1, <3>2
  <2> QED BY <2>2, <2>3, <2>4
<1>7. ASSUME NEW k \in 1..n, NEW j \in 1..Len(Bytes[text[k]])
      PROVE  more[start[k - 1] + j] = Bytes[text[k]][j]
  <2>1. CASE k = n
    BY <1>1, <1>3, <1>7, <2>1 DEF b
  <2>2. CASE k # n
    <3>1. k \in 1..n - 1 /\ k \in 0..n - 1 /\ n - 1 \in 0..n - 1 /\ k <= n - 1 /\ k \in 1..N
          /\ k \in 0..N /\ k - 1 \in 0..N /\ n - 1 \in 0..N
      BY <1>0, <1>4, <2>2
    <3>2. some[start[k - 1] + j] = Bytes[text[k]][j] /\ start[k] <= start[n - 1]
      BY <3>1 DEF FirstPlaced
    <3>3. start[k] = start[k - 1] + Len(Bytes[text[k]]) /\ Len(Bytes[text[k]]) \in 1..3
      BY <1>0, <3>1, BytesOfKey DEF N
    <3>4. start[k - 1] \in Nat /\ start[k] \in Nat /\ start[n - 1] \in Nat
      BY <1>4, <3>1
    <3>5. start[k - 1] + j \in 1..Len(some)
      <4>1. j \in Nat /\ 1 <= j /\ j <= Len(Bytes[text[k]])
        BY <3>3
      <4>2. start[k - 1] + j <= start[k] /\ 1 <= start[k - 1] + j
        BY <3>3, <3>4, <4>1
      <4> QED BY <1>1, <3>2, <3>4, <4>1, <4>2
    <3> QED BY <1>3, <3>2, <3>5
  <2> QED BY <2>1, <2>2
<1>8. ASSUME NEW p \in 1..Len(more) PROVE \E k \in 1..n : start[k - 1] < p /\ p <= start[k]
  <2>1. CASE p <= Len(some)
    <3>1. p \in 1..Len(some)
      BY <1>1, <1>2, <1>3, <2>1
    <3>2. PICK k \in 1..n - 1 : start[k - 1] < p /\ p <= start[k]
      BY <3>1 DEF FirstPlaced
    <3>3. k \in 1..n
      BY <1>0, <1>4
    <3> QED BY <3>2, <3>3
  <2>2. CASE ~(p <= Len(some))
    BY <1>0, <1>1, <1>2, <1>3, <1>4, <1>5, <2>2
  <2> QED BY <2>1, <2>2
<1> QED
  BY <1>3, <1>5, <1>6, <1>7, <1>8 DEF FirstPlaced, more, b

LEMMA BytesPlaced ==
    ASSUME NEW text \in Seq(Keys)
    PROVE  \E start : Placed(text, start, BytesOf(text))
<1> DEFINE N == Len(text)
           V == Seq(Nat)
           steps == [k \in 1..N |-> [was \in V |-> was \o Bytes[text[k]]]]
           IsAfter(g) == g = [k \in 0..N |-> IF k = 0 THEN <<>> ELSE g[k - 1] \o Bytes[text[k]]]
           after == CHOOSE g : IsAfter(g)
<1>0. N \in Nat /\ (\A k \in 1..N : text[k] \in Keys) /\ <<>> \in V
  BY LenProperties, ElementOfSeq, EmptySeq
<1> HIDE DEF N
<1>1. \E g : IsAfter(g)
  <2>1. steps \in [1..N -> [V -> V]]
    <3>1. ASSUME NEW k \in 1..N, NEW was \in V PROVE was \o Bytes[text[k]] \in V
      BY <1>0, BytesOfKey, ConcatProperties
    <3> HIDE DEF V
    <3> QED BY <3>1
  <2> HIDE DEF V
  <2>2. PICK g : IsCourse(g, V, <<>>, steps, N)
    <3> HIDE DEF steps
    <3> QED BY <1>0, <2>1, CourseExists
  <2>3. g \in [0..N -> V] /\ g[0] = <<>> /\ \A k \in 1..N : g[k] = steps[k][g[k - 1]]
    BY <2>2 DEF IsCourse
  <2>4. ASSUME NEW k \in 0..N PROVE g[k] = IF k = 0 THEN <<>> ELSE g[k - 1] \o Bytes[text[k]]
    <3>1. CASE k = 0
      BY <2>3, <3>1
    <3>2. CASE k # 0
      <4>1. k \in 1..N /\ k - 1 \in 0..N
        BY <1>0, <3>2
      <4>2. g[k - 1] \in V /\ g[k] = steps[k][g[k - 1]]
        BY <2>3, <4>1
      <4>3. steps[k][g[k - 1]] = g[k - 1] \o Bytes[text[k]]
        BY <4>1, <4>2
      <4> QED BY <3>2, <4>2, <4>3
    <3> QED BY <3>1, <3>2
  <2> HIDE DEF steps
  <2>5. IsAfter(g)
    BY <2>3, <2>4
  <2> QED BY <2>5
<1>2. IsAfter(after)
  BY <1>1
<1>3. BytesOf(text) = after[N]
  BY DEF BytesOf, N
<1> HIDE DEF after, V, steps
<1>4. \A k \in 0..N : after[k] = IF k = 0 THEN <<>> ELSE after[k - 1] \o Bytes[text[k]]
  BY <1>2
<1> DEFINE Fine == {k \in 0..N : after[k] \in Seq(Nat)}
           start == [k \in 0..N |-> Len(after[k])]
<1>5. \A k \in 0..N : after[k] \in Seq(Nat)
  <2>1. 0 \in Fine
    <3>1. 0 \in 0..N
      BY <1>0
    <3>2. after[0] = <<>>
      BY <1>4, <3>1
    <3> QED BY <3>1, <3>2, EmptySeq
  <2>2. ASSUME NEW k \in 1..N, k - 1 \in Fine PROVE k \in Fine
    <3>1. k \in 0..N /\ k # 0 /\ after[k - 1] \in Seq(Nat) /\ Bytes[text[k]] \in Seq(Nat)
      BY <1>0, <2>2, BytesOfKey
    <3>2. after[k - 1] \o Bytes[text[k]] \in Seq(Nat)
      BY <3>1, ConcatProperties
    <3> QED BY <1>4, <3>1, <3>2
  <2> HIDE DEF Fine
  <2>3. \A k \in 0..N : k \in Fine
    BY <1>0, <2>1, <2>2, UpTo
  <2> QED BY <2>3 DEF Fine
<1>6. start \in [0..N -> Nat] /\ start[0] = 0 /\ start[N] = Len(after[N])
      /\ \A k \in 0..N : start[k] = Len(after[k])
  <2>1. ASSUME NEW k \in 0..N PROVE Len(after[k]) \in Nat
    BY <1>5, LenProperties
  <2>2. 0 \in 0..N /\ N \in 0..N
    BY <1>0
  <2>3. after[0] = <<>>
    BY <1>4, <2>2
  <2> QED BY <2>1, <2>2, <2>3
<1>7. \A k \in 1..N : start[k] = start[k - 1] + Len(Bytes[text[k]])
  <2>1. ASSUME NEW k \in 1..N PROVE start[k] = start[k - 1] + Len(Bytes[text[k]])
    <3>1. k \in 0..N /\ k - 1 \in 0..N /\ k # 0
      BY <1>0
    <3>2. after[k] = after[k - 1] \o Bytes[text[k]]
      BY <1>4, <3>1
    <3>3. after[k - 1] \in Seq(Nat) /\ Bytes[text[k]] \in Seq(Nat)
      BY <1>0, <1>5, <3>1, BytesOfKey
    <3>4. Len(after[k]) = Len(after[k - 1]) + Len(Bytes[text[k]])
      BY <3>2, <3>3, ConcatProperties
    <3> HIDE DEF start
    <3> QED BY <1>6, <3>1, <3>4
  <2> QED BY <2>1
<1> HIDE DEF start
<1> DEFINE Good == {k \in 0..N : FirstPlaced(text, start, after[k], k)}
<1>8. 0 \in Good
  <2>1. after[0] = <<>> /\ 0 \in 0..N
    BY <1>0, <1>4
  <2>2. after[0] \in Seq(Nat) /\ Len(after[0]) = 0 /\ start[0] = 0
    BY <1>5, <1>6, <2>1, EmptySeq
  <2>3. (\A i, k \in 0..0 : i = 0 /\ k = 0) /\ ~(\E k \in 1..0 : TRUE)
    OBVIOUS
  <2>4. FirstPlaced(text, start, after[0], 0)
    BY <2>2, <2>3 DEF FirstPlaced
  <2> QED BY <2>1, <2>4
<1>9. ASSUME NEW k \in 1..N, k - 1 \in Good PROVE k \in Good
  <2>1. FirstPlaced(text, start, after[k - 1], k - 1) /\ k \in 0..N /\ k # 0
    BY <1>0, <1>9
  <2>2. after[k] = after[k - 1] \o Bytes[text[k]]
    BY <1>4, <2>1
  <2>3. FirstPlaced(text, start, after[k - 1] \o Bytes[text[k]], k)
    BY <1>6, <1>7, <2>1, OneMorePlaced DEF N
  <2> QED BY <2>1, <2>2, <2>3
<1> HIDE DEF Good
<1>10. N \in Good
  <2>1. \A k \in 0..N : k \in Good
    BY <1>0, <1>8, <1>9, UpTo
  <2> QED BY <1>0, <2>1
<1>11. FirstPlaced(text, start, after[N], N)
  BY <1>10 DEF Good
<1>12. Placed(text, start, after[N])
  BY <1>6, <1>7, <1>11 DEF FirstPlaced, Placed, N
<1> QED
  BY <1>3, <1>12

LEMMA TuplesAre ==
    /\ Len(<<27>>) = 1 /\ <<27>>[1] = 27
    /\ Len(<<27, 91, 65>>) = 3 /\ Len(<<27, 91, 66>>) = 3
    /\ <<27, 91, 65>>[1] = 27 /\ <<27, 91, 65>>[2] = 91 /\ <<27, 91, 65>>[3] = 65
    /\ <<27, 91, 66>>[1] = 27 /\ <<27, 91, 66>>[2] = 91 /\ <<27, 91, 66>>[3] = 66
  OBVIOUS

LEMMA KeysOfReads ==
    ASSUME NEW buf \in Seq(Nat), Len(buf) \in 1..3
    PROVE  /\ KeyOf(buf) \in Keys
           /\ KeyOf(buf) # "other" => buf[1] \in {3, 4, 13, 10, 27, 113, 81, 32}
           /\ buf[1] = 3 => KeyOf(buf) = "interrupt"
           /\ buf[1] = 13 => KeyOf(buf) = "enter"
           /\ buf[1] = 113 => KeyOf(buf) = "quit"
           /\ buf[1] = 32 => KeyOf(buf) = "space"
           /\ buf[1] = 27 /\ KeyOf(buf) # "other" =>
                \/ buf = <<27>> /\ KeyOf(buf) = "escape"
                \/ buf = <<27, 91, 65>> /\ KeyOf(buf) = "up"
                \/ buf = <<27, 91, 66>> /\ KeyOf(buf) = "down"
<1> DEFINE first == buf[1]
<1>1. /\ buf = <<27>> => first = 27
      /\ buf = <<27, 91, 65>> => first = 27
      /\ buf = <<27, 91, 66>> => first = 27
      /\ ~(buf = <<27>> /\ buf = <<27, 91, 65>>) /\ ~(buf = <<27>> /\ buf = <<27, 91, 66>>)
      /\ ~(buf = <<27, 91, 65>> /\ buf = <<27, 91, 66>>)
  <2> DEFINE one == <<27>>
             up == <<27, 91, 65>>
             down == <<27, 91, 66>>
  <2>1. /\ Len(one) = 1 /\ Len(up) = 3 /\ Len(down) = 3 /\ up[3] = 65 /\ down[3] = 66
        /\ one[1] = 27 /\ up[1] = 27 /\ down[1] = 27
    BY TuplesAre
  <2> HIDE DEF one, up, down
  <2>2. /\ buf = one => Len(buf) = Len(one) /\ buf[1] = one[1]
        /\ buf = up => Len(buf) = Len(up) /\ buf[1] = up[1] /\ buf[3] = up[3]
        /\ buf = down => Len(buf) = Len(down) /\ buf[1] = down[1] /\ buf[3] = down[3]
    BY Zenon
  <2> QED BY <2>1, <2>2 DEF one, up, down
<1>2. KeyOf(buf) = CASE first \in {3, 4} -> "interrupt"
                     [] first \in {13, 10} -> "enter"
                     [] buf = <<27>> -> "escape"
                     [] first \in {113, 81} -> "quit"
                     [] first = 32 -> "space"
                     [] buf = <<27, 91, 65>> -> "up"
                     [] buf = <<27, 91, 66>> -> "down"
                     [] OTHER -> "other"
  BY BytesAre DEF KeyOf
<1> HIDE DEF first
<1>3. CASE first \in {3, 4}
  BY <1>1, <1>2, <1>3, BytesAre DEF first
<1>4. CASE first \in {13, 10}
  BY <1>1, <1>2, <1>4, BytesAre DEF first
<1>5. CASE first \in {113, 81}
  BY <1>1, <1>2, <1>5, BytesAre DEF first
<1>6. CASE first = 32
  BY <1>1, <1>2, <1>6, BytesAre DEF first
<1>7. CASE first \notin {3, 4, 13, 10, 113, 81, 32}
  BY <1>1, <1>2, <1>7, BytesAre DEF first
<1> QED
  BY <1>3, <1>4, <1>5, <1>6, <1>7

\* A read that is acted on begins where a key does, and is taken for it, or for
\* an escape if it is the beginning of an arrow.
LEMMA AKeyIsHeard ==
    ASSUME NEW text \in Seq(Keys), NEW start, NEW all, Placed(text, start, all),
           NEW taken \in Nat, NEW buf \in Seq(Nat), Len(buf) \in 1..3,
           taken + Len(buf) <= Len(all),
           \A i \in 1..Len(buf) : buf[i] = all[taken + i],
           KeyOf(buf) # "other"
    PROVE  \E k \in 1..Len(text) :
             /\ start[k - 1] = taken
             /\ \/ KeyOf(buf) = text[k]
                \/ KeyOf(buf) = "escape" /\ text[k] \in {"up", "down"}
<1> DEFINE N == Len(text)
           n == Len(buf)
<1>0. /\ N \in Nat /\ n \in 1..3 /\ Len(all) \in Nat /\ start \in [0..N -> Nat]
      /\ \A k \in 1..N : text[k] \in Keys
      /\ \A k \in 1..N : k \in 0..N /\ k - 1 \in 0..N
  BY LenProperties, ElementOfSeq DEF Placed
<1>1. \A p \in 1..Len(all) : \E k \in 1..N : start[k - 1] < p /\ p <= start[k]
  BY DEF Placed
<1>2. /\ \A k \in 1..N : start[k] = start[k - 1] + Len(Bytes[text[k]])
      /\ \A i, k \in 0..N : i <= k => start[i] <= start[k]
      /\ \A k \in 1..N : \A j \in 1..Len(Bytes[text[k]]) : all[start[k - 1] + j] = Bytes[text[k]][j]
  BY DEF Placed
<1>3. taken + n <= Len(all) /\ \A i \in 1..n : buf[i] = all[taken + i]
  OBVIOUS
<1> HIDE DEF N, n
<1>4. PICK k \in 1..N : start[k - 1] < taken + 1 /\ taken + 1 <= start[k]
  <2>1. taken + 1 \in 1..Len(all)
    BY <1>0, <1>3
  <2> QED BY <1>1, <2>1
<1> DEFINE b == Bytes[text[k]]
           s == start[k - 1]
           j == (taken + 1) - s
<1>5. /\ s \in Nat /\ start[k] = s + Len(b) /\ Len(b) \in 1..3 /\ b[1] \in FirstBytes
      /\ \A i \in 1..Len(b) : all[s + i] = b[i]
      /\ \A i \in 1..Len(b) : i # 1 => b[i] \in {91, 65, 66}
  BY <1>0, <1>2, BytesOfKey
<1>6. buf[1] = all[taken + 1] /\ buf[1] \in {3, 4, 13, 10, 27, 113, 81, 32}
  BY <1>0, <1>3, KeysOfReads DEF n
<1>7. s = taken /\ buf[1] = b[1]
  <2>1. s < taken + 1 /\ taken + 1 <= start[k]
    BY <1>4
  <2> HIDE DEF s, b
  <2>2. j \in 1..Len(b) /\ s + j = taken + 1
    BY <1>5, <2>1
  <2>3. all[taken + 1] = b[j]
    BY <1>5, <2>2
  <2>4. j = 1
    <3> HIDE DEF j
    <3>1. buf[1] = b[j]
      BY <1>6, <2>3, Zenon
    <3>2. b[j] \in {3, 4, 13, 10, 27, 113, 81, 32}
      BY <1>6, <3>1, Zenon
    <3>3. b[j] \notin {91, 65, 66}
      BY <3>2
    <3> QED BY <1>5, <2>2, <3>3
  <2> QED BY <1>5, <1>6, <2>2, <2>3, <2>4
<1>8. text[k] \in Keys
  BY <1>0
\* The next byte behind a key of one byte is the first one of another.
<1>9. ASSUME Len(b) = 1, n > 1 PROVE buf[2] \in FirstBytes
  <2>1. start[k] = taken + 1 /\ taken + 2 \in 1..Len(all) /\ buf[2] = all[taken + 2]
    BY <1>0, <1>3, <1>5, <1>7, <1>9
  <2>2. PICK m \in 1..N : start[m - 1] < taken + 2 /\ taken + 2 <= start[m]
    BY <1>1, <2>1
  <2>3. m - 1 \in 0..N /\ m \in 0..N /\ k \in 0..N /\ start[m - 1] \in Nat /\ start[m] \in Nat
    BY <1>0
  <2>4. ~(m <= k)
    BY <1>2, <2>1, <2>2, <2>3
  <2>5. k <= m - 1
    BY <2>3, <2>4
  <2>6. start[k] <= start[m - 1]
    BY <1>2, <2>3, <2>5
  <2>7. start[m - 1] = taken + 1
    BY <2>1, <2>2, <2>3, <2>6
  <2>8. text[m] \in Keys
    BY <1>0
  <2>9. Len(Bytes[text[m]]) \in 1..3 /\ Bytes[text[m]][1] \in FirstBytes
    BY <2>8, BytesOfKey
  <2>10. all[start[m - 1] + 1] = Bytes[text[m]][1]
    BY <1>2, <2>9
  <2> QED BY <2>1, <2>7, <2>9, <2>10
<1>10. ASSUME Len(b) = 3, n = 3 PROVE buf[3] = b[3]
  BY <1>3, <1>5, <1>7, <1>10
<1>11. buf \in Seq(Nat) /\ Len(buf) = n
  BY DEF n
<1>12. KeyOf(buf) = text[k] \/ (KeyOf(buf) = "escape" /\ text[k] \in {"up", "down"})
  <2>1. CASE text[k] \in {"interrupt", "enter", "quit", "space"}
    <3>1. b[1] = IF text[k] = "interrupt" THEN 3 ELSE IF text[k] = "enter" THEN 13
                 ELSE IF text[k] = "quit" THEN 113 ELSE 32
      BY <2>1, BytesAre
    <3> QED BY <1>7, <1>0, <1>11, <2>1, <3>1, KeysOfReads
  <2>2. CASE text[k] = "other"
    <3>1. b[1] = 120
      BY <2>2, BytesAre
    <3> QED BY <1>6, <1>7, <3>1
  <2>3. CASE text[k] = "escape"
    <3>1. Len(b) = 1 /\ b[1] = 27
      BY <2>3, BytesAre
    <3>2. n > 1 => buf[2] # 91
      BY <1>9, <3>1 DEF FirstBytes
    <3>3. buf # <<27, 91, 65>> /\ buf # <<27, 91, 66>>
      <4> DEFINE up == <<27, 91, 65>>
                 down == <<27, 91, 66>>
      <4>1. Len(up) = 3 /\ Len(down) = 3 /\ up[2] = 91 /\ down[2] = 91
        BY TuplesAre
      <4> HIDE DEF up, down
      <4>2. buf = up \/ buf = down => (Len(buf) = Len(up) \/ Len(buf) = Len(down))
                                     /\ (buf[2] = up[2] \/ buf[2] = down[2])
        BY Zenon
      <4>3. ~(buf = up \/ buf = down)
        BY <1>11, <3>2, <4>1, <4>2
      <4> QED BY <4>3 DEF up, down
    <3> QED BY <1>0, <1>7, <1>11, <2>3, <3>1, <3>3, KeysOfReads
  <2>4. CASE text[k] \in {"up", "down"}
    <3>1. Len(b) = 3 /\ b[1] = 27 /\ b[3] = IF text[k] = "up" THEN 65 ELSE 66
      <4>1. b = IF text[k] = "up" THEN <<27, 91, 65>> ELSE <<27, 91, 66>>
        BY <2>4, BytesAre
      <4> HIDE DEF b
      <4> QED BY <4>1, TuplesAre
    <3>2. buf = <<27, 91, 65>> => n = 3 /\ buf[3] = 65
      BY <1>11
    <3>3. buf = <<27, 91, 66>> => n = 3 /\ buf[3] = 66
      BY <1>11
    <3>4. \/ buf = <<27>> /\ KeyOf(buf) = "escape"
          \/ buf = <<27, 91, 65>> /\ KeyOf(buf) = "up"
          \/ buf = <<27, 91, 66>> /\ KeyOf(buf) = "down"
      <4>1. buf[1] = 27 /\ Len(buf) \in 1..3
        BY <1>0, <1>7, <1>11, <3>1
      <4> QED BY <1>11, <4>1, KeysOfReads
    <3> QED BY <1>10, <2>4, <3>1, <3>2, <3>3, <3>4
  <2> QED BY <1>8, <2>1, <2>2, <2>3, <2>4, BytesAre
<1> QED
  BY <1>7, <1>12 DEF N

-----------------------------------------------------------------------------
(* Ranks.                                                                   *)

LEMMA RanksOfMore ==
    ASSUME NEW n \in Nat, NEW S \in SUBSET (1..n), NEW m \in 1..n, \A x \in S : x < m
    PROVE  /\ Cardinality(S) \in Nat
           /\ Cardinality(S \cup {m}) = Cardinality(S) + 1
           /\ \A x \in S : Rank(x, S \cup {m}) = Rank(x, S)
           /\ Rank(m, S \cup {m}) = Cardinality(S) + 1
           /\ \A x \in S : Rank(x, S) \in Nat /\ Rank(x, S) <= Cardinality(S)
<1>1. IsFiniteSet(1..n) /\ IsFiniteSet(S)
  <2>1. IsFiniteSet(1..n)
    BY FS_Interval
  <2> QED BY <2>1, FS_Subset
<1>2. m \notin S
  OBVIOUS
<1>3. Cardinality(S) \in Nat /\ Cardinality(S \cup {m}) = Cardinality(S) + 1
  BY <1>1, <1>2, FS_AddElement, FS_CardinalityType
<1>4. ASSUME NEW x \in S
      PROVE  /\ Rank(x, S \cup {m}) = Rank(x, S)
             /\ Rank(x, S) \in Nat /\ Rank(x, S) <= Cardinality(S)
  <2>1. {y \in S \cup {m} : y <= x} = {y \in S : y <= x}
    <3>1. x < m /\ x \in Nat /\ m \in Nat
      OBVIOUS
    <3>2. ~(m <= x)
      BY <3>1
    <3> QED BY <3>2
  <2>2. {y \in S : y <= x} \subseteq S
    OBVIOUS
  <2>3. Cardinality({y \in S : y <= x}) <= Cardinality(S) /\ IsFiniteSet({y \in S : y <= x})
    BY <1>1, <2>2, FS_Subset
  <2> QED BY <2>1, <2>3, FS_CardinalityType DEF Rank
<1>5. Rank(m, S \cup {m}) = Cardinality(S) + 1
  <2>1. \A y \in S \cup {m} : y <= m
    OBVIOUS
  <2>2. {y \in S \cup {m} : y <= m} = S \cup {m}
    BY <2>1
  <2> QED BY <1>3, <2>2 DEF Rank
<1> QED
  BY <1>3, <1>4, <1>5

\* The reads that were acted on are the keys at these places.
Heard(key, typed) == key = typed \/ (key = "escape" /\ typed \in {"up", "down"})

Matched(text, reads, places) ==
    LET acted == {i \in DOMAIN reads : reads[i].key # "other"}
    IN  /\ Cardinality(places) = Cardinality(acted)
        /\ \A i \in acted, p \in places :
             Rank(i, acted) = Rank(p, places) => Heard(reads[i].key, text[p])

LEMMA MatchedMore ==
    ASSUME NEW S, NEW reads \in Seq(S), NEW read \in S,
           NEW N \in Nat, NEW text, NEW places \in SUBSET (1..N), Matched(text, reads, places)
    PROVE  /\ read.key = "other" => Matched(text, Append(reads, read), places)
           /\ \A k \in 1..N :
                (\A p \in places : p < k) /\ Heard(read.key, text[k]) /\ read.key # "other" =>
                  Matched(text, Append(reads, read), places \cup {k})
<1> DEFINE n == Len(reads)
           more == Append(reads, read)
           acted == {i \in DOMAIN reads : reads[i].key # "other"}
           acted2 == {i \in DOMAIN more : more[i].key # "other"}
<1>1. n \in Nat /\ DOMAIN reads = 1..n /\ DOMAIN more = 1..(n + 1)
      /\ (\A i \in 1..n : more[i] = reads[i]) /\ more[n + 1] = read
  <2>1. n \in Nat /\ DOMAIN reads = 1..n
    BY LenProperties
  <2>2. more \in Seq(S) /\ Len(more) = n + 1 /\ (\A i \in 1..n : more[i] = reads[i]) /\ more[n + 1] = read
    BY AppendProperties
  <2>3. DOMAIN more = 1..Len(more)
    <3> HIDE DEF more
    <3> QED BY <2>2, LenProperties
  <2> QED BY <2>1, <2>2, <2>3
<1> HIDE DEF n, more
<1>2. acted \in SUBSET (1..(n + 1)) /\ \A i \in acted : i < n + 1
  BY <1>1
<1>3. CASE read.key = "other"
  <2>1. acted2 = acted
    BY <1>1, <1>3
  <2>2. \A i \in acted : more[i] = reads[i]
    BY <1>1
  <2>3. Matched(text, more, places)
    BY <2>1, <2>2 DEF Matched
  <2> QED BY <1>3, <2>3 DEF more
<1>4. ASSUME NEW k \in 1..N, \A p \in places : p < k, Heard(read.key, text[k]), read.key # "other"
      PROVE  Matched(text, more, places \cup {k})
  <2> DEFINE places2 == places \cup {k}
  <2>1. acted2 = acted \cup {n + 1}
    BY <1>1, <1>4
  <2>2. /\ Cardinality(acted) \in Nat
        /\ Cardinality(acted \cup {n + 1}) = Cardinality(acted) + 1
        /\ \A x \in acted : Rank(x, acted \cup {n + 1}) = Rank(x, acted)
        /\ Rank(n + 1, acted \cup {n + 1}) = Cardinality(acted) + 1
        /\ \A x \in acted : Rank(x, acted) \in Nat /\ Rank(x, acted) <= Cardinality(acted)
    <3>1. n + 1 \in Nat /\ n + 1 \in 1..(n + 1)
      BY <1>1
    <3> HIDE DEF acted
    <3> QED BY <1>2, <3>1, RanksOfMore
  <2>3. /\ Cardinality(places) \in Nat
        /\ Cardinality(places2) = Cardinality(places) + 1
        /\ \A x \in places : Rank(x, places2) = Rank(x, places)
        /\ Rank(k, places2) = Cardinality(places) + 1
        /\ \A x \in places : Rank(x, places) \in Nat /\ Rank(x, places) <= Cardinality(places)
    BY <1>4, RanksOfMore
  <2>4. /\ Cardinality(places) = Cardinality(acted)
        /\ \A i \in acted, p \in places :
             Rank(i, acted) = Rank(p, places) => Heard(reads[i].key, text[p])
    BY DEF Matched
  <2>5. \A i \in acted : more[i] = reads[i]
    BY <1>1
  <2> HIDE DEF acted, acted2, places2
  <2>6. Cardinality(places2) = Cardinality(acted2)
    BY <2>1, <2>2, <2>3, <2>4
  <2>7. ASSUME NEW i \in acted2, NEW p \in places2, Rank(i, acted2) = Rank(p, places2)
        PROVE  Heard(more[i].key, text[p])
    <3>1. CASE i \in acted /\ p \in places
      BY <2>1, <2>2, <2>3, <2>4, <2>5, <2>7, <3>1
    <3>2. CASE i \notin acted /\ p \notin places
      <4>1. i = n + 1 /\ p = k
        BY <2>1, <2>7, <3>2 DEF places2
      <4> QED BY <1>1, <1>4, <4>1
    <3>3. CASE i \in acted /\ p \notin places
      <4>1. p = k
        BY <2>7, <3>3 DEF places2
      <4> QED BY <2>1, <2>2, <2>3, <2>4, <2>7, <3>3, <4>1
    <3>4. CASE i \notin acted /\ p \in places
      <4>1. i = n + 1
        BY <2>1, <2>7, <3>4
      <4> QED BY <2>1, <2>2, <2>3, <2>4, <2>7, <3>4, <4>1
    <3> QED BY <3>1, <3>2, <3>3, <3>4
  <2> QED BY <2>6, <2>7 DEF Matched, acted2, places2
<1> QED
  BY <1>3, <1>4 DEF more

-----------------------------------------------------------------------------
(* The terminal.                                                            *)

Reads == [buf : Seq(Nat), key : Keys]

\* So many bytes of the text have been read; the rest can be read or has yet to
\* come. The reads that were acted on began where these keys do.
Under(text, start, all, taken, places, coming, there, reads) ==
    /\ Placed(text, start, all)
    /\ coming \in Seq(Nat) /\ there \in Seq(Nat) /\ reads \in Seq(Reads)
    /\ taken \in Nat /\ taken + Len(there) + Len(coming) = Len(all)
    /\ \A i \in 1..Len(there) : there[i] = all[taken + i]
    /\ \A i \in 1..Len(coming) : coming[i] = all[taken + Len(there) + i]
    /\ places \in SUBSET (1..Len(text)) /\ Matched(text, reads, places)
    /\ \A p \in places : start[p - 1] < taken

TerminalInv ==
    /\ script \in Seq(Keys)
    /\ \E start, all, taken, places : Under(script, start, all, taken, places, wire, tty, log)

LEMMA TerminalFresh ==
    ASSUME NEW text \in Seq(Keys)
    PROVE  \E start, all, taken, places :
             Under(text, start, all, taken, places, BytesOf(text), <<>>, <<>>)
<1>1. PICK start : Placed(text, start, BytesOf(text))
  BY BytesPlaced
<1> DEFINE all == BytesOf(text)
<1>2. all \in Seq(Nat) /\ Len(all) \in Nat
  BY <1>1, LenProperties DEF Placed
<1>3. Placed(text, start, all)
  BY <1>1
<1> HIDE DEF all
<1>4. <<>> \in Seq(Nat) /\ <<>> \in Seq(Reads) /\ Len(<<>>) = 0
  BY EmptySeq
<1>5. Matched(text, <<>>, {})
  <2>1. {i \in DOMAIN <<>> : <<>>[i].key # "other"} = {}
    OBVIOUS
  <2> QED BY <2>1 DEF Matched
<1>6. Under(text, start, all, 0, {}, all, <<>>, <<>>)
  BY <1>2, <1>3, <1>4, <1>5 DEF Under
<1> QED
  BY <1>6 DEF all

LEMMA ByteArrives ==
    ASSUME NEW text, NEW start, NEW all, NEW taken, NEW places, NEW coming, NEW there, NEW reads,
           Under(text, start, all, taken, places, coming, there, reads), coming # <<>>
    PROVE  Under(text, start, all, taken, places, Tail(coming), Append(there, Head(coming)), reads)
<1> DEFINE c == Len(coming)
           t == Len(there)
           more == Append(there, Head(coming))
           rest == Tail(coming)
<1>1. coming \in Seq(Nat) /\ there \in Seq(Nat) /\ taken \in Nat /\ taken + t + c = Len(all)
  BY DEF Under
<1>2. c \in Nat /\ c > 0 /\ t \in Nat
  BY <1>1, EmptySeq, LenProperties
<1>3. Head(coming) = coming[1] /\ coming[1] \in Nat /\ rest \in Seq(Nat) /\ Len(rest) = c - 1
      /\ \A i \in 1..(c - 1) : rest[i] = coming[i + 1]
  BY <1>1, <1>2, HeadTailProperties, ElementOfSeq
<1>4. more \in Seq(Nat) /\ Len(more) = t + 1 /\ (\A i \in 1..t : more[i] = there[i]) /\ more[t + 1] = coming[1]
  BY <1>1, <1>3, AppendProperties
<1>5. /\ \A i \in 1..t : there[i] = all[taken + i]
      /\ \A i \in 1..c : coming[i] = all[taken + t + i]
  BY DEF Under
<1> HIDE DEF c, t, more, rest
<1>6. ASSUME NEW i \in 1..Len(more) PROVE more[i] = all[taken + i]
  <2>1. CASE i = t + 1
    <3>1. 1 \in 1..c /\ taken + t + 1 = taken + i
      BY <1>1, <1>2, <2>1
    <3> QED BY <1>4, <1>5, <2>1, <3>1
  <2>2. CASE i # t + 1
    <3>1. i \in 1..t
      BY <1>2, <1>4, <2>2
    <3> QED BY <1>4, <1>5, <3>1
  <2> QED BY <2>1, <2>2
<1>7. ASSUME NEW i \in 1..Len(rest) PROVE rest[i] = all[taken + Len(more) + i]
  <2>1. i \in 1..(c - 1) /\ i + 1 \in 1..c /\ taken + t + (i + 1) = taken + Len(more) + i
    BY <1>1, <1>2, <1>3, <1>4
  <2> QED BY <1>3, <1>5, <2>1
<1>8. taken + Len(more) + Len(rest) = Len(all)
  <2>1. Len(more) = t + 1 /\ Len(rest) = c - 1 /\ taken + t + c = Len(all)
    BY <1>1, <1>3, <1>4
  <2>2. taken \in Nat /\ t \in Nat /\ c \in Nat
    BY <1>1, <1>2
  <2>3. taken + (t + 1) + (c - 1) = taken + t + c
    BY <2>2
  <2> QED BY <2>1, <2>3
<1>9. Under(text, start, all, taken, places, rest, more, reads)
  BY <1>1, <1>3, <1>4, <1>6, <1>7, <1>8 DEF Under
<1> QED
  BY <1>9 DEF more, rest

\* What a read takes.
Taken(there) == IF Len(there) < 3 THEN Len(there) ELSE 3

LEMMA BytesRead ==
    ASSUME NEW text \in Seq(Keys), NEW start, NEW all, NEW taken, NEW places, NEW coming, NEW there, NEW reads,
           Under(text, start, all, taken, places, coming, there, reads), there # <<>>
    PROVE  LET n == Taken(there)
               buf == SubSeq(there, 1, n)
               read == [buf |-> buf, key |-> KeyOf(buf)]
           IN  /\ read \in Reads
               /\ \E after, found : Under(text, start, all, after, found, coming,
                                          SubSeq(there, n + 1, Len(there)), Append(reads, read))
<1> DEFINE t == Len(there)
           n == Taken(there)
           buf == SubSeq(there, 1, n)
           rest == SubSeq(there, n + 1, t)
           read == [buf |-> buf, key |-> KeyOf(buf)]
           N == Len(text)
<1>1. /\ coming \in Seq(Nat) /\ there \in Seq(Nat) /\ taken \in Nat /\ reads \in Seq(Reads)
      /\ Placed(text, start, all)
      /\ taken + t + Len(coming) = Len(all)
      /\ \A i \in 1..t : there[i] = all[taken + i]
      /\ \A i \in 1..Len(coming) : coming[i] = all[taken + t + i]
      /\ places \in SUBSET (1..N) /\ Matched(text, reads, places)
      /\ \A p \in places : start[p - 1] < taken
  BY DEF Under
<1>2. t \in Nat /\ t > 0 /\ Len(coming) \in Nat /\ N \in Nat
  BY <1>1, EmptySeq, LenProperties
<1>3. n \in 1..3 /\ n <= t
  <2>1. n = IF t < 3 THEN t ELSE 3
    BY DEF Taken
  <2> HIDE DEF n, t
  <2> QED BY <1>2, <2>1
<1> HIDE DEF n, t, N
<1>4. buf \in Seq(Nat) /\ Len(buf) = n /\ \A i \in 1..n : buf[i] = there[i]
  <2>1. \A i \in 1..n : i \in 1..t
    BY <1>2, <1>3
  <2>2. \A i \in 1..n : there[i] \in Nat
    BY <1>1, <2>1, ElementOfSeq DEF t
  <2>3. 1 <= n + 1 /\ n \in 0..t
    BY <1>2, <1>3
  <2> QED BY <1>1, <1>2, <1>3, <2>1, <2>2, SubSeqProperties DEF t
<1>5. rest \in Seq(Nat) /\ Len(rest) = t - n /\ \A i \in 1..(t - n) : rest[i] = there[n + i]
  <2>1. \A i \in (n + 1)..t : there[i] \in Nat
    BY <1>1, <1>2, <1>3, ElementOfSeq DEF t
  <2> QED BY <1>1, <1>2, <1>3, <2>1, SubSeqProperties DEF t
<1> HIDE DEF buf, rest
<1>6. read \in Reads /\ read.key = KeyOf(buf)
  <2>1. Len(buf) \in 1..3
    BY <1>3, <1>4
  <2>2. KeyOf(buf) \in Keys
    BY <1>4, <2>1, KeysOfReads
  <2> QED BY <1>4, <2>2 DEF Reads
<1> DEFINE more == Append(reads, read)
<1> HIDE DEF read
<1>7. more \in Seq(Reads)
  BY <1>1, <1>6, AppendProperties
<1> DEFINE after == taken + n
<1>8. /\ after \in Nat /\ taken < after /\ after + Len(rest) + Len(coming) = Len(all)
      /\ (\A i \in 1..Len(rest) : rest[i] = all[after + i])
      /\ \A i \in 1..Len(coming) : coming[i] = all[after + Len(rest) + i]
  <2>1. ASSUME NEW i \in 1..Len(rest) PROVE rest[i] = all[after + i]
    <3>1. i \in 1..(t - n) /\ n + i \in 1..t /\ taken + (n + i) = after + i
      BY <1>1, <1>2, <1>3, <1>5
    <3> QED BY <1>1, <1>5, <3>1
  <2>2. taken + t = after + Len(rest)
    BY <1>1, <1>2, <1>3, <1>5
  <2>3. after \in Nat /\ taken < after
    BY <1>1, <1>3
  <2>4. after + Len(rest) + Len(coming) = Len(all)
    BY <1>1, <2>2
  <2> QED BY <1>1, <2>1, <2>2, <2>3, <2>4
<1>9. \E found \in SUBSET (1..N) : Matched(text, more, found) /\ \A p \in found : start[p - 1] < after
  <2>0. /\ start \in [0..N -> Nat] /\ \A i, k \in 0..N : i <= k => start[i] <= start[k]
    BY <1>1 DEF Placed, N
  <2>1. CASE read.key = "other"
    <3>1. Matched(text, more, places)
      BY <1>1, <1>2, <1>6, <2>1, MatchedMore
    <3>2. ASSUME NEW p \in places PROVE start[p - 1] < after
      <4>1. start[p - 1] < taken /\ p - 1 \in 0..N
        BY <1>1, <1>2
      <4>2. start[p - 1] \in Nat /\ taken < after /\ after \in Nat
        BY <1>8, <2>0, <4>1
      <4> HIDE DEF after
      <4> QED BY <1>1, <4>1, <4>2
    <3> QED BY <1>1, <3>1, <3>2
  <2>2. CASE read.key # "other"
    <3>1. \E k \in 1..Len(text) : /\ start[k - 1] = taken
                                  /\ \/ KeyOf(buf) = text[k]
                                     \/ KeyOf(buf) = "escape" /\ text[k] \in {"up", "down"}
      <4>1. taken + n <= Len(all) /\ Len(buf) \in 1..3
        <5>1. taken + t + Len(coming) = Len(all) /\ taken \in Nat
          BY <1>1
        <5> QED BY <1>2, <1>3, <1>4, <5>1
      <4>2. ASSUME NEW i \in 1..Len(buf) PROVE buf[i] = all[taken + i]
        <5>1. i \in 1..n /\ i \in 1..t
          BY <1>2, <1>3, <1>4
        <5>2. buf[i] = there[i]
          BY <1>4, <5>1
        <5>3. there[i] = all[taken + i]
          BY <1>1, <5>1
        <5> QED BY <5>2, <5>3
      <4>3. KeyOf(buf) # "other" /\ taken + Len(buf) <= Len(all)
        BY <1>4, <1>6, <2>2, <4>1
      <4>4. Placed(text, start, all) /\ taken \in Nat /\ buf \in Seq(Nat)
        BY <1>1, <1>4
      <4> QED BY <4>1, <4>2, <4>3, <4>4, AKeyIsHeard
    <3>2. PICK k \in 1..N : start[k - 1] = taken /\ Heard(read.key, text[k])
      BY <1>6, <3>1 DEF Heard, N
    <3>3. ASSUME NEW p \in places PROVE p < k
      <4>1. p - 1 \in 0..N /\ k - 1 \in 0..N /\ start[p - 1] < taken
        BY <1>1, <1>2
      <4>2. start[p - 1] \in Nat /\ start[k - 1] \in Nat
        BY <2>0, <4>1
      <4>3. ~(k - 1 <= p - 1)
        BY <2>0, <3>2, <4>1, <4>2
      <4> QED BY <1>1, <1>2, <4>1, <4>3
    <3>4. Matched(text, more, places \cup {k})
      BY <1>1, <1>2, <1>6, <2>2, <3>2, <3>3, MatchedMore
    <3>5. ASSUME NEW p \in places \cup {k} PROVE start[p - 1] < after
      <4>1. p - 1 \in 0..N /\ start[p - 1] <= taken
        BY <1>1, <1>2, <3>2, <2>0
      <4>2. start[p - 1] \in Nat /\ taken < after /\ after \in Nat
        BY <1>8, <2>0, <4>1
      <4> HIDE DEF after
      <4> QED BY <1>1, <4>1, <4>2
    <3> QED BY <1>1, <3>4, <3>5
  <2> QED BY <2>1, <2>2
<1>10. PICK found \in SUBSET (1..N) : Matched(text, more, found) /\ \A p \in found : start[p - 1] < after
  BY <1>9
<1> HIDE DEF more, after
<1>11. Under(text, start, all, after, found, coming, rest, more)
  BY <1>1, <1>5, <1>7, <1>8, <1>10 DEF Under, N
<1> QED
  BY <1>6, <1>11 DEF more, read, rest, buf, n, t

-----------------------------------------------------------------------------
(* The list.                                                                *)

Lists == [cursor : Nat, ticked : SUBSET Nat, state : {"choosing", "answered", "exited"}]

AList(c, t, s) == [cursor |-> c, ticked |-> t, state |-> s]

LEMMA AListIs ==
    ASSUME NEW c \in Nat, NEW t \in SUBSET Nat, NEW s \in {"choosing", "answered", "exited"}
    PROVE  AList(c, t, s) \in Lists
  BY DEF Lists, AList

LEMMA FreshIs == Fresh \in Lists /\ Fresh.state = "choosing"
  BY DEF Fresh, Lists

LEMMA PressIs ==
    ASSUME NEW l \in Lists, NEW key
    PROVE  /\ Press(l, key, Items) \in Lists
           /\ l.state # "choosing" => Press(l, key, Items) = l
           /\ Press(l, "escape", Items).state # "choosing"
<1>1. CASE l.state # "choosing"
  BY <1>1 DEF Press
<1>2. CASE l.state = "choosing"
  <2>0. l.cursor \in Nat /\ l.ticked \in SUBSET Nat /\ Items \in Nat
    BY MultiSelectAssumption DEF Lists
  <2>1. l = AList(l.cursor, l.ticked, l.state)
    BY DEF Lists, AList
  <2>2. Press(l, key, Items) \in Lists
    <3>1. CASE key = "up"
      <4>1. Press(l, key, Items) = IF l.cursor > 1 THEN [l EXCEPT !.cursor = @ - 1] ELSE l
        BY <1>2, <3>1 DEF Press
      <4>2. [l EXCEPT !.cursor = @ - 1] = AList(l.cursor - 1, l.ticked, l.state)
        BY <2>1 DEF AList
      <4>3. l.cursor > 1 => l.cursor - 1 \in Nat
        BY <2>0
      <4>4. l.state \in {"choosing", "answered", "exited"}
        BY <1>2
      <4>5. l.cursor > 1 => AList(l.cursor - 1, l.ticked, l.state) \in Lists
        BY <2>0, <4>3, <4>4, AListIs
      <4> QED BY <4>1, <4>2, <4>5
    <3>2. CASE key = "down"
      <4>1. Press(l, key, Items) = IF l.cursor < Items THEN [l EXCEPT !.cursor = @ + 1] ELSE l
        BY <1>2, <3>2 DEF Press
      <4>2. [l EXCEPT !.cursor = @ + 1] = AList(l.cursor + 1, l.ticked, l.state)
        BY <2>1 DEF AList
      <4>3. l.cursor + 1 \in Nat /\ l.state \in {"choosing", "answered", "exited"}
        BY <1>2, <2>0
      <4>4. AList(l.cursor + 1, l.ticked, l.state) \in Lists
        BY <2>0, <4>3, AListIs
      <4> QED BY <4>1, <4>2, <4>4
    <3>3. CASE key = "space"
      <4> DEFINE set == Toggled(l.ticked, l.cursor)
      <4>1. Press(l, key, Items) = [l EXCEPT !.ticked = set]
        BY <1>2, <3>3 DEF Press
      <4>2. set \in SUBSET Nat
        BY <2>0 DEF Toggled
      <4> HIDE DEF set
      <4>3. [l EXCEPT !.ticked = set] = AList(l.cursor, set, l.state)
        BY <2>1 DEF AList
      <4>4. AList(l.cursor, set, l.state) \in Lists
        BY <1>2, <2>0, <4>2, AListIs
      <4> QED BY <4>1, <4>3, <4>4
    <3>4. CASE key \in {"enter", "escape", "quit", "interrupt"}
      <4> DEFINE set == IF key \in {"escape", "quit"} THEN {} ELSE l.ticked
                 end == IF key = "interrupt" THEN "exited" ELSE "answered"
      <4>1. Press(l, key, Items) = AList(l.cursor, set, end)
        <5>1. CASE key = "enter"
          BY <1>2, <2>1, <5>1 DEF Press, AList
        <5>2. CASE key \in {"escape", "quit"}
          BY <1>2, <2>1, <5>2 DEF Press, AList
        <5>3. CASE key = "interrupt"
          BY <1>2, <2>1, <5>3 DEF Press, AList
        <5> QED BY <3>4, <5>1, <5>2, <5>3
      <4>2. set \in SUBSET Nat /\ end \in {"choosing", "answered", "exited"}
        BY <2>0
      <4> HIDE DEF set, end
      <4> QED BY <2>0, <4>1, <4>2, AListIs
    <3>5. CASE key \notin {"up", "down", "space", "enter", "escape", "quit", "interrupt"}
      BY <1>2, <3>5 DEF Press
    <3> QED BY <3>1, <3>2, <3>3, <3>4, <3>5
  <2>3. Press(l, "escape", Items) = [l EXCEPT !.ticked = {}, !.state = "answered"]
    BY <1>2 DEF Press
  <2>4. Press(l, "escape", Items).state = "answered"
    BY <2>3, <2>1 DEF AList
  <2> QED BY <1>2, <2>2, <2>4
<1>3. l.state = "choosing" \/ Press(l, "escape", Items) = l
  BY DEF Press
<1> QED
  BY <1>1, <1>2, <1>3

LEMMA ThoughtIs ==
    ASSUME NEW text \in Seq(Keys)
    PROVE  /\ Thought(text, 0) = Fresh
           /\ \A k \in 1..Len(text) : Thought(text, k) = Press(Thought(text, k - 1), text[k], Items)
           /\ \A k \in 0..Len(text) : Thought(text, k) \in Lists
<1> DEFINE N == Len(text)
           steps == [k \in 1..N |-> [was \in Lists |-> Press(was, text[k], Items)]]
           IsThought(g) ==
             g = [k \in 0..N |-> IF k = 0 THEN Fresh ELSE Press(g[k - 1], text[k], Items)]
           thought == CHOOSE g : IsThought(g)
<1>0. N \in Nat
  BY LenProperties
<1>1. \E g : IsThought(g) /\ g \in [0..N -> Lists]
  <2>1. steps \in [1..N -> [Lists -> Lists]]
    BY PressIs
  <2>2. PICK g : IsCourse(g, Lists, Fresh, steps, N)
    <3> HIDE DEF steps, N
    <3> QED BY <1>0, <2>1, FreshIs, CourseExists
  <2>3. g \in [0..N -> Lists] /\ g[0] = Fresh /\ \A k \in 1..N : g[k] = steps[k][g[k - 1]]
    BY <2>2 DEF IsCourse
  <2>4. ASSUME NEW k \in 0..N PROVE g[k] = IF k = 0 THEN Fresh ELSE Press(g[k - 1], text[k], Items)
    <3>1. CASE k = 0
      BY <2>3, <3>1
    <3>2. CASE k # 0
      <4>1. k \in 1..N /\ k - 1 \in 0..N
        BY <1>0, <3>2
      <4>2. g[k - 1] \in Lists /\ g[k] = steps[k][g[k - 1]]
        BY <2>3, <4>1
      <4>3. steps[k][g[k - 1]] = Press(g[k - 1], text[k], Items)
        BY <4>1, <4>2
      <4> QED BY <3>2, <4>2, <4>3
    <3> QED BY <3>1, <3>2
  <2> HIDE DEF steps
  <2>5. IsThought(g)
    BY <2>3, <2>4
  <2> QED BY <2>3, <2>5
<1>2. PICK g : IsThought(g) /\ g \in [0..N -> Lists]
  BY <1>1
<1>3. IsThought(thought)
  BY <1>1
<1>4. \A k \in 0..N : Thought(text, k) = thought[k]
  BY DEF Thought
<1> HIDE DEF thought, N
<1>5. /\ thought[0] = Fresh
      /\ \A k \in 1..N : thought[k] = Press(thought[k - 1], text[k], Items)
  <2>1. \A k \in 0..N : thought[k] = IF k = 0 THEN Fresh ELSE Press(thought[k - 1], text[k], Items)
    BY <1>3
  <2>2. 0 \in 0..N /\ \A k \in 1..N : k \in 0..N /\ k # 0
    BY <1>0
  <2> QED BY <2>1, <2>2
<1> DEFINE Fine == {k \in 0..N : thought[k] \in Lists}
<1>6. \A k \in 0..N : thought[k] \in Lists
  <2>1. 0 \in Fine
    BY <1>0, <1>5, FreshIs
  <2>2. ASSUME NEW k \in 1..N, k - 1 \in Fine PROVE k \in Fine
    <3>1. thought[k] = Press(thought[k - 1], text[k], Items) /\ thought[k - 1] \in Lists
      BY <1>5, <2>2
    <3>2. thought[k] \in Lists
      BY <3>1, PressIs
    <3> QED BY <1>0, <3>2
  <2> HIDE DEF Fine
  <2>3. \A k \in 0..N : k \in Fine
    BY <1>0, <2>1, <2>2, UpTo
  <2> QED BY <2>3 DEF Fine
<1>7. ASSUME NEW k \in 1..N PROVE Thought(text, k) = Press(Thought(text, k - 1), text[k], Items)
  <2>1. k \in 0..N /\ k - 1 \in 0..N
    BY <1>0
  <2> QED BY <1>4, <1>5, <2>1
<1>8. Thought(text, 0) = Fresh
  BY <1>0, <1>4, <1>5
<1> QED
  BY <1>4, <1>6, <1>7, <1>8 DEF N

\* Every read so far has taken one key as a whole.
Whole(text, reads) == Len(reads) <= Len(text) /\ \A i \in 1..Len(reads) : reads[i].buf = Bytes[text[i]]

AsThought(text, reads, l) ==
    Whole(text, reads) =>
      LET thought == Thought(text, Len(reads))
      IN  \/ l = thought
          \/ l = Press(thought, "escape", Items)
          \/ l = [Fresh EXCEPT !.state = "exited"]

ListInv == list \in Lists /\ AsThought(script, log, list)

\* What a whole key does.
LEMMA WholeKeyPressed ==
    ASSUME NEW text \in Seq(Keys), NEW reads \in Seq(Reads), NEW read \in Reads, NEW l \in Lists,
           AsThought(text, reads, l), l.state = "choosing", read.key = KeyOf(read.buf)
    PROVE  AsThought(text, Append(reads, read), Press(l, read.key, Items))
<1> DEFINE n == Len(reads)
           more == Append(reads, read)
<1> SUFFICES ASSUME Whole(text, more)
             PROVE  Press(l, read.key, Items) = Thought(text, Len(more))
  BY DEF AsThought
<1>1. /\ n \in Nat /\ Len(text) \in Nat /\ Len(more) = n + 1
      /\ (\A i \in 1..n : more[i] = reads[i]) /\ more[n + 1] = read
  BY LenProperties, AppendProperties
<1> HIDE DEF more, n
<1>2. n + 1 <= Len(text) /\ \A i \in 1..(n + 1) : more[i].buf = Bytes[text[i]]
  BY <1>1 DEF Whole
<1>3. Whole(text, reads)
  <2>1. ASSUME NEW i \in 1..n PROVE reads[i].buf = Bytes[text[i]]
    <3>1. i \in 1..(n + 1) /\ more[i] = reads[i]
      BY <1>1
    <3> QED BY <1>2, <3>1
  <2> QED BY <1>1, <1>2, <2>1 DEF Whole, n
<1>4. n \in 0..Len(text) /\ n + 1 \in 1..Len(text) /\ (n + 1) - 1 = n /\ n + 1 \in 1..(n + 1)
  BY <1>1, <1>2
<1>5. Thought(text, n) \in Lists
  BY <1>4, ThoughtIs
<1>6. Thought(text, n + 1) = Press(Thought(text, n), text[n + 1], Items)
  BY <1>4, ThoughtIs
<1>7. l = Thought(text, n)
  <2>1. Press(Thought(text, n), "escape", Items).state # "choosing"
    BY <1>5, PressIs
  <2>2. [Fresh EXCEPT !.state = "exited"].state = "exited"
    BY FreshIs DEF Lists
  <2> QED BY <1>3, <2>1, <2>2 DEF AsThought, n
<1>8. read.key = text[n + 1]
  <2>1. text[n + 1] \in Keys
    BY <1>4, ElementOfSeq
  <2>2. KeyOf(Bytes[text[n + 1]]) = text[n + 1]
    <3> DEFINE key == text[n + 1]
    <3>1. CASE key = "up"
      BY <3>1, BytesAre, TuplesAre DEF KeyOf
    <3>2. CASE key = "down"
      BY <3>2, BytesAre, TuplesAre DEF KeyOf
    <3>3. CASE key = "escape"
      BY <3>3, BytesAre, TuplesAre DEF KeyOf
    <3>4. CASE key \in {"space", "enter", "quit", "interrupt"}
      <4> DEFINE buf == Bytes[key]
      <4>1. buf[1] = IF key = "interrupt" THEN 3 ELSE IF key = "enter" THEN 13
                     ELSE IF key = "quit" THEN 113 ELSE 32
        BY <3>4, BytesAre
      <4>2. buf \in Seq(Nat) /\ Len(buf) \in 1..3
        BY <2>1, BytesOfKey
      <4> HIDE DEF buf
      <4>3. KeyOf(buf) = key
        BY <3>4, <4>1, <4>2, KeysOfReads
      <4> QED BY <4>3 DEF buf
    <3>5. CASE key = "other"
      <4> DEFINE buf == Bytes[key]
      <4>1. buf[1] = 120
        BY <3>5, BytesAre
      <4>2. buf \in Seq(Nat) /\ Len(buf) \in 1..3
        BY <2>1, BytesOfKey
      <4> HIDE DEF buf
      <4>3. KeyOf(buf) = "other"
        BY <4>1, <4>2, KeysOfReads
      <4> QED BY <3>5, <4>3 DEF buf
    <3> QED BY <2>1, <3>1, <3>2, <3>3, <3>4, <3>5, BytesAre
  <2>3. read.buf = Bytes[text[n + 1]]
    BY <1>1, <1>2, <1>4
  <2> QED BY <2>2, <2>3
<1> QED
  BY <1>1, <1>6, <1>7, <1>8

-----------------------------------------------------------------------------
(* The steps.                                                               *)

LEMMA NothingTyped == BytesOf(<<>>) = <<>>
<1> DEFINE bytes == BytesOf(<<>>)
<1>1. <<>> \in Seq(Keys) /\ Len(<<>>) = 0
  BY EmptySeq
<1>2. PICK start : Placed(<<>>, start, bytes)
  BY <1>1, BytesPlaced
<1> HIDE DEF bytes
<1>3. bytes \in Seq(Nat) /\ \A p \in 1..Len(bytes) : \E k \in 1..0 : TRUE
  BY <1>1, <1>2 DEF Placed
<1>4. Len(bytes) \in Nat /\ ~(1 \in 1..Len(bytes))
  BY <1>3, LenProperties
<1>5. Len(bytes) = 0
  BY <1>4
<1> QED
  BY <1>3, <1>5, EmptySeq DEF bytes

LEMMA FreshTerminal ==
    ASSUME NEW text \in Seq(Keys), Open(text)
    PROVE  TerminalInv' /\ ListInv'
<1>1. script' = text /\ wire' = BytesOf(text) /\ tty' = <<>> /\ log' = <<>> /\ list' = Fresh
  BY DEF Open
<1>2. TerminalInv'
  BY <1>1, TerminalFresh DEF TerminalInv
<1>3. Thought(text, 0) = Fresh /\ Len(<<>>) = 0
  BY ThoughtIs, EmptySeq
<1>4. AsThought(text, <<>>, Fresh)
  BY <1>3 DEF AsThought
<1> QED
  BY <1>1, <1>2, <1>4, FreshIs DEF ListInv

LEMMA TerminalNext ==
    ASSUME TerminalInv, ListInv, [WizardNext]_<<vars, widget, dialogue, dialogues>>
    PROVE  TerminalInv' /\ ListInv'
<1>0. script \in Seq(Keys) /\ list \in Lists /\ AsThought(script, log, list)
  BY DEF TerminalInv, ListInv
<1>1. PICK start, all, taken, places : Under(script, start, all, taken, places, wire, tty, log)
  BY DEF TerminalInv
<1>2. log \in Seq(Reads)
  BY <1>1 DEF Under
<1>3. CASE UNCHANGED widget
  BY <1>3 DEF widget, TerminalInv, ListInv
<1>4. CASE Configure
  <2>1. PICK text \in Scripts : Open(text)
    BY <1>4 DEF Configure
  <2>2. text \in Seq(Keys)
    BY MultiSelectAssumption DEF Keys
  <2> QED BY <2>1, <2>2, FreshTerminal
<1>5. CASE Selected
  <2>1. script' = <<>> /\ wire' = <<>> /\ tty' = <<>> /\ log' = <<>> /\ list' = Fresh
    BY <1>5 DEF Selected, Forget
  <2>2. <<>> \in Seq(Keys) /\ Len(<<>>) = 0
    BY EmptySeq
  <2>3. Open(<<>>)
    BY <2>1, NothingTyped DEF Open
  <2> QED BY <2>2, <2>3, FreshTerminal
<1>6. CASE Arrive
  <2>1. /\ wire # <<>> /\ tty' = Append(tty, Head(wire)) /\ wire' = Tail(wire)
        /\ script' = script /\ log' = log /\ list' = list
    BY <1>6 DEF Arrive
  <2>2. Under(script, start, all, taken, places, Tail(wire), Append(tty, Head(wire)), log)
    BY <1>1, <2>1, ByteArrives
  <2> QED BY <1>0, <2>1, <2>2 DEF TerminalInv, ListInv
<1>7. CASE Read
  <2> DEFINE n == Taken(tty)
             buf == SubSeq(tty, 1, n)
             read == [buf |-> buf, key |-> KeyOf(buf)]
  <2>1. /\ list.state = "choosing" /\ tty # <<>>
        /\ log' = Append(log, read) /\ tty' = SubSeq(tty, n + 1, Len(tty))
        /\ list' = Press(list, read.key, Items)
        /\ script' = script /\ wire' = wire
    BY <1>7 DEF Read, Taken
  <2>2. /\ read \in Reads
        /\ \E after, found : Under(script, start, all, after, found, wire,
                                   SubSeq(tty, n + 1, Len(tty)), Append(log, read))
    BY <1>0, <1>1, <2>1, BytesRead
  <2>3. read.key = KeyOf(read.buf)
    OBVIOUS
  <2> HIDE DEF read, n
  <2>4. TerminalInv'
    BY <1>0, <2>1, <2>2 DEF TerminalInv
  <2>5. AsThought(script, Append(log, read), Press(list, read.key, Items))
    BY <1>0, <1>2, <2>1, <2>2, <2>3, WholeKeyPressed
  <2>6. Press(list, read.key, Items) \in Lists
    BY <1>0, PressIs
  <2> QED BY <2>1, <2>4, <2>5, <2>6 DEF ListInv
<1>8. CASE ReadFails
  <2>1. /\ list.state = "choosing" /\ list' = Press(list, "escape", Items)
        /\ script' = script /\ wire' = wire /\ tty' = tty /\ log' = log
    BY <1>8 DEF ReadFails
  <2>2. AsThought(script, log, Press(list, "escape", Items))
    <3> SUFFICES ASSUME Whole(script, log)
                 PROVE  Press(list, "escape", Items) = Press(Thought(script, Len(log)), "escape", Items)
      BY DEF AsThought
    <3>1. Len(log) \in 0..Len(script)
      BY <1>0, <1>2, LenProperties DEF Whole
    <3>2. Press(Thought(script, Len(log)), "escape", Items).state # "choosing"
      BY <1>0, <3>1, ThoughtIs, PressIs
    <3>3. [Fresh EXCEPT !.state = "exited"].state = "exited"
      BY FreshIs DEF Lists
    <3> QED BY <1>0, <2>1, <3>2, <3>3 DEF AsThought
  <2>3. Press(list, "escape", Items) \in Lists
    BY <1>0, PressIs
  <2> QED BY <1>0, <1>1, <2>1, <2>2, <2>3 DEF TerminalInv, ListInv
<1>9. CASE MakeRawFails
  <2>1. /\ list' = [Fresh EXCEPT !.state = "exited"]
        /\ script' = script /\ wire' = wire /\ tty' = tty /\ log' = log
    BY <1>9 DEF MakeRawFails
  <2>2. AsThought(script, log, list')
    BY <2>1 DEF AsThought
  <2>3. list' \in Lists
    BY <2>1, FreshIs DEF Lists
  <2> QED BY <1>0, <1>1, <2>1, <2>2, <2>3 DEF TerminalInv, ListInv
<1>10. CASE Select
  BY <1>6, <1>7, <1>8, <1>9, <1>10 DEF Select
<1>11. ASSUME WizardNext, ~Configure, ~Select, ~Selected PROVE UNCHANGED widget
  BY <1>11 DEF WizardNext, ConfigureNext, CollectModels, AskAgent, Truncate, WriteConfig,
              Stop, Tear, Use
<1> QED
  BY <1>3, <1>4, <1>5, <1>10, <1>11 DEF widget

LEMMA TerminalInit == WizardInit => TerminalInv /\ ListInv
<1> SUFFICES ASSUME WizardInit PROVE TerminalInv /\ ListInv
  OBVIOUS
<1>1. script = <<>> /\ wire = BytesOf(<<>>) /\ tty = <<>> /\ log = <<>> /\ list = Fresh
  BY NothingTyped DEF WizardInit
<1>2. <<>> \in Seq(Keys) /\ Len(<<>>) = 0
  BY EmptySeq
<1>3. TerminalInv
  BY <1>1, <1>2, TerminalFresh DEF TerminalInv
<1>4. Thought(<<>>, 0) = Fresh
  BY <1>2, ThoughtIs
<1>5. AsThought(<<>>, <<>>, Fresh)
  BY <1>2, <1>4 DEF AsThought
<1> QED
  BY <1>1, <1>3, <1>5, FreshIs DEF ListInv

\* configure.go, multiSelect: no key is made up and no two change places,
\* however the bytes come together, whatever is typed.
THEOREM KeysAlwaysInOrder == WizardSpec => []KeysActInOrder
<1>1. TerminalInv => KeysActInOrder
  <2> SUFFICES ASSUME TerminalInv PROVE KeysActInOrder
    OBVIOUS
  <2>1. PICK start, all, taken, places : Under(script, start, all, taken, places, wire, tty, log)
    BY DEF TerminalInv
  <2>2. script \in Seq(Keys) /\ places \in SUBSET (1..Len(script)) /\ Matched(script, log, places)
    BY <2>1 DEF TerminalInv, Under
  <2>3. places \in SUBSET DOMAIN script
    BY <2>2, LenProperties
  <2> QED BY <2>2, <2>3 DEF KeysActInOrder, Matched, Heard
<1> QED
  BY <1>1, TerminalInit, TerminalNext, PTL DEF WizardSpec

\* configure.go, multiSelect: while every read has taken one key as a whole, the
\* list is as its user thinks, whatever is typed, until the terminal is closed.
THEOREM WholeKeysAlwaysCount == WizardSpec => []WholeKeysCount
<1>1. TerminalInv /\ ListInv => WholeKeysCount
  <2> SUFFICES ASSUME TerminalInv, ListInv PROVE WholeKeysCount
    OBVIOUS
  <2>1. log \in Seq(Reads)
    BY DEF TerminalInv, Under
  <2>2. DOMAIN log = 1..Len(log)
    BY <2>1, LenProperties
  <2> QED BY <2>2 DEF WholeKeysCount, ListInv, AsThought, Whole
<1> QED
  BY <1>1, TerminalInit, TerminalNext, PTL DEF WizardSpec
===============================================================================
