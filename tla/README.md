# A verification of edcode

edcode is a terminal coding agent: it takes a task in words, lets a language
model work on it in one or several steps with tools (files, a shell, MCP
servers), and keeps a memory and statistics from one run to the next. This
directory holds TLA+ models of its core, the TLC runs that check them on small
instances, and proofs, checked by TLAPS, of what the agent loop, compaction, the
requests and streams of the providers, the memory, the MCP client, the index of
workspaces, the start of the program with its wizard, and the pipeline keep for
every instance: all that the runs check but the two claims of liveness. The
reference is the Go code under `internal/`.

## Checking it

    tlc -workers 2 -config agent.cfg AgentLoopMC.tla     # any run of the table below
    tlapm AgentLoopProofs.tla                            # any module with theorems

`PROJECT.json` lists the runs, the property each mutant of a definition breaks,
the source lines behind every definition, the hazards and the theorems. A
definition called `MutantX` is the definition `X` with a plausible bug; it is
used by nothing but the run that shows that a property would find that bug.

## The system

| Component | State it keeps | Operations | Works with |
|---|---|---|---|
| enhanced agent loop, `agent/agent_v2.go` | the conversation `sess.Messages`, the result, the step | `Execute`, tool routing, `SaveSessionOutcome` | all of the following |
| context manager, `ctxmgr/manager.go` | the token limit | `ShouldCompact`, `Compact`, `AutoCompact`, `EnrichWithMemory` | called by the loop, reads the memory |
| middleware, `middleware/middleware.go` | four chains of hooks | run a chain; token guard | called by the loop around model and tools |
| providers, `provider/*.go` | API key, models; the registry | `Chat`, requests and replies of two APIs, `GetByModel` | called by the loop and the app |
| tools, `tool/*.go` | a map of tools, a permission function | `Get`, `Execute`, the tools | called by the loop |
| MCP client, `tool/mcp/client.go` | a process or address, a message counter, the tools found | `Start`, `Call`, `Close` | a server, over two pipes |
| memory, `memory/memory.go` | entries in memory, files per session in two directories, the current session | `SetSession`, `Add`, `Search`, `LoadAllSessions`, a goroutine per entry | written by loop and app, read by the context manager |
| statistics, `enhance/enhance.go` | sessions, a profile per agent, insights | `RecordSession`, `RecordToolUsage`, `RecordErrorPattern`, tips | written by the loop, read into the system prompt |
| skills, `skills/skills.go` | skills found, skills loaded | discover, load, unload | the skill tool, the system prompt |
| sessions, `session/session.go` | a tree of sessions | `Create`, `Get` | loop and app |
| workspaces, `workspace/workspace.go` | an index file in the home directory, a directory per project | `LoadInfo`, `EnsureWorkspace`, `Prune` | the app; other edcode processes through the file |
| configuration, `config/config.go` | two files, the environment | `Load`, `LoadWorkspaceConfig`, `MergeWorkspace` | the app |
| app, `app/app.go` | all of it | `Init`, `RunPipeline`, `SwitchModel` | everything |
| wizard, `configure/configure.go` | a selection, a configuration being edited | the dialogue | the terminal, the configuration file |
| base agent loop, `agent/agent.go`; banner | | an older `Execute` that nothing calls; a logo | |

Within a process nearly everything runs in one goroutine: the app calls
`Execute`, which calls the model and the tools and waits for each of them
without a time limit. The exceptions make the interleavings: every entry of the
memory is written by a goroutine of its own, an MCP server is a process of its
own behind two pipes, and several edcode processes share the files in the home
directory. What is hard elsewhere is order and agreement over many steps: a
conversation that is cut while calls and answers must stay together, two APIs
that say the same thing in different forms, books kept in three places, and
settings that come from four. `PROJECT.json` lists these hazards at their lines.

What makes each part correct, in short:

- *Loop*: every call answered once and in order; an end for a reason; memory,
  statistics and result agree at every exit.
- *Context*: a cut loses old turns only, keeps the task, and comes to rest.
- *Providers*: the server sees what has happened, in order and once; an agent
  runs on the provider its model names.
- *MCP client*: an answer belongs to its call; `Start` and `Call` return.
- *Memory*: nothing is made up, what could be read once can be read again, what
  was written is remembered.
- *Workspaces*: one entry per directory, no lasting damage, nothing lost.
- *Configuration*: who is more specific wins, who says nothing changes nothing;
  a key that is set is found (not always, see below).
- *Pipeline and statistics*: one session, record and summary per step, no step
  changes another's agent, the numbers are those of what happened.
- *Tools*: a call of a tool that was offered reaches the one tool or server it
  names (it does not, see below).
- *Prompts*: a step is told of earlier ones what the rules say: the insights not
  yet pushed out, the skills that are loaded, the tips the records give.
- *Wizard*: a key does what its user thinks, or is lost; the file keeps what was
  not asked about and the next start uses what was answered.

## The modules

    Sums                         ToolProtocol
     |                                |
    Compaction <---- AgentLoop -- implements
     |   |             |   |
     | CompactionMC    | AgentLoopMC    MemoryStore -- implements -- BestEffortMemory
     |         |       |                     `-- MemoryStoreProofs
     |         |       |                WorkspaceIndex -- implements -- DirectoryRegistry
     |         |       |                     `-- WorkspaceIndexProofs
     `-- AgentLoopProofs                McpClient <- McpClientMC, McpClientProofs
                                        ProviderWire <- ChatStream <- WireProofs

    Routing, Maps <- Configuration <- AppSetup <- AppSetupMC <---- WizardMC
       |      |                          |                            |
       |      |    Checklist <- MultiSelect <---- Wizard <------------'
       |      |                                     `-- SetupProofs
       |      |-- Enhancement, Skills <-.
       `------+-- Toolbox, Recall <----- Pipeline <- PipelineMC, PipelineProofs

Four small modules stand below these. `Sums` has the total of a function on
1..n, `Selections` the part of a list that is in a set (`Within`) and the lists
of a list put together (`Joined`), `Maps` what an assignment makes of a Go map;
`RecursionTheorems` has what the proofs need of such recursive functions, and
every module of proofs but the two on `McpClient` and `MemoryStore` uses it.

### Compaction and AgentLoop

`Compaction` has `ctxmgr/manager.go` and the token guard as operators on lists
of messages. A message is its role, the length of its text, the calls it makes,
the call it answers, and where in its text the beginning of the user's task
stands: that is all that estimates, cuts, summaries and the loop tell apart.
The length of a rendered call or answer is a constant. `CompactionMC` lets
conversations grow; the task may stand behind the words `RunPipeline` puts in front
of it ("Continue with the implement step: ", 34 characters).

`AgentLoop` is one `Execute`. `pc` says where it is: at the top of the loop,
waiting for the model (`chat`), at the calls of a reply (`tools`), behind the
loop (`final`), or at one of its ends: `done`, `refused` by a pre-model hook,
`failed`, `panicked` on a reply without content. One action is one stretch
between two waits or exits. Model, tools and hooks answer anything the code
accepts, or fail, or never answer; whether two minutes have passed since the
last compaction is a free choice at the top of each step. `ToolProtocol` is what
the loop promises to the model and the tools, without compaction, hooks or
books, and `ImplementsProtocol` the refinement.

### ProviderWire

One conversation on its way to the server and back, for both APIs: what a
server says (`Said`), what the code takes from it, compaction to the last five
or three messages, and the request made of the rest. Texts and calls are named
by where they were first said, so that `ShowsWhatHappened` can say that the
request shows what has happened since the cut, in order, nothing else and
nothing twice. What may be missing is named there (`MayMiss`, `AsShown`): these
are losses of the code, listed below. The token guard is not repeated here.

### ChatStream

The first reply of such a conversation, streamed. The server's lines (events,
data, the end mark) are made from the reply in the forms the two APIs have, with
a comment, a garbled line or an error anywhere. After any line the connection may
end, or a line come that is over the 64 KB a `bufio.Scanner` takes, which ends the
reading as well, with an error.
`RecvOpenAI` and `RecvAnthropic` are one turn of the loop in `Recv` each. The app
itself only calls `Chat`; `ChatStream` is half of what a provider promises
(`Provider` in `provider/interface.go`).

### McpClient

Client and server with the two pipes between them. A server reads requests and
writes replies with headers or in lines (four kinds), may answer with errors,
write lines over the 64 KB of the client's scanner, say things unasked and die at
any moment. The client's actions are `Start` for both transports (a local server
may also not start at all), `Call`, and the steps of `recv`: skip a line that is
no JSON, take the next one, or leave with an error, at the end of the file
(`EndOfFile`), at a line that is too long (`TooLong`), and at once ever after that
(`Stopped`). Pipes hold any amount, and the server's standard error, which nobody
reads (`client.go:88-92`), is left out: a server that fills it stops for good.
`Close` comes at the end of the process and changes nothing that is still looked
at.

### MemoryStore

The entries, the current session, the goroutines that still have an entry to
write, and the files as sequences of the two parts gob writes, type descriptors
and a value. Each goroutine opens its file, writes one part, then the other, and
can give up at each; the process can end at any moment and another start and
load. `BestEffortMemory` is a memory that may forget, and nothing else.

### WorkspaceIndex

Several edcode processes over one index file: reading, truncating, writing the
text (a shorter one over one that another process has just written leaves the end
of that behind), creating the workspace, pruning, an end in between.
`DirectoryRegistry` is what one would like it to be; it is implemented as long as
processes do not overlap and are not killed (`calm`). Disk writes that fail are
left out.

### Routing, Configuration, AppSetup

`Routing` is `GetByModel`: references are sequences of what stands between
slashes. `Configuration` is what a file says, the defaults, the environment and
the merge, as operators. `AppSetup` is `App.Init`: find and read the main file, make the
providers, merge the workspace's file, start MCP servers, make the agents in the
order of a map; then models are switched. A setting is represented by who made
it: the default, the main file, the workspace's file, or nobody. Three settings
of an agent stand for all of them: those the defaults fill in (model, also step
limit, temperature, tools, description), those they leave empty (prompt), those
that are not merged (permission, also top_p and others). Decoding YAML into a
value that already has contents is modelled as yaml.v3 does it: an entry of a
map replaces the one that is there, an empty section empties the map.

### Checklist, MultiSelect, Wizard

`Checklist` is a list with ticks as its user thinks of it, one operator per key.
`MultiSelect` is the code: the bytes of the keys arrive one by one, a read takes
up to three of them and acts on what stands first. `Wizard` puts it at the
beginning of a dialogue about the file of the current directory: the providers
one by one, then the models of all agents, then the file is emptied and written.
It extends `AppSetup`, so the same behaviours go on to start the program on what
the dialogue has left. A provider or an agent with all its questions is one
step; an interrupt comes between two (`Stop`), and before the file is written
nothing else looks at what is being edited. A program that is killed while it
writes, or that runs out of disk, leaves the empty file, a beginning of the text
that is no YAML, or one that ends with a whole section (`Tear`, `Upto`; a text cut in the
middle of a section but still YAML is left out). An agent whose model is written but empty
is asked about as one that has none (`PickModel`): no file here has one.

### Enhancement, Toolbox, Skills, Recall, Pipeline

`Enhancement` has the statistics as operators, the running means as fractions
by the code's recurrence (float64 rounds, but for up to 14 sessions never across
the 0.5 of a tip), and the tips. `Toolbox` says whether a call reaches
anybody: a built-in tool, a client that has the name, or nobody. `Skills` reads `SKILL.md`
files given as lines, and says which are loaded after a call of the tool
`skill`. `Recall` is what `WorkingContext` finds in a memory whose entries are
their types.

`Pipeline` is `RunPipeline` with all of them: a session for the pipeline, then
for each step a copy of its agent, a session below, a prompt made of what is
known now, turns with calls that change statistics, memory and skills, a record
and a summary. Of `Execute` it keeps one action per reply; `AgentLoop` is its
model, and `BooksAgree` and `StopsForAReason` there are what `Pipeline` takes for
granted. Three numbers of the code are constants: 20 entries, 15 steps, 3
sessions. The words of prompts and the files behind the statistics are left out.

## The runs

| Run | What it checks | Bounds, and why they are enough |
|---|---|---|
| `compaction` | after up to four compactions in a row the summary still has words of the task; two compactions leave nothing a third would do | up to 11 messages of three lengths (far below, at and over the limit), with and without words in front of the task, and five rounds: longer than both tails, and one round more than the claim |
| `agent` | the loop's invariants, the refinement, and that it never stalls of its own | budgets of 3 (fallback) and 4 steps, 2 calls a reply, texts that reach the limit in one or in several messages: every exit, and the aggressive cut, also of a summary. The light cut needs longer conversations; `compaction` has both |
| `wire` | requests show what has happened; answers in the order of the calls; a stream's chunks are the reply from its beginning, the whole of it if it was sent undisturbed and Recv did not fail at a long line | 3 replies of up to 2 pieces: the longest tail (5) cuts at every point of a turn; one disturbance and one cut or long line anywhere in the stream of the first reply |
| `mcp` | answers come in order and lag only by what was said unasked; nothing is left over; calls return | 4 calls, 2 unasked messages, every framing, both transports, any message too long, death anywhere |
| `mcp_framing` | *violated*: `Start` connects to any server | the two framings servers have in practice |
| `memory` | files in the right directory and never under an earlier session; implements `BestEffortMemory` | 3 entries in up to 3 sessions: two goroutines on one file and a third that is late |
| `memory_forgets` | *violated*: what is written in full is remembered | the same, 2 entries suffice |
| `workspace` | no duplicates; one undisturbed run repairs the file; implements `DirectoryRegistry` while calm | 3 processes in 2 directories: two overlap while a third comes later |
| `setup` | agents run on the provider their model names; none is left out; the model and prompt in the workspace's file win; the checklist hears keys in order and whole keys as meant; the wizard keeps what it was not asked about, and the next start uses its answers | about 1000 pairs of files with three environments, one agent that is switched; one dialogue, on files of every kind that users or an earlier dialogue leave (missing, blank, broken, with entries); scripts of keys whose bytes come together in every way |
| `setup_overrides` | *violated*: what the workspace's file does not mention stays | the same |
| `pipeline` | sessions, records and summaries match; a step's model is its own; the last eleven failures are kept; prompts have the insights, skills and tips they should | 2 pipelines of up to 3 steps by 2 agents; turns with six failures, so that eleven overflow; 13 entries at the start, so that the insights among the 20 newest are pushed out at different steps; 1 step and 2 sessions as thresholds of the tips, which the pipelines pass; two files of skills with one name, two servers |
| `wire_calls` | *violated*: a request to OpenAI has the calls of earlier replies where they belong | 2 replies |

Deadlock is checked in `memory` and `workspace`, which go on for ever within
their bounds. The others end: an `Execute`, a client whose server is gone, the
last pipeline.

**Fairness.** Only what the code does without waiting for anybody is fair.
`AgentLoop`: the steps at the top of the loop, between steps and at the end;
nothing makes a model or a tool answer, so `OverOrWaiting` says that the loop
ends or waits for one of them. `McpClient`: starting, and reading what is in a
pipe, on both sides; not the server's unasked messages, its death, or the user's
calls. A server that answers is part of the claim `AlwaysReturns`, which is
about the framing; one that never answers makes `Call` wait for ever, since the
context is not used. So hazards of servers that do not answer are not what
`AlwaysReturns` would catch.

## What the violated runs show

- `wire_calls` (`provider/openai.go:229`): an assistant message with calls is
  sent with the calls inside its content, as parts of a type "function", and
  without `tool_calls`, the field the same struct reads them from. The tool
  message that follows answers a call the server does not see.
- `memory_forgets` (`memory/memory.go:226`): each entry is written by an encoder
  of its own, which repeats the type descriptors; the one decoder of
  `loadFromFile` stops at the second. A session's file gives back one entry.
- `mcp_framing` (`tool/mcp/client.go:228`): requests go out with a
  `Content-Length` header, replies are read by lines. Only a server that does the
  same the other way round is understood.
- `setup_overrides` (`config/config.go:242`): the workspace's file is decoded
  into the defaults, so whatever it leaves out counts as set to the default, and
  wins over the main file in the merge.

The models and the reading behind them show other things. Three of them
disagree with what the repository says of itself, and no property here
covers them: that the runs pass does not mean that the program does what is said.

- **Keys.** The repository's README asks for keys "set as environment variables"
  (`README.md:85`), and the wizard tells its user to set `OPENAI_API_KEY`
  (`configure.go:112`). That variable counts only where the main file has an entry
  for the provider with an `env` section that names it. Without a main file the
  environment is not looked at (`app.go:75`), and an entry without `env`, as the
  README's own example and the wizard's are, leaves only the variable with the
  provider's name as it is written, `openai_API_KEY` (`config.go:211`; `Fallback`,
  `WithKey`).
- **Tools.** MCP tools are "namespaced" (`README.md:496`), but every client has
  the name "mcp" (`app.go:129`): of two servers with a tool of one name both offer
  it under the same name, and only the first is ever called. `Toolbox` has no more
  than whether somebody is.
- **The workspace's settings.** They "take priority over global values"
  (`config.go:258`) and "merge with the global config" (`README.md:696`), but
  `MergeWorkspace` looks at six settings of an agent only: its permissions,
  `top_p`, prompt file and colour in a workspace's file count for nothing, and an
  agent the main configuration does not have is dropped. `WorkspaceWins` claims
  the model and the prompt, no more.

Most of the others are named where a passing property makes room for them:

- Anthropic requests drop the summary: a single system message is taken out of
  the list and goes nowhere (`anthropic.go:205-223`; `MayMiss`). Anthropic is not
  told the text of a tool's error, OpenAI not the output of a tool that failed
  (`AsShown`).
- After one unasked message all later answers of an MCP server are shifted by one
  (`AnswersLag`), since ids are not compared. After one line over 64 KB no call
  gets an answer any more, while the server lives and carries them out
  (`NothingLeftOver`).
- A line of a stream over 64 KB, such as one delta with a call's long arguments,
  fails an intact stream (`WholeReplyArrives`).
- An entry of the memory may be filed under a later session than its own
  (`FiledNotEarlier` bounds it from below). A compaction may leave answers without
  their call in front of the first reply (`RequestThreaded`).
- Two processes that overlap lose registrations, and one that prunes writes back the
  index it has read at its start (`ImplementsRegistry` asks for `calm`, so it says
  nothing of either; `HealedByOneRun` and `NoDuplicates` hold there too).
- A session that ends with an error has no record (`BooksAgree`,
  `OneRecordPerStep`): the success rate is that of sessions that came to an end.
- `Compact` at level None still compacts what is over the limit, and
  a compaction can make the estimate larger, since calls and answers count for
  nothing until a summary spells them out.
- A main file with an empty `mcp:` section and a workspace file with servers makes
  `MergeWorkspace` write into a nil map (`Panics`).
- The wizard's agents replace the default ones as a whole and lose their
  permissions (`NextStartUsesIt`). A custom provider named without an address is
  deleted from the file (`KeepsTheRest`). A blank file makes it panic
  (`Selected`), and a full disk can leave one behind (`Tear`). Where the terminal
  has no raw mode, numbers are asked for, and the answer is dropped
  (`MakeRawFails`).
- Half a stream counts as a whole reply when the connection ends without an error;
  OpenAI's errors inside a stream are empty chunks; of several calls in one
  line the last one is kept (`LastCall`); a comment behind one of Anthropic's events
  swallows the event (`ChunksInOrder`); and `Recv` can return neither a chunk nor
  an error (`RecvAnthropic`).
- A `SKILL.md` keeps no allowed tools and no files: a branch that comes before
  takes their bullets, and whatever follows the first empty line, the description
  too if it stands there, is content (`Skill`).
- Nothing the program adds to the memory is a lesson, rule or preference, so
  `GetInstructions` finds nothing; summaries of sessions are saved, loaded, pushed
  through the 20 newest entries, and never shown (`Recall`). `sessions.gob` is
  written and never read, `insights.gob` read and never written.
- A session's id is the time in nanoseconds (`session.go:33`): where the clock is
  coarser than that two sessions can be one. The models give each its own.
- The result of a step is not passed to the next (`app.go:255-258`), and the
  permission function of `app.go:154` is not asked on the agent's path: the loop
  takes a tool with `Get` and executes it itself.

## What is proved

Every theorem is for all values of the constants, and states a property that a
run checks on a small instance.

| Module | Theorem | Property |
|---|---|---|
| `AgentLoopProofs` | `TaskOutlivesFourCompactions` | `TaskSurvivesFourCompactions` |
| | `ThirdRoundFindsNothing` | `TwoRoundsSettle` |
| | `TypeCorrect` | `TypeOK` |
| | `CallsAlwaysAnswered` | `CallsAnswered` |
| | `ConversationAlwaysRecent` | `ConversationIsRecent` |
| | `RequestsAlwaysThreaded` | `RequestThreaded` |
| | `AlwaysStopsForAReason` | `StopsForAReason` |
| | `BooksAlwaysAgree` | `BooksAgree` |
| | `LoopImplementsProtocol` | `ImplementsProtocol` |
| `WireProofs` | `RequestsAreFaithful` | `ShowsWhatHappened` |
| | `AnswersAreInOrder` | `AnswersInOrder` |
| | `ChunksAreInOrder` | `ChunksInOrder` |
| | `RepliesArriveWhole` | `WholeReplyArrives` |
| `MemoryStoreProofs` | `StoreTyped` | `TypeOK` |
| | `FiledNeverEarlier` | `FiledNotEarlier` |
| | `StoreImplementsMemory` | `ImplementsMemory` |
| `McpClientProofs` | `ClientTyped` | `TypeOK` |
| | `AnswersAlwaysLag` | `AnswersLag` |
| | `NothingEverLeftOver` | `NothingLeftOver` |
| `PipelineProofs` | `ModelsAlwaysStay` | `ModelsStayWithSteps` |
| | `FailuresAlwaysKept` | `LastFailuresKept` |
| | `RecordsAlwaysKept` | `OneRecordPerStep` |
| | `InsightsAlwaysForgotten` | `InsightsForgottenByRank` |
| | `TipsAlwaysFollow` | `TipsFollowRecords` |
| | `SkillsAlwaysShown` | `ActiveSkillsShown` |
| `WorkspaceIndexProofs` | `IndexTyped` | `TypeOK` |
| | `NeverListedTwice` | `NoDuplicates` |
| | `OneRunHeals` | `HealedByOneRun` |
| | `IndexImplementsRegistry` | `ImplementsRegistry` |
| `SetupProofs` | `AgentsRunAsNamed` | `RoutedAsNamed` |
| | `EveryAgentMade` | `NobodyLeftOut` |
| | `WorkspaceHolds` | `WorkspaceWins` |
| | `WizardKeepsTheRest` | `KeepsTheRest` |
| | `AnswersAreUsed` | `NextStartUsesIt` |
| | `KeysAlwaysInOrder` | `KeysActInOrder` |
| | `WholeKeysAlwaysCount` | `WholeKeysCount` |

Assumed is what the constants' `ASSUME`s say: limits, lengths and bounds are
natural numbers, the rendering of a call is not empty, nor is the user's prompt
(`TalkAssumption`), and a step's name has at most 18 characters
(`LeadAssumption`); providers are the two there are (`WireAssumption`); files and
configurations have the fields of `Config` (`SetupAssumption`,
`WizardAssumption`); a reply is a list of calls, and no skill's name is empty,
since a title has a text and a directory a name (`PipelineAssumption`).
`NothingEverLeftOver` assumes besides that the server does not answer the
notification `initialized`, which is what the protocol demands of it.

Many of the models' operators take lists apart or put them together, and the
library's induction theorems cannot be instantiated by the provers. Their
substitute is in `RecursionTheorems`: `LeastElement` gives the least index at
which something fails (`UpTo`), and `ListInduction` is the same for lists: a set
of lists that has the empty one and is closed under `Append` has them all. What
`Within`, `Joined` and a function applied to each element (`Each`) do to
`Append` and `\o` follows once and for all.

### Compaction

`AutoCompactIs` says which of three things a round does: nothing, the light cut
or the aggressive one. `LengthAfter` counts what a cut leaves: six messages or
four. Six are taken up by the aggressive cut only, and four by none. So
`ThirdRoundIdle` needs no estimate at all: whatever lengths and limits are, the
cuts run out of messages.

For the task, `TaskPlaced` says that in the first message it begins at most 52
characters further on for each round, a header and a tag, and that something of it
is left up to the fourth. A round quotes 200 characters of that message, and 199,
which is where it begins at the latest before the fourth, 43 for what the pipeline
puts in front and 156, is less (`TaskMoves`); before the fifth it can begin at 208
with nothing in front.

### The agent loop

*Types.* `TypeOK` is inductive once summaries are known to be messages again,
whatever is in the messages summarized. Their length is a sum over the parts, a
recursive function; that it is a natural number is `TotalIsNat`.

*Threads.* `RequestThreaded` is not inductive: the request is made by cutting the
conversation twice, and the conversation by cutting it before. `ThreadInv` says
what the cuts start from: the full history (replies and answers) has every call
answered right behind it up to where the inner loop is; the conversation is the
end of that history behind at most one prompt or summary; a request is such an end
again. That an end of a threaded list is threaded, with answers that have lost
their call only in front of the first reply, is `SuffixThreaded`; `RefreshRecent`
and `RequestFits` show that compaction and guard only take ends, which is all the
loop needs to know of them (`AutoCompactShape`, `GuardShape`). A call that a hook
refuses stays without an answer; the app installs no such hook, so the claims
about threads hold until one has (`NoneRefused`), and `RefusalsStay` shows that
the premise never comes back.

*Ends and books.* `StepsCounted` relates the loop counter, the number of replies
and the calls they made, from which `StopsForAReason` follows at the exits.
`BooksInv` adds to `BooksAgree` that the result's steps equal the replies the
memory has counted everywhere inside the loop: the two are raised in the same
action, `ReceiveReply`, and only the two that leave the loop at once, a post-model
hook's error and the panic, raise one alone.

*Protocol.* The refinement maps the calls the inner loop has not reached to the
open ones, and the answers in the history to those carried out. The protocol
wants the calls of a reply to be fresh: `CallsDated` says that each carries the
number of its step, and that all answers before it are of earlier ones. With it
and `StepsCounted` every action of the loop is one of the protocol's, or, as
`Conclude`, none (`NextProtocol`).

### Requests

`ShowsWhatHappened` compares the request with what happened, both read as one list.
It holds because it does so piece by piece, and that is the invariant: `Talk`
relates the messages of the session one to one with what happened (`told`), and
`Pair` says how: a summary with itself, an answer with itself, a prompt or reply
with the same readable content. A turn adds a pair (`TalkMore`), compaction
replaces the front of both lists (`TalkCut`). A request is made message by
message, so it is enough that each shows what `ToShow` leaves of its partner
(`OpenAIShows`, `AnthropicShows`); for Anthropic, whose system messages are
taken out of the list, `Talk` adds that only the first can be one. The sum of
it, `RequestShows`, is a fact about any such two lists and not about a state.

`AnswersInOrder` is a matter of names. `Uttered` and `InRow` say that a reply's
calls ascend; `Unanswered`, that the open calls do and come behind every answer
so far; `Answers`, that the answers told are in order. Since a request shows what
was told, in its order, its answers are in order too (`ShownInTurn`).

### Streams

What a line brings (`Brings`) is known before it is read: its content, of OpenAI's
lines with their last call only. So the invariant of an open stream is an
equation. What has arrived, what the lines that are left bring, and what the
server did not come to send (`rest`) make up the reply (`Exact`); or they do so
but for one item, if a stranger has come between an event of Anthropic's and its
data, and then no stranger is left (`Lossy`). `Coming` is this for the state; it
gives `ChunksInOrder` at once, and `WholeReplyArrives` at the end of the lines,
where nothing is left but `rest`, which is empty unless the stream was cut or
failed, or a line in it did not fit the scanner. A stream that stops short of such
a line can have got as far as the end of the reply before it; otherwise its last
`Recv` says that it could not read (`Closing`, `ClosingTail`).

Three things have to be shown of it. *Each `Recv` keeps it*: OpenAI's looks at one
line (`OpenAIAdvance`), Anthropic's at an event and the line behind it
(`AnthropicPair`, and `AnthropicDrop` where that is a stranger), for which `Sound`
says what can be in a stream at all and `Aligned` that events and data
come in pairs. *It holds when the stream opens*, whatever disturbs it: a line more
(`VisitedArrives`), a failure in place of the rest (`FailedArrives`), an end after any
line (`Opening`). *What the server sends brings the reply*: `AnthropicSends` for the
blocks, `OpenAISends` for texts, calls and arguments in lines of their own or
together, where of several calls in one line the last arrives
(`LastCallArrives`), as `Promised` has it.

Writing these proofs found an ambiguity in the model: the choice of the form of a
block was a CASE with overlapping guards, of which TLA+ does not say which one
counts. It is an IF now (`Block`).

### The memory

`MemoryInv` adds three parts to the type: a goroutine that has an entry to write
is at home in the running process (`WritersHome`), what is in a file has been
told to the store (`OnDiskTold`), and `FiledNotEarlier`, which is inductive with
them since sessions only count up while goroutines wait. For the refinement
`DecodedAppend` shows that one more part at the end of a file leaves what the
reader gets out of it as it was, or adds one entry: the place of the error where
the reader stops does not move. So writing is telling nothing or remembering,
wherever it is cut off.

### The MCP client

Nothing in the code relates an answer to its call but the order of two pipes.
`LinesInv` says what that order comes to. Ids in the pipes only grow
(`InOrder`); and in each phase the place of the next line, requests and replies
still under way counted in, is at most as far behind the client's counter as
there were unasked messages. `AnswersLag` follows when the line is taken. The
replies that are errors, the death of the server and `Call`s that come back with
nothing are the cases: each leaves the pipe as the next call expects it. A line that
is too long leaves the pipe as it is, but then nothing is taken from it any more
(`scanning`).
A server that writes headers never gets as far as a call (`HeadersInv`).

### The index of workspaces

`NoDuplicates` and `HealedByOneRun` need to know what a process has in memory
while the file changes under it. `Inv` adds that only a file that parses lists
anything (`NothingElseListed`), and `AloneInOrder`: a process that has had the
machine to itself since its start has its directory in what it has read or
written, and once it has written, the file is that and nothing else. That
registering looks before it appends and pruning only takes away
(`WithinOnceEach`) keeps every list free of duplicates, in a file that others
overwrite too. For the refinement `CalmInOrder` says what the one running
process of calm times knows: before it registers, that its list is the file's and
its directory; before it prunes, that what it leaves out no longer exists. The
registry changes when the file is truncated, since from there on the next reader
will see what the process has in memory (`Listed`); writing it is a stutter
(`StepRegistry`).

### The start of the program and the wizard

Nothing is assumed of files but that they have the fields of `Config`. The wizard writes
files of its own, so the invariant has to say that these are such files as well:
`FileOK` is `IsFile` spelled out field by field, `DiskOK` says it of all files in
every state, and `LoadOK`, `DecodeIs` and `MergeIs` that decoding, filling up and
merging such files gives configurations of that form. `AppInv` then ties each
stage of `Init` to the files alone: the configuration is the main file's or the
merged one, the registry and the keys are the main file's (`Registered`), and
the agents made are those of the walk so far, each on a route of its own model
(`AgentsMade`). `RoutedAsNamed` follows since a switch changes model and route
together, `NobodyLeftOut` and `WorkspaceWins` from the merge.

`DialogueInv` has what is known of the file being edited: `Edited` says that it
differs from the one there was only in what was asked (`Kept`), that every typed
key is in it (`KeysTyped`), and that every agent either keeps its permission or is
new, with the model that was picked for it (`ModelsPicked`). `Edited` is inductive
only because the items of the list are taken up in ascending order: the custom
provider is the last one, so nothing is given up (`removed`) while keys are still
typed, which could be for the name that was given up. That a selection is
ascending comes from `MultiSelect` (`WithinAscending`). Behind the dialogue, `File
= cfg` joins the two invariants: what `Init` loads is what was edited, and
`NextStartUsesIt` is `AppInv` at that file. A text that was torn is made of
sections of `cfg` (`PartOfTheText`), so it is a file like any other to the next
start.

The checklist is proved for any keys typed, on a terminal that passes their bytes
in any portions. `Placed` gives for every key of the script where its bytes begin
and end; that it holds of `BytesOf` is an induction along the recursive function
(`OneMorePlaced`). `TerminalInv` says of every state that the bytes already taken,
those that can be read and those still to come are, one after the other, the bytes
of the script (`Under`), and matches the reads acted on with keys that begin before
what is still to be read (`Matched`). A read is only acted on when it begins
with a byte no key has anywhere but in front, so it begins where a key does
(`AKeyIsHeard`); that key stands behind all places matched so far, and a new last
element moves no one's rank (`RanksOfMore`). `ListInv` compares the list with the
one its user thinks of while every read has been a whole key: `WholeKeyPressed` for
a read, and for the terminal's end that a list that is over is not pressed again.

### The pipeline

`AgentsAsSwitched` says all there is in an agent: its name, the route it was last
switched to, no session. That a step works on a copy keeps it so, and with it
every run, as it begins, is on its step's model or its agent's (`RunsBegin`);
later a run only gains results (`GoesOn`).

The other five relate what the program keeps to the history of all runs.
`HistoryInv` is their common base: every run but the last is over, and the last,
while `Execute` is under way, is that of the copy with the results so far. So a
step of the program adds a run (`OneMore`) or lets the last one go on
(`LastGoesOn`), and each of the invariants below is kept by looking at these two.

- *Failures*: `FailuresInv` gives each agent's list from the number of its
  failures. One reply can have many calls, and the statistics are told of them
  one by one; `AllTold` goes through them with the number of failures up to each.
- *Records*: `SessionsInv` says where in the tree the sessions of pipelines and
  runs stand and that the memory is in the current one; `RecordsInv` that records
  and summaries are lists made of the ended runs, in their order.
- *Insights*: `EntriesInv` says that the memory has grown by exactly what has
  happened, and gives each prompt's insights from how long the memory was then.
  Its entries never change, so a later prompt's window starts no earlier.
- *Tips*: `MeansInv` says that the two running means are fractions equal to sum
  over count of the agent's own ended runs; the recurrence keeps that since the
  count it divides by is that of the agent's own records (`MeanMore`). Then the
  comparisons behind the tips are comparisons of sums (`MeanAbove`,
  `MeanBelowHalf`), and `TipsInv` says so of each prompt.
- *Skills*: `FoundKnows` says of `Discover` that a name has the text of the last
  file of that name; `SkillsInv` that the loaded skills are those whose last call
  loads them, in all calls said so far, and that each prompt has the texts for the
  calls before it. A call without a name is an error, so a skill with an empty name
  could never be loaded: here the assumption on names comes in (`NamesNotEmpty`).

### Model-checked only

Liveness under fairness: that `Execute` ends or waits for somebody else
(`OverOrWaiting`), and that calls of an MCP server that is understood return
(`AlwaysReturns`). Both need ENABLED, which is out of the prover's reach. The four
violated properties need no more than their counterexamples.

## Not modelled

- The built-in tools but for `skill`, the HTTP transport, `Prune`'s and `Init`'s
  output, what lists and searches print: I/O.
- `LoadSession`, working memory by key, `Recall` with a query, `ContextWindow`,
  `AddLesson`, the engine's `AddInsight`, and `Manager.Execute` of the tools with
  its permissions: nothing in the repository calls them.
- The base agent loop: nothing calls it, and it is `AgentLoop` without memory,
  statistics and compaction.
- Base URLs and descriptions, which nothing but a request or a listing uses.
- The banner, and the command line (`cmd/`), which the repository does not
  contain.

## The plan

Done, in this order: Compaction and AgentLoop with the protocol and the proofs,
since everything passes through them; MemoryStore, McpClient and WorkspaceIndex,
where things run side by side; ProviderWire and ChatStream; AppSetup and the
wizard over it; Pipeline with tools, skills, memory and tips.

Proved, in this order: all invariants and refinements of AgentLoop, MemoryStore and
WorkspaceIndex; all invariants of McpClient, Pipeline, AppSetup, MultiSelect and
Wizard; those of Compaction, ProviderWire and ChatStream, for which the lists of
the last two were rewritten with recursive functions. With that every invariant and
every refinement the runs check is proved. What could come next is in the code
rather than in the models: if one of the four violated properties is repaired
there, its run turns into one that has to pass.
