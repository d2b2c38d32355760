# A TLA+ verification project for crewai-go

crewai-go runs *crews*: lists of tasks executed by LLM-backed agents, one after
the other, through a manager, in stages or concurrently, with memory that
outlives a task and guardrails that can stop a run. This directory models the
parts of it whose correctness depends on the order of steps, checks them with
TLC on small instances and proves the central properties with TLAPS.

Names in the modules are the source's names where TLA+ allows it. `PROJECT.json`
maps every definition to the lines it models, lists the runs, the mutants, the
hazards of the code and the theorems.

## 1. The system

| Component | Source | State | Operations | Interacts with |
|---|---|---|---|---|
| Wave planner | `schedule.go` | index, in-degrees, dependents, waves | `planWaves` | called by Kickoff before any task runs |
| Crew | `crew.go`, `process.go` | running flag, failed tasks, AutoSave buffer, usage, results slots of a group | `Kickoff`, `runSequentialSerial`, `runHierarchical`, `runAsyncWaves`, `runWaveGroup`, `runStaged`, `runStage`, `runTaskGroup`, `execute` | planner, tasks, memory, trace, guardrails, executor |
| Task | `task.go` | output, warnings, output file | `setOutput`, `AddWarning`, `contextText` | written by the goroutine of the task, read by dependents and the fold |
| Memory policy | `memory_policy.go` | buffering flag, buffered entries | begin, stash, commit, discard, inject | crew, memory store |
| Memory tools | `memory_tools.go` | the crew a tool was made for | remember, recall, attachment | memory store, during a model call; the context of the execution |
| Guardrails | `guardrail.go` | none | task and crew guardrails | end of `execute`, end of Kickoff |
| Trace recorder | `trace.go` | pending and published records | `Reset`, `capture`, `publish`, `Save` | goroutines capture, the fold publishes |
| In-memory store | `memory.go`, `memory_store.go`, `memory_embed.go` | entries in order, ids given on demand | `Save`, `Put`, `Delete`, `Query` | crew, tools, application |
| File store | `filestore.go` | index and JSONL files per scope | `Put`, `Query`, `Delete`, `Open`, `Close` | crew, tools; several goroutines |
| Flow engine | `flow.go` | node states, state map, taken routes | `Run` | runs crews and functions as nodes |
| Executor | `executor.go`, `toolcall.go`, `structured.go`, `loop.go`, `prompts.go` | conversation, counters of three nested loops, collected facts | ReAct loop, native tool calls, gathering, capture with repair, agentic loop | agents, tools, model providers |
| Facts | `fact.go` | facts of a tool's last call | `Call`, `Facts`, deduplication | tools shared by executions |
| Delegation | `delegation.go` | depth, roles of the callers and current role in the context | `Call`, attachment at Kickoff | executions inside executions, agents shared by crews |
| Streaming | `stream.go`, `llm/*/stream.go` | a bounded channel, the text so far | `runStream`, `drainToSink`, `CallOrStream` | the provider's goroutine, the task's goroutine, the application's sink |
| MCP client | `mcp/` | session id | `Initialize`, `ListTools`, `CallTool`, `Close`, `LoadConfig` | goroutines that share a client, remote server |
| xAI token source | `llm/xai/` | token, token file | `Token`, `Refresh`, `Authorize`, save and load | several goroutines, authorization server, disk |
| Schema | `schema.go` | stack and budget of references of one validation | `validateSchema`, `walkSchemaKeywords` | structured output, tool arguments, loader |
| Loader | `load.go`, `load_schema.go` | tables of names | `LoadCrew`, `Build` | schema, planner |
| Redaction, providers, tools, events | the rest | none or configuration | pure translation and I/O | |

### Where it is hard

* **Concurrency.** A group runs one goroutine per task, capped by a semaphore.
  They share `Task.output`, the store, the AutoSave buffer, the trace and the
  group's first error; the caller's deadline may pass at any step.
* **Failure of one of several.** A group fails fast or goes on; what the failed
  task, its siblings and its dependents leave behind depends on where each was.
* **Order.** Goroutines end in any order but outputs, memory and trace are
  promised in declaration order. What the code keeps is the order of the plan, which
  within a wave is the order in which dependencies unlock dependents.
* **Reuse.** The same crew can be kicked off again; some state is reset and some
  is not.
* **Persistence.** The file store acknowledges what it has appended; appends fail
  half-way, files are reloaded.
* **Bounded loops and retries** in the executor, around calls that fail.
* **Remote parties.** Responses are lost or late, sessions and tokens are replaced
  at either end, and several goroutines share what is known of them.
* **Nesting.** An agent's tool call executes another agent, whose tool calls may do
  the same; what bounds this and says who is working travels in the context.
* **Names.** Documents and schemas refer to their parts by names, indices and
  pointers, which may clash, recurse or lead nowhere.

### What makes each component correct

* Planner: rejects exactly cyclic and self-referring lists, puts each
  task in the earliest wave after its dependencies.
* Crew: a task runs on fresh outputs of its dependencies; the error returned is
  the cause and not its consequence; every task is accounted for; only dependents
  of a failure are skipped; Kickoff always returns.
* Memory policy: a prompt never holds a sibling's AutoSave entry; an aborted group
  leaves nothing; what is stored is what is output, in order.
* Trace: published records are exactly those of the folded tasks of this Kickoff.
* File store: what was acknowledged is shown and survives failures, crashes and
  restarts; the index leads to the right entry; scopes do not mix.
* Flow: a step runs exactly if its dependencies succeeded and its routers named it;
  trace and error follow registration order whatever order goroutines end in;
  nothing is left pending; Run returns.
* Executor: the model is never asked again before each of its tool calls is
  answered; an answer comes with the facts of its own tool calls, all of them and
  no others; a structured answer satisfies its schema; three nested limits bound
  the model calls; every execution returns.
* MCP client: a session in use is never replaced, one that was closed never comes
  back; a failed LoadConfig ends the sessions it opened; a catalog is whole.
* Token source: an expired token is renewed once, callers get a fresh one, and no
  sequence of renewals and restarts loses the login unless a response or a save
  was lost.
* Streaming: a result is the whole response, the sink is told the end once and the
  same as the executor, and no goroutine is left behind.
* Delegation: no agent works inside an execution of its own and nesting is bounded;
  what is remembered is attributed to the agent that was working, at every depth.
* In-memory store: an id names one entry for as long as that entry is stored; a
  query shows the best entries its bounds allow.
* Schema: a value is accepted exactly if it satisfies the schema, whatever the order
  in which maps are visited.
* Loader: a crew is built exactly from the documents that mean one, and it is the
  crew they mean.

## 2. Modules

| Module | What it is |
|---|---|
| `PlanWaves` | `planWaves`, loop by loop: indexing, edges with duplicate and unknown entries, Kahn's waves, acceptance |
| `Crew` | `Kickoff` with all three processes, groups, `execute`, buffer, commit and fold |
| `FileStore` | `OpenFileStore`, `Put`, `Delete`, `Close` with index, JSONL files, `meta.json`, failures and crashes; the mapping onto `DurableStore` |
| `EntryLists`, `DurableStore` | the abstract specification: a store whose entries simply are durable, and the operators on lists of entries both specifications use |
| `Flow` | registration, `validate`, `Run` with barriers, goroutines, routers and fold |
| `Executor` | `executeTask`: ReAct and native tool loops, gathering, capture and repair, `AgenticLoop`, tools that keep facts |
| `McpClient` | `LoadConfig` and clients shared by goroutines, against a server that opens, refuses and forgets sessions |
| `TokenSource` | `refreshingSource`, its file, the device login, against a server that rotates refresh tokens |
| `Stream` | `runStream` of three providers, the channel, `drainToSink` |
| `Memory` | the in-memory store: operators on its records and what a query promises |
| `Delegation` | stacks of executions that delegate, remember and recall, over `Memory`; the manager's choice; attachment at `Kickoff` |
| `Schema` | JSON Schema validation and the check of a schema, with the reference definition `Satisfies` |
| `Loader` | `LoadCrew`, `Build` and `NewStructuredOutput`, over `Schema` |
| `MCPlanWaves`, `MCCrew`, `MCFileStore`, `MCFlow`, `MCExecutor`, `MCMcpClient`, `MCDelegation`, `MCLoader` | the instances TLC explores |
| `PlanWavesProofs` | types; dependencies come earlier; the verdict and the plan are exact |
| `CrewProofs` | types, control and error invariants of `Crew`; the first error is the cause; contexts are fresh; memory, output, trace and failures of a Kickoff |
| `FileStoreProofs` | types and index of `FileStore`; acknowledged entries are durable; `FileStore` implements `DurableStore` |
| `FlowProofs` | types of `Flow`; steps run exactly if enabled; cycles are found, waves are layers, every Run is settled |
| `ExecutorProofs` | types of `Executor`; tool calls are answered; facts are exact; structured answers are valid; calls are bounded |
| `ProviderProofs` | the mutex, fresh answers and the login of `TokenSource`; the sink and the result of `Stream` |
| `DelegationProofs` | nesting, chains, attribution, ids and queries of `Delegation` |
| `McpClientProofs` | types, sessions, the clean-up of `LoadConfig` and the listings of `McpClient` |

### PlanWaves

`stage` is the loop the code is in, `i`, `j` its counters, `inDegree`,
`dependents`, `level`, `ready`, `next` the code's variables. A `Context` entry that
is not in the task list is ignored (`IgnoreEntry`); a self entry ends with the
cycle error (`SelfEntry`); a repeated entry is a repeated edge (`AddEdge`), counted
twice in the in-degree and decremented twice. The model takes one step per loop
iteration so that invariants can speak of the middle of a loop.

### Crew

Two kinds of process take steps. The goroutine that called `Kickoff` has the
control state `pc`:

    idle -> step -> (scan ->) group -> commit -> fold -> step ... -> idle

and each task of the open group has `wpc`:

    none -> acquire -> context -> inject -> call -> output -> save -> guard -> done
                          any failure: -> record -> cancel -> done

On the serial paths the caller executes the task itself and `wpc` is the program
counter of that call. `slot` is the results slot of the task in the group, `werr`
the error its function ended with, `firstErr`/`cancelled` the group's error and
context. `output[t]` is the number of the Kickoff that produced `Task.output`
(0 when there is none): it is not reset by `Kickoff`, just as in the code.
`seen[t]` and `injected[t]` record what the prompt of an executing task was built
from, so that invariants can compare it with what it should have been built from.

Each label is an atomic step, and a step holds at most one access to state another
goroutine may change. The exceptions: `contextText` reads the outputs of all
dependencies in one step, although the code locks each task in turn. In async
waves nothing writes those outputs meanwhile. In a stage whose peers are linked by
Context the code can interleave, with the consequence that
`MCCrewSiblings.cfg` shows.

Faults are part of the crew record (`faults`): a model call or tool fails, a
worker panics, a `Put` fails, the caller cancels. A panic is recovered only inside
a group; on the serial paths it leaves the program and is not modelled.
`runMu` makes `Kickoff` single-flight: a concurrent call returns `ErrCrewRunning`
before it touches the crew, a stuttering step.

Left out of `Crew`: texts, the choice of an agent by the manager (a task has an
agent or has none; the choice is in `Delegation`), AutoEmbed, the text budget of an
injection, events, progress, logging and usage totals.

Three of the properties relate several moments of a Kickoff. `GroupMemoryApart`: no
prompt holds an AutoSave entry of a sibling of the open group, an abort commits nothing
of the group that failed, and no group leaves an entry in the buffer.
`RecordsMatchOutput`: entries (`MemoryMatchesOutput`) and published trace records
(`TraceMatchesOutput`) are those of the outputs that were folded, in that order, but for
an entry whose `Put` failed and left a warning. `FailureContained`: only a task that
failed itself, or one with a failed dependency, is marked failed, and in the end every
task is folded or failed.

### FileStore

`entries` and `byID` are the RAM index of a scope (a position, 0 for an absent id),
`corrupt` and `dirty` its other fields; `file` is the sequence of lines of a
directory's `entries.jsonl`, `cut` says that the last line has no newline, `meta`
is `meta.json`. `Put`, `Delete` and `Close` run under `mu` and are one action per
outcome: everything succeeds, the append or its sync fails (`RolledBack` is what
the code then does to the index), `meta.json` cannot be written, the process dies
inside. Open reads line by line, so that a crash can fall inside it. `Query` only
reads: `Shows` is what it shows of an id.

`acked` and `gone` are history variables: what the callers were told. After an
error or a crash inside a call the caller knows nothing (`Unknown`) until the next
call on that id.

Assumed: a process crash, not a loss of power (what `write` returned stays, in
order); two lines that each fit the scanner's buffer fit it when joined; ids that
the store generates are among `Id`. Which scopes share a directory
is a parameter (`DirName`), because `scopeDirName` maps distinct names to one.

`DurableStore` promises: a call that returns nil changes what is visible and what is
durable alike, entries keep their commit order, and a call that fails or dies may
have changed either, but for its own id only. The refinement, at the end of
`FileStore`, maps `visible` to the slots that `byID` leads to (`Live`) and `durable`
to what loading the lines of the files one after the other would give (`Replayed`).

### Flow

`nodes` grows by `Register` (Start, Listen and Router differ in the record they
append) while no Run is in flight. `validate` gives the first error in the order of
its checks. A Run goes

    idle -> barrier -> wave -> fold -> barrier ... -> end -> idle

`CollectReady` marks the skipped steps and starts the others, `StepFails` and
`StepReturns` end a goroutine (an error and a recovered panic are alike), `Join` is
`wg.Wait`, and the fold takes one step per node. The caller may cancel at any
point; only the barrier looks. All of Run's variables are local to it, so that they
are dropped by `Return`. A router returns any set of names in `Routes`; the order
and repetition of names have no effect in the code.

### Executor

An execution is a goroutine inside `executeTask`; `st[e]` holds its local
variables. Its control state goes

    idle -> (plan ->) turn -> act (-> facts) -> turn ... -> capture -> evaluate -> done
                      single                                           (rewrite)

`turn` is the top of a tool loop, `act` the calls of a reply that are still to be
answered, `facts` the moment between a tool's `Call` and its `Facts`, `capture` the
structured phase, and `evaluate`, `reevaluate`, `rewrite` the loop around all of
it. Where an execution starts (`Phase`) follows from its configuration `cfg[e]`, the
fields of `Agent`, `StructuredOutput` and `AgenticLoop` that decide anything. The
ReAct loop, the native loop and their two gathering variants do the same things in
the same order. They differ in what a reply may ask for (one tool or several), in
the role of an answer, in whether arguments are checked and in what the end of the
budget means; those are conditions of one loop here. `lastFacts` is the one piece
of state that executions share, with the caller's context.

A model call and the check of the context before it are one step, a tool call is
one, and so is `Facts`. What is said is left out but for whether it satisfies the
schema; a reply is any reply. `AgenticLoop` discards what a failed execution
collected, and so does its caller. `modelCalls` and `own` are history variables:
the calls made and the facts that the execution's own tool calls produced.

Left out: texts and prompts, the order of facts, events, truncation of outputs,
and an LLM or a schema that is missing, which are refused before the first step.
A tool that delegates is a tool: the facts its nested execution collects are not
handed on. The capture by `emit_result` sends a reply back without a tool message
for each of its calls (`Repair`); `CallsAnswered` speaks of the tool loop, and
whether a provider accepts the other conversation is not decided in this repository.

### McpClient

A call of a client is a record `call[x]` of its goroutine `x`, and goes

    send -> sent -> replied -> (send -> ... ) done

`Send` is the first critical section of `do`, which reads the session id; the
server's step puts a response on its way; `Receive` is the second one, which
captures the id. Between them anything may happen: another goroutine's request or
`Close`, the server forgetting its sessions, the context or the time-out
(`TransportError`). `AfterReply` is what the rest of the call makes of a response:
`Initialize` sends its notification, `ListTools` the next page. `Close` is one
critical section and a DELETE. `load` is `LoadConfig`: its two loops, over the
entries and over the clients to close after a failure, use the same calls.

The server is external. It opens a session for an initialize and names it in that
response only, as `client.go:425` says; a server that echoed the id in every
response could make a late response bring a closed session back, since `do` captures
the id from whatever response has it (`client.go:428`), and is not modelled. The
repository's own test server does echo it (`client_test.go:172`), one request after the
other: `TakenOnce` and `SessionKept` say nothing of such a server. A context, once cancelled, stays cancelled. A time-out may fall before
or after the server has acted. Headers, options, server-sent events and the text
an adapter makes of a result are left out, as are a configuration that cannot be
read or is empty, which end `LoadConfig` before the loop.

### TokenSource

`pc[c]` is where a goroutine is in `Token`: `waiting` for the mutex, `sent`,
`saving` (before the file is opened), `writing` (after it was truncated), `done`.
Tokens are numbered by the server; `accepted` is the refresh token it accepts, which
a renewal replaces or keeps. `SaveOpen` and `SaveWrite` are the two effects of
`os.WriteFile`; a failure or a crash between them leaves a file that does not parse,
and `Start` then refuses it. `harm` is a history variable: the newest refresh token
was not saved (`unsaved`), or nobody has it (`lost`). The grace period of `Valid` is
part of what expired means. A blank JSON object is taken for a token
(`TokenSourceBlank.cfg`).

Left out: a source without `save`, and two programs sharing a file, which would each
renew with the refresh token the other has replaced.

### Stream

`runStream` reads a line, and sends what it means, if anything, over `chan`;
`drainToSink` takes chunks off it. Both wait in a `select` with the context, and
when both cases are ready either is taken (`SendChunk`, `DrainCancelled`). A line
is its kind, since that is all the code branches on; the three providers differ in
which kinds they have. A read ahead of the scanner lets the size limit cut off lines
already received (`ReadEnd`). The text of a delta is its position in the response,
so a missing, doubled or reordered delta is seen. The definitions of the
specification are named `StreamInit`, `StreamNext`, `StreamSpec`, so that one module of
proofs can extend both `Stream` and `TokenSource`.

### Memory and Delegation

Every method of `Memory` holds its mutex throughout, so each is an operator on the
records. Ids are numbers in the order they are generated, because the code's are
random and never repeat. `Query` is split into the hits (`Hits`) and what it changes:
candidates without an id get one (`Queried`). An id an application chooses is never one
the store could give (`CallerIdAssumption`): putting an entry under an id the store has
given to another is not modelled. `IdsNameOne` promises less of chosen ids: `Put` appends
without looking for the id, so an id put twice names both entries, and the second after
a Delete.

In `Delegation` a task is a stack of executions. The fields `role`, `depth` and
`callers` of a frame are the context values under which `executeTask` runs
(`ContextWithAgentRole`, `withDelegationDepth`), so what a nested execution
remembers, and what it may delegate, is decided by its frame and not by its agent.
`tools[a]` is the crew whose roster, store and scope the tools in `a.Tools` were
made for; `Kickoff` adds tools to agents that have none (`attachTools`), and nothing
takes them away. A reply of the model is any one of the tool calls or the end; the
cancellation of the context ends an execution like an error of the model, and the
caller reads it as an observation. `Refusal` gives the checks of
`delegationTool.Call` in their order. Crews run one after the other here; two that
run at the same time would share the agents' tools without any lock.

`RoleAssumption` makes a role a name and whether blanks surround it, which is all
that `EqualFold`, `findRosterAgent` and the trimming of the input distinguish.

### Schema and Loader

A JSON value is a record whose one field names its type, and a schema is a value.
`validateNode` and its parts thread one record `vc` (`schemaValidation` and the list
of errors) through the recursion, in the order of the code: the stack of pointers,
the expansions used, the errors. Loops over maps visit the keys in the order `order`,
chosen once per call. `Satisfies` is the reference: what the doc comment of
`validateSchema` says of each keyword, over sets and without stack, budget or order; a
call that used up the budget is not compared with it, because a reference refused for the
budget is an error like any other, and under `not`, `if` or `anyOf` lets values pass.
A pattern or a format is the set of texts that match it; errors are the keywords
that failed.

`Loader` takes a document through `LoadCrew` (size, validation, decoding) and
`Build` (one step for each agent and each task, since where Build returns decides
what is reported; then contexts, process and plan), or an answer through
`NewStructuredOutput` and `ValidateAnswer`. The tables `byKey` and `byName` are the
code's maps. `Loadable` and `RefsResolve` are the reference, over the document
alone. The parsing of bytes into JSON is external: a document is a value, the number
of its bytes, and whether its numbers are written as the decoder wants them.

## 3. Runs

| Run | Properties | What it shows |
|---|---|---|
| `plan_waves` | `DepsStrictlyEarlier`, `RejectsExactlyBadGraphs`, `PlanIsEarliest` | every list of up to 3 tasks, every Context of up to 2 entries, duplicates, self edges, cycles and unknown tasks included |
| `crew` | `FirstErrIsRootCause`, `ContextIsFresh`, `GroupMemoryApart`, `RecordsMatchOutput`, `FoldFollowsPlan`, `FailureContained`, `KickoffReturns` | async crews of four tasks, fail-fast or not, capped or not, and serial, hierarchical and staged crews with memory, trace, guardrails, output files and missing agents; kicked off twice with every fault; every Kickoff returns |
| `file_store` | `IndexSound`, `Durable`, `Implements` | one scope; append, sync and meta failures, overlong lines, crashes, reopening, files that begin empty or with a bad line; `FileStore` implements `DurableStore` |
| `flow` | `RejectsExactlyCyclic`, `RunsExactlyEnabled`, `FoldsInOrder`, `RunReturns` | every flow of up to three steps, and flows of up to five steps with two routers, joins of routers and a step behind a join, in every registration order; Run returns, and with no step pending unless it was cancelled or aborted (`AllSettled`) |
| `executor` | `CallsAnswered`, `FactsExact`, `StructuredIsValid`, `ExecutionReturns` | 19 kinds of agent and task beside a second execution that shares a fact tool with some of them, every reply, failure and cancellation; every execution returns, after no more model calls than its limits allow (`WithinBudget`) |
| `mcp_client` | `TakenOnce`, `FailedLoadCloses`, `CatalogIsWhole`, `SessionKept`, `CallsReturn` | `LoadConfig` over every configuration of two servers and some of one and three, and two goroutines with two calls each on one client |
| `token_source` | `RenewsOnlyExpired`, `AnswerIsFresh`, `NeverLockedOut`, `CallsReturn` | two goroutines, three tokens, lost responses, refusals, failed and torn saves, crashes, restarts and logins |
| `stream` | `SinkAgrees`, `ResultIsWhole`, `BothEnd` | every response of up to four lines of three providers over a channel of two chunks, with every end and cancellation |
| `delegation` | `ChainSound`, `Attributed`, `HitsAreBest`, `IdsNameOne`, `EveryKickoffReturns` | four agents that delegate to each other, one with no role and two of which one's role is inside the other's; two tasks at the same time, Kickoff after Kickoff of two crews; an application that saves, puts with ids of its own, deletes and queries |
| `loader` | `VerdictIsExact`, `LoadsExactly` | about 300 schemas of every keyword, alone, nested once and with references, against 15 values in two orders of maps; about 4500 documents with clashing names and roles, contexts by name and by index, or one thing wrong |

The type invariants of `PlanWaves`, `Crew`, `FileStore`, `Flow`, `Executor`,
`TokenSource`, `Stream`, `Delegation` and `McpClient` are theorems (section 4), and their
runs do not repeat them.

**Bounds.** Three tasks are enough for a cycle through an intermediate task and
for a diamond's half; two entries per Context for a duplicate and for a mixed list.
Four tasks give a wave wider than the cap (3 against 2), a second wave with a task
that depends on part of the first, and a wave of mixed Async and sync tasks whose
order differs from the declaration order, and a wave of two Async tasks, each unlocked
by one of the wave before, crossed. Two Kickoffs reach everything that
survives one: the third would start from the same kinds of state as the second.
`MaxLines` = 4 lines hold two values of two ids, a replacement and a tombstone, in
any order; one of the two values is too long for the scanner, and a store may begin
with a line that no longer parses; the number of restarts is not bounded. One scope
is enough for everything but the mixing of scopes, which `MCFileStoreDocs.cfg` and
the theorem about `Durable` are about.
`MaxCorrupt` stops the store from being opened again once the corrupt count, which
grows at every Open, has shown all it can. A flow of three steps has every kind of
cycle, a repeated dependency and a dependency on an unknown name; the five-step
flows have a join of two routers of different waves and a step behind it.
Two tool calls in a reply (`MaxCalls`) give every mixture of a refused, failing and
successful call; limits of one and two reach the last allowed iteration, repair and
refinement as well as one before it, and the defaults are used by a configuration
of each. The second execution does one ReAct iteration: it is there for what
happens between the first one's `Call` and `Facts`.
A configuration of three servers has a failure after two clients that must both be
closed, one of which may fail; two goroutines with two calls each put a whole
`Close` or `Initialize` between the two critical sections of a third request, and a
cap of two pages has a catalog at the cap and one beyond it. Three tokens are the
one in the file, its renewal and the renewal of that, or a login; calls, expiries,
crashes and restarts are not bounded. Four lines over two places in the channel
fill it with lines to spare, and a response can end behind a full channel.
A delegation depth of 2 has a chain at the limit, a cycle of two agents
and refusals that only the depth explains; one iteration per agent is enough because
a delegation that is refused and one that is made both use it up. The two entries of
`MaxRecords` are any two of those that a task, the application without an id and the
application with one put: with or without a vector, in either order of relevance, one
or both beyond the character budget, and beyond the limit of a query; they can be
deleted, before the other is put or after; an id the store has given counts against
the bound even after that. Three agents have a name that is another's role on
either side of a third, three tasks a cycle and a name that is another's index;
references nest twice, which is the depth limit there, and four expansions are used
up by two chains of two. The passing runs take every action of the model.

**Fairness.** `KickoffReturns` assumes weak fairness of the caller's steps and of each
task's goroutine: Go's scheduler runs every runnable goroutine, and a model call ends
because providers use clients with timeouts. Nothing is assumed of the caller's
cancellation, of faults, or of a further Kickoff. `RunReturns` assumes that the
goroutine of Run and those of the steps are scheduled and that a step's function ends.
`ExecutionReturns` assumes that an execution's goroutine is scheduled and that a model
call and a tool call end; nothing is assumed of what they return. `EveryKickoffReturns`
assumes that each task's goroutine and the scheduler's steps are taken: a model call
ends, as in `Executor`, and a nested execution is part of its caller's tool call.
Nothing is assumed of what the model asks for, so it rests on the iterations and the
depth. The loader has no liveness property. `CallsReturn` of `McpClient` and of
`TokenSource`, and `BothEnd`, assume that a request ends with its response or with the
time-out of the HTTP client, which all of them set (30 s; `Timeout` of the provider),
and never that the server answers. `TokenSource` also assumes that a goroutine waiting
for its mutex gets it in the end: `sync.Mutex` hands over to a waiter that has been
overtaken for 1 ms. A configured MCP time-out of 0 gives that assumption up, and is not
modelled. `CHECK_DEADLOCK FALSE` is set where the model stops at its bound: no more
Kickoffs to make, a plan that is finished, a corrupt count beyond `MaxCorrupt`,
executions or calls that have all returned, a response that was read, or a schema or
document that has its verdict.

### Runs that show a disagreement

These check one statement of a comment or document and TLC shows a behaviour of
the code against it; `PROJECT.json` quotes the lines.

| Run | Statement | What happens |
|---|---|---|
| `crew_stale_context` | sequential reuse of a crew is OK | `Task.output` survives, and a dependent of a failed optional stage is prompted with the previous Kickoff's output |
| `file_store_torn` | the store is durable | a line that lost its newline swallows the next acknowledged entry |

Further disagreements, smaller or of the same origin, are reproduced by
configurations kept beside the runs. One that is named with a property holds several
statements, of which all but one are commented out:

| Configuration | Statement | What happens |
|---|---|---|
| `MCWaveOrder.cfg` | indexes within a wave are ascending | the order in which dependencies unlock dependents decides; c after b and d after a gives the wave (d, c); so `schedule.go:97` ("built by iterating wave in ascending order") is sure of the first wave only |
| `MCCrewFoldOrder.cfg` | each sub-group is folded by ascending task index, "in declaration order" (`crew.go:586-588`, `:722`, `docs/concurrency.md:37-46`) | the group keeps the order of the wave: in the wave (d, c) d is folded before c, and c is `Final` |
| `MCCrewG2.cfg` | failures are never saved (G2) | AutoSave precedes the guardrail, so with `AsyncFailFast=false` a blocked output is committed |
| `MCCrewGuardrail.cfg` | a blocked guardrail halts the crew | with `AsyncFailFast=false` the run goes on |
| `MCCrewAgentless.cfg` | dependencies are always honoured | with `AsyncFailFast=false` a task without agent is not marked failed and its dependents run |
| `MCCrewSiblings.cfg` | tasks of a group do not read each other's outputs | peers of a stage linked by Context do, depending on who ends first |
| `MCCrewStaleWarnings.cfg` | warnings are those of this execution | `Task.warnings` is never reset |
| `MCFileStoreDocs.cfg`, `DeletedStaysDeleted` | a deleted entry is not revived | a failed upsert leaves the id out of RAM, Delete writes no tombstone, and the old line is loaded again |
| `MCFileStoreDocs.cfg`, `Durable` | scopes do not leak into each other | "a b" and "a:b" share a directory, reloaded under the last writer |
| `MCFileStoreDocs.cfg`, `HonestQuery` | a failed Put is rolled back | an upsert of the last entry drops the old value, of another keeps the new one |
| `MCFileStoreDocs.cfg`, `CorruptCountExact` | corrupt lines are counted | every Open counts them again |
| `MCFileStoreDocs.cfg`, `OpenSucceeds` | long lines are allowed for | metadata and escapes are not, and Open of the whole store fails |
| `MCExecutorShared.cfg` | tasks of a group do not read each other's facts (`docs/concurrency.md:25`) | `Call` and `Facts` are two locked steps (`executor.go:137`), so another task's call of the same tool can fall between them |
| `MCExecutorRewrite.cfg` | the executor never returns invalid JSON (`doc.go:95-96`) | a loop that only rewrites returns the rewritten text without validating it (`loop.go:155`) |
| `MCMcpDocs.cfg`, `RejectedFirst` | an unusable entry is rejected before any network call (`mcp/config.go:25,39-40`) | only before any call to that entry: earlier servers are initialized by then, and are not closed |
| `MCMcpDocs.cfg`, `NoSessionLeft` | a failed LoadConfig leaves no session hanging (`docs/en/mcp.md`) | with a context that is cancelled `Close` sends nothing, and a refused DELETE is not tried again |
| `TokenSourceBlank.cfg` | what Token returns without an error is a token | `postForm` ignores the status, so `{}` is taken for a token |
| `MCDelegationDocs.cfg`, `ChainSound` | calls refuse cycles on the caller stack (`delegation.go:84-85`) | the input is trimmed and the roster's roles are too, but the current role and the callers are not: an agent whose role has a blank at its end delegates to itself, down to the depth limit |
| `MCDelegationDocs.cfg`, `OwnCrew` | Kickoff attaches the tools to each agent (`docs/crews.md:62`) | an agent that has them from another crew keeps them: it delegates to that crew's agents and remembers in its scope |
| `MCDelegationDocs.cfg`, `DeleteRemoves` | Delete removes the entry with the given id (`memory.go:214`) | Put appends without looking for the id, and Delete removes the first of two |
| `MCDelegationDocs.cfg`, `NeverSilentlyEmpty` | a query is never silently empty (`memory_store.go:69`) | an entry longer than the character budget ends the list before it begins |
| `MCLoaderDocs.cfg`, `FalseNeverMatches` | the schema false never matches (`schema.go:109`) | a property whose schema is no object is skipped, so `false` matches anything there |
| `MCLoaderDocs.cfg`, `StrictRejectsUnsupported` | a remote `$ref` is rejected under WithStrictSchema (`docs/tasks.md:177`) | the walk does not look at `$ref`, nor into what one leads to outside the holders it knows |
| `MCFlowErrors.cfg` | `Errors` is filled only with continue-on-error | a fail-fast Run fills it too |

## 4. Theorems

| Theorem | Statement |
|---|---|
| `PlanWavesProofs!TypeCorrect` | `Spec => []TypeOK` |
| `PlanWavesProofs!PlanRespectsContext` | `Spec => []DepsStrictlyEarlier` |
| `PlanWavesProofs!RejectsTheBad` | `Spec => []RejectsExactlyBadGraphs` |
| `PlanWavesProofs!PlanIsTheEarliest` | `Spec => []PlanIsEarliest` |
| `CrewProofs!TypeCorrect` | `Spec => []TypeOK` |
| `CrewProofs!RootCause` | `Spec => []FirstErrIsRootCause` |
| `CrewProofs!ContextFresh` | `AgentsOrFailFast` implies `Spec => []ContextIsFresh` |
| `CrewProofs!MemoryApart` | `StagesListOnce` implies `Spec => []GroupMemoryApart` |
| `CrewProofs!OutputFollowsPlan` | `StagesListOnce` implies `Spec => []FoldFollowsPlan` |
| `CrewProofs!OutputInDeclarationOrder` | `StagesListOnce` and `WavesAscend` imply `Spec => []FoldFollowsDeclaration` |
| `CrewProofs!TraceIsTheOutput` | `StagesListOnce` implies `Spec => []TraceMatchesOutput` |
| `CrewProofs!RecordsAreTheOutput` | `StagesListOnce` and `GuardsStop` imply `Spec => []RecordsMatchOutput` |
| `CrewProofs!FailuresContained` | `StagesListOnce` and `AgentsOrFailFast` imply `Spec => FailureContained` |
| `FileStoreProofs!TypeCorrect` | `Spec => []TypeOK` |
| `FileStoreProofs!IndexIsSound` | `Spec => []IndexSound` |
| `FileStoreProofs!AcknowledgedIsDurable` | `NoTear` and `OwnDirs` imply `Spec => []Durable` |
| `FileStoreProofs!StoreIsDurable` | `NoTear` and `OwnDirs` imply `Spec => Implements` |
| `FlowProofs!TypeCorrect` | `Spec => []TypeOK` |
| `FlowProofs!StepsRunExactlyEnabled` | `Spec => []RunsExactlyEnabled` |
| `FlowProofs!RejectsTheCyclic` | `Spec => []RejectsExactlyCyclic` |
| `FlowProofs!RunsAreTold` | `Spec => []FoldsInOrder` |
| `FlowProofs!RunsSettleAll` | `Spec => []AllSettled` |
| `ExecutorProofs!TypeCorrect` | `Spec => []TypeOK` |
| `ExecutorProofs!CallsAreAnswered` | `Spec => []CallsAnswered` |
| `ExecutorProofs!FactsAreExact` | `Spec => []FactsExact` |
| `ExecutorProofs!StructuredAnswersValid` | `Spec => []StructuredIsValid` |
| `ExecutorProofs!CallsAreBounded` | `Spec => []WithinBudget` |
| `ProviderProofs!TypeCorrect` | `Spec => []TypeOK` |
| `ProviderProofs!RenewedOnce` | `Spec => []RenewsOnlyExpired` |
| `ProviderProofs!FreshAnswers` | `Spec => []AnswerIsFresh` |
| `ProviderProofs!LoginKept` | `Spec => []NeverLockedOut` |
| `ProviderProofs!StreamTypes` | `StreamSpec => []StreamTypeOK` |
| `ProviderProofs!SinkToldTheSame` | `StreamSpec => []SinkAgrees` |
| `ProviderProofs!WholeResult` | `StreamSpec => []ResultIsWhole` |
| `DelegationProofs!TypeCorrect` | `Spec => []TypeOK` |
| `DelegationProofs!DelegationIsBounded` | `Unpadded` implies `Spec => []ChainSound` |
| `DelegationProofs!RemembersTheAgent` | `Spec => []Attributed` |
| `DelegationProofs!EntriesKeepTheirIds` | `Spec => IdsNameOne` |
| `DelegationProofs!QueriesShowTheBest` | `Spec => []HitsAreBest` |
| `McpClientProofs!TypeCorrect` | `Spec => []TypeOK` |
| `McpClientProofs!SessionsTakenOnce` | `Spec => []TakenOnce` |
| `McpClientProofs!SessionsAreKept` | `Spec => SessionKept` |
| `McpClientProofs!FailuresClose` | `Spec => []FailedLoadCloses` |
| `McpClientProofs!ListingsAreWhole` | `Spec => []CatalogIsWhole` |

**The plan.** `DepsStrictlyEarlier` is not inductive: it says nothing of tasks
that have no wave yet. The strengthening relates the in-degree of a task to the
edges whose source has not been unlocked, so that an in-degree of 0 means that all
dependencies have a level, at most that of the wave being built.

The verdict and the shape of the plan rest on that and on `PlanInv`. A task without
pending edges and without a wave is in the ready list (`ReadyInv`), so that when the
list is empty each task left has a dependency that is left too: these are the tasks
that wait for each other (`VerdictInv`). In the other direction no member of such a
set can be the first of it to get a wave. Every edge is a dependency (`EdgesInv`), so
the one whose removal makes a task ready comes from the wave just before the task's
(`EarliestInv`), and a wave holds the tasks of its level once each (`WavesInv`).

**The root cause.** A goroutine's error is `canceled` only if the group was already
cancelled or the caller's context is (`CauseInv`). The group is cancelled only
after an error was recorded, and `firstErr` keeps the first, so a `canceled`
first error points at the caller. `QuietInv` (goroutines run only between a
group's opening and its join, and only for its members) makes errors of an earlier
group irrelevant.

**Fresh contexts.** The invariant follows a wave through its life: every task of a
closed wave is settled, that is, failed or with an output of this Kickoff
(`ClosedSettled`); every task of the open wave is queued, in the open group or
settled (`OpenAccounted`); a queued task, and a member of the open group, has no
failed dependency (`QueuedReady`); an `ok` slot means a fresh output
(`SlotsFresh`); the fold marks exactly the slots that are not `ok` (`FoldSettles`);
so a task reads fresh outputs (`SeenFresh`). It uses what is known of a
plan, stated in `Crew` as the assumption `PlanAssumption`: dependencies are in earlier
waves (`PlanRespected`) and the waves hold each task of the crew once (`PlanCovers`).
Both are theorems about `planWaves`, `PlanRespectsContext` and `PlanIsTheEarliest`; a
list that names a task twice is rejected (`RejectsTheBad`) and is then not planned. It
also uses `AgentsOrFailFast`: without it `MCCrewAgentless.cfg` finds a counterexample.

**Memory, output, trace and failures of a Kickoff.** `ShapeInv` says which group is open
in which process and that the buffer is armed exactly while a group runs. `AgendaInv`
says that what is ahead, what is sorted or queued and the open group have no task in
common, so that "before" and "after" make sense for a task. Four chains build on the
two:

* `ApartInv`: nothing ahead, and no member of the open group until its commit, has an
  entry of this Kickoff in the store, so that no injection can meet one of a sibling.
* `OrderInv`: what is folded comes in the plan before what is open and what is ahead,
  the open group before what is ahead, and the queues are in the order of the wave.
  However the goroutines end, the fold appends in that order.
  `OutputFollowsPlan` says no more than that: the order of a wave is the order in which
  `planWaves` lists it. The comments and `docs/concurrency.md` promise the declaration
  order, which is the same only if every wave is ascending (`WavesAscend`):
  `OutputInDeclarationOrder` is the theorem under this hypothesis, with the addition that
  the tasks in the output are of the plan (`OutPlanned`), and `MCCrewFoldOrder.cfg`
  has the counterexample without it. The memory commit and `Final`, the last result folded,
  follow the same order, so in such a wave they too are not those of the declaration.
* `TraceInv`: the recorder has a pending record of every task that answered and is not
  folded, and as many published ones as there are outputs. `BufferInv` says the same of
  the buffer (who got past the output, and after the group its successes), `TallyInv`
  of a task's entry and its warning on the way from the save or the commit to the fold,
  and `MemoryInv` that this Kickoff's entries are stored in the order of the plan.
* `ContainInv`: the failed, the folded, the queued and the running tasks are apart,
  cover the waves opened so far, and none of the last three depends on a failed one.

Three of their hypotheses describe crews. `WavesAscend` is the one above. `StagesListOnce` (no task is in two stages or
twice in one) is what `planWaves` checks of `Crew.Tasks`, but nothing checks it of
`Crew.Stages`. `GuardsStop` (a blocking guardrail ends the Kickoff) excludes the
optional stages and the waves without fail-fast in which the entry of a blocked task
stays, as `MCCrewG2.cfg` shows.

**Durability.** `Durable` speaks of an open store only. `Says` is what a prefix of a
file says of an id: the last line about it. `FilesSay` relates the files to the
acknowledgements at all times, `LoadedSoFar` the index during Open to the prefix
that was read, and `IndexSound` makes an upsert in the middle of `entries` change
one id only. `NoTear` excludes partial lines and `OwnDirs` shared directories: the
run `file_store_torn` and `MCFileStoreDocs.cfg` have the counterexamples without
them. Values whose lines are too long need no assumption, because a store that
cannot be opened shows nothing.

**The refinement.** While Open runs, the list a scope shows is what the lines read so
far replay to (`ListInv`, on top of the invariant of `Durable`), so that at its end
visible and durable agree, which is the `Open` of `DurableStore`. Every other step
appends at most one line and changes one id: lemmas about `Live` say that a new slot, a
replaced slot, a removed slot and a slot `byID` no longer leads to are an `Upsert`, a
`Without` or nothing at the abstract level, and lemmas about `Replayed` say the same of
a line. Each action of `FileStore` is then a step of `DurableStore` or a stutter: the
calls that succeed are its `Put` and `Delete`, the ones that fail or die inside are its
failing calls, and writing `meta.json` is a stutter. The hypotheses are those of
`Durable`. A torn line makes the file replay to less than was acknowledged, and a shared
directory to another scope's entries.

**Flows.** A settled step keeps its status and its route, so a step that was allowed
or blocked stays so (`EnabledKept`); only pending steps are folded (`StatusInv`), so
a fold never changes what a running or skipped step was judged by. That a
dependency is a registered step comes from `validate` (`ValidDeps`). The bound on the
trace counts steps: those traced and those left are all there are (`TraceInv`).

`detectCycle` removes in rounds what no remaining step holds back. What a round leaves is a
function of the round's number, and after as many rounds as there are steps nothing
changes any more: what is left then is a set of steps that wait for each other, and no
step of any such set is ever removed. In a flow that was accepted, the round that removes a
step is its `Depth`, and `DepthInv` says that the waves of a Run are these layers: what
is left at a barrier is what is deeper than the waves that ran. From it follow the
order of the trace (`OrderInv`), that the error kept is the first in that order
(`ErrorInv`, `FirstFailure`), and that a Run which was not cut short leaves nothing
pending (`EndInv`).

**Executions.** Both properties speak of the end of a loop and are followed through
its middle. `AnswerOk` puts each call of each reply at its place: answered there, or
still among `calls` at the distance that is missing, so that an empty `calls` means
that all are answered. `FactsOk` says that what the tool calls of an execution
produced is what it has collected, in this pass or earlier ones, except for what
a tool holds between `Call` and `Facts`; a tool that no other execution has
(`Private`) still holds it then (`OthersKeepFacts`). That needs calls to be of the
execution's own tools (`CallsOk`), which is why an unknown name has to be refused.
Each transformation of a local state (`Enter`, `Output`, `EndLoop`, `Answered`) has
its lemma, and each action cites the one it uses.

`WorkInv` carries the two others. An output that is evaluated or returned is valid if
it was captured (`OutputOkay`), in every round but a rewriting one. For the bound on
the model calls it keeps `made + Left <= Budget`: `Left` is the calls that the state an
execution is in, its iteration, its attempt and its round still permit, so each call
must lower it and each repair, refinement and fall-back must not raise it; the counters
stay within their limits (`CountersOk`), so `Left` is never negative.

**The login.** `NeverLockedOut` speaks of moments when nobody renews. `Held` says where
the accepted refresh token is at the others: in the response on its way to the
goroutine that holds the mutex (`Renewal`), in memory, or, after the end of the
process, in the file unless a save was cut short. `Fresh` follows a token from the
response to the answer: it was issued after every token that had expired when the
caller called, so waiting for the mutex cannot make it stale. `MutexHeld` is what
makes the two other invariants speak of one goroutine.

**Streaming.** `SinkAgrees` is inductive with the types: each chunk that goes to the sink
adds its text to the text, and after a terminal one nothing is taken any more. For the
result, `InOrder` says that the text, then the channel, then the chunk being sent hold
deltas of lines already read, in the order of the lines, and that a terminal chunk is
the last one in the channel of a `runStream` that has ended. `Complete` says that until
`runStream` gives up, no delta of a line that was read is missing from the three, and
that a Done in any of them, or a result, means a response that is at its stop or at a
clean end with no error before it (`Finished`). So at a result the channel is empty and
the text is the whole. A `runStream` that gives up because of the context, or that sends
an error, makes no claim of completeness, and never a Done either.

**Delegation.** `NestInv` says that the frames of a stack count their depth and work
in their own agents' roles. `ChainInv` adds that the agents of a stack differ and that
the callers of a frame name every role below it (`Apart`), so that a refusal against
`callers` is a refusal against everybody at work. That an agent found by a name that
equals none of these roles is none of these agents needs `Unpadded`, since the
comparison is with a role as it is written. `AttrInv` relates `wrote` to the records by
their ids: an id the store generates is larger than every one before it, so an entry
that was attributed once is not confused with a later one, whatever is deleted or
named in between. `Distinct` says the same of the records among themselves: ids that the
store has given differ, and naming, putting and deleting keep it (`IdsInv`); with `IdsKeep`
it gives `IdsNameOne`. `Follows` and `Keeps` say what any operation may do to the records,
have one lemma for each, and `StoreStep` says that every step is one of these.

`HitsAreBest` needs nothing of a behaviour but the types, so it is a theorem about
the operators of `Memory`. The two rankings are one: `takeLatestN` ranks by a score of 0
for every entry. That the order the code sorts by has a ranking of any set of entries is
proved by putting in the entries one by one, oldest first (`Inserted`, `RankingExists`);
that a ranking misses none is the pigeonhole (`RankingWhole`); and the entries that are
shown are a prefix of it that fits and does not if it is one longer (`TakenIs`).

**Sessions.** `OnePlace` says where a session id may be: at the client, in the hands of
one Close, or in the one response that names it, and never in two of these places,
because ids are issued in order and named once. `TakenOnce` follows, and `Kept`, what
every step does to the ids, gives `SessionKept`. For a failing LoadConfig, `LoadTracks`
says that whatever a server before its place has open is known to the client or was
taken (`Tracked`), that nothing is open behind it, and that every client before the
closing loop's place is empty; `Starting` carries this through the exchanges of one
`Initialize`. It needs that no other goroutine has a client before LoadConfig returns
one. A listing has at every moment the pages before its cursor, and another page ahead
(`Listing`): a 404 or another caller's reset ends it or leaves the cursor alone.

Proved for every set of tasks, every crew and number of Kickoffs, every set of
scopes, ids and values, every set of registrations, and every set of executions,
tools, configurations and limits, every set of goroutines and number of tokens, every
set of agents, crews, rosters and contents, every set of goroutines, servers,
configurations and sessions, and every response and capacity of a channel.

What a recursive function computes is proved by a minimal counterexample: the library
has the well-foundedness of the naturals as a fact about sets, from which the lemma
`UpTo` of `FileStoreProofs`, `DelegationProofs` and `ProviderProofs` says that a set
which holds 0, and the successor of every member below a bound, holds all numbers up to
the bound. That gives the defining equation of a function like `Replayed`, facts about
every prefix of a file, a ranking of every set of entries, and what `FlattenSeq` makes
of one chunk more.

**Only model-checked.** Liveness (`KickoffReturns`, `ExecutionReturns` and `RunReturns`
but for their safety parts `WithinBudget` and `AllSettled`, `CallsReturn`, `BothEnd`,
`EveryKickoffReturns`): the provers do not treat fairness. Everything about `Schema` and
`Loader` (`VerdictIsExact`, `LoadsExactly`), which recurse over JSON values with
RECURSIVE operators, for which the SMT solver is not available.

## 5. Plan

1. Done: `PlanWaves`, `Crew`, `FileStore` with `DurableStore`, `Flow`, `Executor`,
   `TokenSource`, `Stream`, `Delegation` over `Memory`, `McpClient`, and their
   theorems; `Schema` and `Loader`.
2. An abstract specification of one bounded, interruptible conversation that
   `Executor` implements.

## 6. Not modelled

Redaction, path jail and built-in tools are translations of texts and I/O without
state that several steps share. The requests and responses that model providers
translate outside of streaming are single calls, which `Executor` models by their
outcomes. Events and progress are callbacks that change no state of the crew.
`doc.go` is documentation.
