# Verification of Hot Take

TLA+ modules that model the agent framework in this repository, TLC
configurations that check them on small instances, and proofs, checked by
TLAPS, of what matters most for every value of the parameters. All source paths
below are relative to the repository's root.

Contents: 1 the system, 2 the modules, 3 the runs, 4 fairness, 5 the proofs,
6 what is only model-checked and what is not modelled, 7 the findings,
8 the plan, 9 how to run everything.

## 1. The system

An application builds one `agent.Runtime` from registries, a model, an
authorizer and an event sink, and calls `Run` on it, possibly from several
goroutines. `cmd/hot-take` is such an application: it loads a project directory,
connects the plugins it names over MCP, and runs one message with a terminal as
the place where approvals are asked for.

| component | source | state | operations | what makes it hard |
|---|---|---|---|---|
| agent runtime | `agent/runtime.go` | the run counter; per run: scope, step, transcript, provider state, tool call count | `Run` | concurrent runs; cancellation and a deadline between any two steps; five dependencies that can fail or stall at any point; batches that are refused as a whole or fail half way |
| permission policy | `permission/permission.go` | its rules, immutable | `Authorize` | none of its own; it puts requests to the approver |
| terminal approver | `cmd/hot-take/approval.go` | the gate, the shared `bufio.Reader`, `stopped` | `Approve` | callers that queue; a read that cannot be interrupted and outlives its request; selects with two ready cases |
| MCP client | `mcp/client.go` | the request counter, the catalogue under a lock | `ListTools`, `CallTool`, `request` | pagination against any server; replies to other requests; a catalogue that is replaced while calls are prepared from it |
| MCP schemas | `mcp/schema.go` | none | validation, header bindings | a scan in map order |
| remote tool adapter | `mcp/tool.go` | none | `NewRemoteTool`, `LocalToolName`, `Execute` | names that become equal |
| OpenAI provider | `providers/openai/client.go` | none between turns; an opaque state in the runtime's hands | `Generate` | what has been said already, counted in transcript items; lost replies |
| tool registry | `tool/registry.go` | tools by name, under a lock | `Register`, `Get`, `Definitions` | shared with runs in progress |
| capability registry | `capability/registry.go` | capability to tools, immutable | `NewRegistry`, `Resolve` | none |
| skill registry | `skill/skill.go` | skills by name, immutable | `NewRegistry`, `Select` | scoring over a map |
| project loader | `project/loader.go` | what it has read so far | `Load` | paths from manifests and links on disk; several directories of which one is bad; validation of several files against each other |
| CLI composition root | `cmd/hot-take/main.go` | what it accumulates over the plugins; one deadline | `runProject`, `projectTools` | a failure at any plugin after others have been registered; a server, a model or a user that never answers |
| events | `event/event.go` | none | `Publish` | a sink that refuses after an effect |

How they interact. `Run` calls the skill registry once, the capability and tool
registries once before its first turn, and then, in a loop, the model, the event
sink, the authorizer, the tool registry and the tool. All of these get the run's
context. With the CLI the authorizer is the policy, which calls the approver for
tools whose rule is `ask`; the model is the OpenAI adapter; and remote tools call
the MCP client of their plugin. What must be right:

- *runtime*: an effect happens only with a permission given for it in time,
  never twice, in order, within the budget; a refused batch has none; the model
  and the log are told what happened; cancellation stops a run, and every run
  ends;
- *policy and approver*: one prompt at a time, one reader, an answer approves
  the request it was given to and no other, and a request can be cancelled
  while it waits;
- *MCP client*: an answer belongs to its request, the catalogue is one complete
  listing, calls go out as such a listing prescribes, and discovery ends;
- *startup*: a project is read from its own directory and loaded whole, and what
  an agent can reach is exactly what the manifests state, or the agent does not
  start;
- *command*: what is executed was confirmed by the user for that very call, and the
  process ends;
- *OpenAI provider*: the model sees the transcript, all of it and once.

## 2. The modules

A module's comments name the lines a definition is about. `PROJECT.json` maps
every definition to its lines. A definition that a comment calls a *mutant* is a
plausible bug; it belongs to no specification, and replacing the real definition
by it makes some property fail.

### AgentRuntime: `agent/runtime.go`

One process per call of `Run`. `pc[r]` is either the call the run is inside
(`generating`, `authorizing`, `executing`, or waiting for the sink to take an
event, whose name is then the label) or the statement that comes next (`loop`,
`decide`, `nextCall`, ...). A context check and the call after it are two steps,
since the context may end between them. A dependency answers with any turn of
`Turns`, with a permission, a result or an error, whenever it likes; the shared
registry may grow at any time; the context may be cancelled, before the run too.

| code | definition |
|---|---|
| 119-132, blank input, done context, the counter | `Begin`, `BeginRefused` |
| 142-153, scope and its errors | `resolvable`, `ResolveTools` |
| 155-166, the loop, `Generate`, the check after it | `EnterLoop`, `CallModel`, `ModelReturns`, `ModelReturnsLate` |
| 170-180, an answer | `TakeAnswer`, `RunCompletedPublished` |
| 181-193, the batch as a whole | `withinBudget`, `withinScope`, `TakeBatch` |
| 194-226, one call | `StartCall`, `AuthorizerAccepts`, `PassCheck`, `CallTool`, `ToolReturns`, `ToolCompletedPublished`, `FinishBatch` |
| every `return "", ...` of the code's own | `Errs`, `Refuse`, in the order of the checks |
| every error of a dependency | `CallFails` |
| 252-259 | `Published`, `Acknowledge` |

History variables record what no field of the program does: the events
acknowledged, the permissions given (and those given too late), the executions
begun (a pair of step and index) and the calls begun after the context was done.
Texts, definitions and results' contents are abstracted; a call keeps its
identifier, which may be blank or repeated, and its tool name.

### RunContract: what a Runtime promises

An abstract specification of the effects of a run: a permission for a call, at
most one execution for it, later calls only, within the budget, none after a
permission that came too late, an answer only with nothing under way.
`AgentRuntime!ContractSpec` is the refinement; `useful` maps to the call between
its permission and its execution.

### TerminalApprover: `permission/permission.go`, `cmd/hot-take/approval.go`

Callers with a context each ask the policy; the rule decides, or the caller goes
for the gate. Each reader goroutine is an entry of `reads`, pending until it gets
a line: it lives on when its caller leaves. Both selects are alternatives of
`OwnStep` that are enabled together when both cases are ready: `AcquireGate` and
`GiveUp`; `TakeAnswer`, `TakeAnswerTooLate` and `Abandon`. `Abandon` sets
`stopped`. The person may type at a prompt or ahead of it, or end the input.

### McpClient: `mcp/client.go`

Goroutines that share one client, each in a `ListTools` (`RequestPage`,
`TakePage`, `ReplaceTools`) or a `CallTool` (`BeginCall`, `BadArguments`,
`SendCall`, `TakeResult`). `sent` keeps every request with what the server made of
it, chosen when it is sent: no answer, or any page or result. `Replies` is what
the network can hand a waiting caller: any answer of any request so far under its
own identifier or none, an error, a notification, garbage, one message or a
stream of two, with or without a success status. `decodes` is the test of
`decodeResponse` and `decodeEventStream`.

### SchemaScan: `mcp/schema.go`

What `McpClient` takes as given, the class and the headers of a definition. A JSON
value is a tree given by its nodes; `candidates` are the keys the scan may take
next, any of them in an object and the first in a list; each frame of `trail` is a
call of `scanHeaderBindings` (`Descend` to `Leave`) with its path and, as its role,
its `reachable` flag. `Exclude` and `Reject` are the first error met. `CallHeaders`
makes the headers of a call from the bindings. The properties compare the outcome
with definitions over the whole schema that know no order (`place`, `headed`,
`located`).

### SkillRouting: `skill/skill.go`

`NewRegistry` and `Select`: the loop over the map takes any skill next (`Score`), the
sort leaves any order that its comparison allows (`Sort`).

### ProjectTools: `cmd/hot-take/main.go`, `project/loader.go`, `mcp/tool.go`

Startup from the manifests to the registries. Names are sequences of symbols and
`LocalToolName` is modelled by what it does, so that collisions are real.

### ProjectLoader: `project/loader.go`

`Load` over a file system given as a tree: a path is a sequence of names, and at it
stands a directory, a file (what it decodes to) or a symbolic link. `resolveWithin`
is `clean` (the lexical part of `filepath.Join`), then `follow` (the links), then the
comparison with the directory; a manifest may write any path, absolute, blank or with
`..`. One action per file or directory read, in the code's order, each of which fails
when the code's checks fail, and `ReadFails`, since any read may. A link to a directory is not an
entry that is a directory (`entry.IsDir`, lines 303 and 178), so a skill or plugin that is one is
passed over, as in the code. Nothing changes on disk during the load.

### ProjectRun: `cmd/hot-take/main.go`

The `run` command: `AgentRuntime` extended, `TerminalApprover` instantiated, both
driven by one process. `stage` is where `runProject` is; `Startup` registers what the
plugins provide, or fails; `CallRun` begins the run, whose context may have ended
already. While the run is at `authorizing`, `AuthorizerStep` works on the request and
`Deliver` hands the run the verdict in the step that reaches it. The model, the sink
and the tools answer by `DependencyStep`. `Interrupt` is the deadline of line 139,
which covers all of it, or the user's interrupt; `Finish` ends the process and with it a reader that still
waits. The history `promptedFor` says which call each prompt was shown for.

### OpenAIRun: `providers/openai/client.go`

`AgentRuntime` with `Generate` spelt out (`SendRequest`, `Respond`, `Receive`):
the continuation state the runtime holds, the items the adapter sends, and a
service that remembers the conversation behind every response. A reply can be
lost after the service has answered.

## 3. The runs

| run | instance | shows |
|---|---|---|
| `runtime_one` | 1 run under fairness, 3 steps, 3 tool calls, every batch of up to two of four calls, 2 skills (one unresolvable), 3 tools | the seven invariants, that a run implements `RunContract`, and that every run that begins returns |
| `approver` | 2 callers with 2 requests each, all three modes, under fairness; nobody has to type, lines come at a prompt or ahead of it | one reader, no borrowed approval, retirement for good, a cancelled request returns |
| `approver_retires` | 2 callers, 1 request each, 2 lines | the first finding of section 7 |
| `mcp_shared` | 2 callers, 3 operations, listings of up to 2 pages, a tool whose definition changes | answers are the caller's own, the catalogue is one complete listing, calls are as a listing prescribes that is not out of date |
| `mcp_paged` | 1 caller under fairness, 2 operations, up to 3 pages out of 8, a server that need not answer | the page limit, no page twice, operations end |
| `schema_scan` | 175 schemas: two properties, something beside or inside them; 17 arguments | what is kept is bound, no verdict without a reason, headers mirror the arguments |
| `schema_stops` | the same | the second finding of section 7 |
| `skill_routing` | 255 registries of up to three skills, two defaults, four inputs | routing is deterministic and to the best skill |
| `project_tools` | every project of up to two of 24 manifests, and 6 that must not load | one name one tool, grants follow manifests, nothing skipped |
| `loader` | 4,674 file systems: every agent.json of a set with all kinds of instructions; every pair of skill directories with every plugin directory, reached directly or through a link | only the project is read, and a skill or plugin only from its directory; what loads is all of it |
| `command` | 1 run of up to 3 turns and 3 calls, a tool of each mode, 3 lines typed, under fairness | executions were confirmed, a started agent is complete, the process ends, and run and approver are those of their modules, fairness included |
| `openai_runs` | 2 runs of one Runtime through one adapter, 3 turns and 2 calls each, repeated identifiers | the model sees the run's own transcript, no call without its result behind it and no result without its call before it, the state is accepted |

Why the bounds are enough. *runtime*: a batch of two has a first call that can
already have had its effect when the second fails; three steps and a budget of
three let a batch exceed what is left after an earlier one; the four calls are in
scope, in scope under another identifier, blank, and out of scope. Runs of one
Runtime share only the counter and the registry, and a registered tool never goes
away, so that few turns of two runs exercise what they share (that their identifiers
differ is proved, section 5). Nor do callers of one
client ever wait for each other, so that one shows that operations end. *approver*: two callers
give a holder and one that queues or gives up, and two requests each let an old
read meet a new prompt; any number is covered by the proofs. *MCP*: two callers and three operations are the least with
which a listing completes, a call is prepared from it and another listing replaces
it; three pages let a cursor come back with one page in between, and let a
listing reach the page limit. The code's own limit is 100 pages; nothing
depends on the number. *project*: a collision needs two tools, of one plugin or
of two. *Schemas*: two properties are the least whose names clash or of which one is
met before the other; every position an annotation can be in (property, nested
property, below a list or another keyword, at the root) occurs. *Skills*: three, so that a tie can be behind the best
or be the best. *OpenAI*: three turns cross two continuations with batches.
*Loader*: a path may leave the project and come back, or stay outside; a link may stand at a
file, at a manifest, at a skill's or plugin's directory and at the directory that holds
them, and lead to a well-formed skill or plugin outside; a second directory
is good, misnamed, a link, empty or absent. *Command*: a batch has a tool that asks twice, after one
that is allowed and before one that is denied, so that the answer to one prompt can arrive at the next.

Bounds that are not the code's: `MaxRequests` and `MaxLines` (TerminalApprover, ProjectRun)
and `MaxOperations` (McpClient) count what the environment does. `MaxSteps`,
`MaxToolCalls` and `MaxToolPages` are the code's configuration. Symmetry is used
over runs and callers in runs without a liveness property.

`CHECK_DEADLOCK` is left on everywhere: each module has an explicit step for
having nothing left to do (`AllReturned`, `Quiet`, `Finished`, `Returned`, `Gone`, `Settled`, `Idle`), which
stutters.

## 4. Fairness

- *AgentRuntime*: `WF(OwnStep(r))`, since the goroutine is scheduled and its own
  code never waits; `WF(CtxDone(r))` for a run that has begun, since
  `RunTimeout` is positive (0 becomes the default, a negative one is refused,
  `agent/runtime.go:83-91`) and `context.WithTimeout` ends every context; and
  `WF(done[r] /\ DependencyReturns(r))`: a dependency returns after its context is
  done, which `docs/configuration.md:124` asks of custom dependencies. A
  dependency whose context is live owes nothing, and nothing is assumed about
  which turn the model returns.
- *TerminalApprover*: `WF(OwnStep(c))` only. Nobody has to type, and readers need
  not return. A step of the select is enabled once the context is done.
- *McpClient*: `WF(OwnStep(c))`, of which `RequestFails` is always one while a
  request is out: the CLI's HTTP client has a timeout of 30 seconds
  (`cmd/hot-take/main.go:209`) and requests carry the context.
- *ProjectRun*: the process is scheduled (`Startup` outside of discovery, `CallRun`,
  `RuntimeStep`, `AuthorizerStep`, `Finish`); the deadline set at line 139 passes; and
  plugin servers, model, sink and tools return once the context is done. For the
  authorizer nothing is assumed but its own steps, and nobody has to answer. That this is enough is
  the property `RuntimeSpec`: the fairness AgentRuntime assumes of its authorizer follows
  from the code of policy and approver.

## 5. The proofs

No theorem assumes more than the named `ASSUME` of its module: for
AgentRuntime and OpenAIRun what `NewRuntime` accepts (`ConfigAssumption`), for McpClient
what a server's pages are made of (`McpAssumption`), for TerminalApprover
that the value for "nobody" is no caller, for ProjectTools the types of the
manifests, for ProjectLoader that what the file system has stands in directories,
for SchemaScan that schemas and arguments are trees and that arguments are an object,
for SkillRouting the types of skills and inputs, for ProjectRun that the command makes one run and that
`MaxRequests`, a bound of the model, does not fall below `MaxToolCalls`. The sets of runs, callers, tools, turns, symbols and projects are
arbitrary, infinite ones included.

**RuntimeProofs** is about the runtime, first with any model and then with the OpenAI
adapter. `TypeOK` needs `Placed`: while a call is being carried out
`next` is an index of the batch, or the item appended to the transcript would have
no type. On these, `Inv` says for each run where its histories stand relative to
its position: every permission and execution lies before the position, or is the
one being carried out; the counter is the number of executions plus the one that
has passed its check; a batch under way still fits the budget; a permission at the
position is not late while `pc` is past the last check; every tool of an accepted
batch is in scope, and the scope is registered; at most one call began after the
context was done, and none while a check is still to come. From these follow
`Authorised`, `Budgeted`, `RefusedWhole`, `InOrder`, `Stops` and `ToolsStay`. An
error return changes only `pc` and `outcome` (lemma `ErrorEnds`), so that one
lemma carries the invariant over all of them. `Distinguished` (`RunIDsUnique`)
needs `Numbered`: no identifier is ahead of the counter it was taken from.

The second half is about what a run leaves on record. `EventsFaithful`,
`AnswerAfterAllResults` and `TranscriptPaired` are not inductive: each leaves open
what is true inside a call. `Records` says it for every place of the run: which of
the three counts, calls reported as started, executed and reported as completed, is
one ahead (`Counted`); that the permissions are as many as the executions, but for
the call about to begin (`Used`, whose step at the authorizer's yes needs
`Positioned`: the occurrence is a new one); and that every call in the transcript has
its own result behind it, but for the last item between the check before a call and
the return of its tool (`Paired`). The counts are cardinalities of sets of
positions, about which `TallyAppend` is all that is needed.

The third part is the refinement. `Implements`: every behaviour of the runtime is one of
`RunContract`. Besides `Inv` it needs `Bounded` (steps up to `MaxSteps`, batches up
to `MaxToolCalls`), since the contract numbers its calls by them. `Begin` is the
contract's `Open`; the end of the context is `Cancel`; every error return is `Fail`;
the authorizer's yes is `Permit`, late or not; `CallTool` is `Perform`; the
acknowledged completion of a tool is `Settle`; that of the run is `Answer`. The
contract does not see any other step (lemma `UnseenSteps`).

The last part is the half of `Termination` that no fairness is needed for.
`RunsAreFinite`: what a run may still do, `remaining`, is a natural number; every step
of its own and every answer of a dependency lowers it, and nothing else that happens,
a step of another run included, raises it. It counts 20 for a turn left, 10 for a call
left in the budget, and less for each label the closer it is to the end, so that
the way back to the head of the loop is paid for by the turn, and the way from a
permission on to the tool by the call. That it is never negative rests on `Funded`
(the budget) and on `TurnsCounted` (the loop counter is at most one past `MaxSteps`,
and 0 before the loop). So no run makes more than
20 (`MaxSteps` + 1) + 10 `MaxToolCalls` + 6 steps, whatever the model answers.

*Runs through the adapter* are the rest of the module. `AdapterIsAModel` maps every step of the composition to one of
AgentRuntime, the service's own being none, so that its theorems hold of runs
through the adapter. `StateComesBack` (`StateAccepted`) needs that transcripts never
get shorter (`TranscriptGrows`, with `Paired` for the one step that sets a transcript
anew) and that replies, responses and turns are counted together (`Replied`).

`WholeTranscriptShown` (`ModelSeesTranscript`) and `EveryCallAnswered`
(`CallsAnsweredInOrder`) are about what the service remembers behind the response the
runtime's state names. `Dialogue` says it for every place of a run, by counting how often each item
occurs. Between two requests (`Remembered`), the user's message and the results that the
service knows are those the transcript had when it last answered (`Heard`); the texts and calls it knows are
those in the transcript and those of its last turn that the run has still to put there
(`Said`, `owed`); and each call it knows is answered in what it knows, or in what the transcript has
had since, or is due (`Answering`). At a request the memory and the new input add up to the
transcript, each item as often as it is there, and no call is left unanswered (`Shown`), though the adapter
sends only what the model has not said itself. It cuts the transcript
and filters it (`encodeItems`); what that does to the count of an item is proved item by item.
That no result comes before its call is not among these counts. A result that is sent has its call in the
transcript, and so in what the model is shown; since the input of a continued
conversation has no call (`Sendings`), it lies in what the service remembers, before the
result (`ContinuedCalled`); and what the service remembers was shown or said (`MemoriesCalled`).

**TerminalApproverProofs.** `OneReader` is not inductive: a prompt starts a read
without looking whether one is pending. What excludes it is `Sole` (a pending read
is the one the gate's holder waits for, or the approver is retired) with `Retired`
(a retired approver has nobody between prompt and answer) and `PromptsSerialised`.
`ApprovalIsOwn` needs `Awaited`: whoever waits for a read started it, and nothing
rests on it yet. `StaysRetired` is an action property from the same invariant.
`GateNeverLost`: whoever holds the gate is between taking it and giving it back, so that
no request, however it ends, leaves the others waiting for a gate that nobody has. It is
the half of `CancelledReturns` that the deferred release decides.

**ProjectToolsProofs.** `GrantsFollowManifests` is not inductive, since a grant and
a rule are only as good as the binding behind them. `Sourced`, `Granted` and
`Ruled` split it by what a later plugin could disturb, and `NameIsOneTool` is what
keeps a later binding from taking over an earlier one's rule. `Complete`
(`NothingSkipped`) rests on `Carried`: the plugins before the present one are bound
in full, the present one up to what is still pending.

**ProjectRunProofs.** `RunsAsModelled` and `AsksAsModelled` map every step of the
command to one of `AgentRuntime` and one of `TerminalApprover`, or to a stutter, so
that what is proved of them with any authorizer and any callers holds here
(`CommandAuthorised`, and lemmas on `OneReader` and `ApprovalIsOwn`). `Confirms` (`EffectsConfirmed`) is about
both: `CommandInv` says that a request is open only while the run waits for it
(`Open`), which prompt it waits at and for which call (`Waiting`), that each read has its prompt
(`Numbering`), and that the permission the run holds for the call at its position
rests on a confirmed read of that call (`Backed`). The step that needs care is a later
cancellation, which withdraws reads: the read an execution rests on is never again
one a request waits for, so it is never withdrawn (`AllConfirmed`). `NothingMissing`
needs that the registry has all of `projectTools` before the run begins and never loses one.

**McpClientProofs.** `AnswersOwn` speaks of what was accepted, and follows once an
operation belongs to one caller (`Owned`) and a waiting caller waits for a request of
its operation (`Asked`). `NoPageTwice` and `CatalogueIsAListing` say too little of a
listing under way: `Progress` says that it has taken exactly the first pages it asked
for, in order (`Onward`), that what it has collected is what they advertise
(`Collected`), and that the page it waits for is the next one (`Expected`). A listing
that has replaced the catalogue is over and whole (`Replaced`), and the one
that ended last left what is there now (`Latest`).
`CallsAreFresh` needs `Current`: a call is looked up in a listing that no listing begun
after its end had replaced when the call's operation began.
`OperationsAreFinite` is the half of `OperationsEnd` that needs no fairness. What an
operation may still do, `toDo`, is 0 for an idle caller, and else 2 for each page left and
up to 3 for the label; each step of the operation lowers it and nothing else that happens
changes it. A listing so makes at most 2 `MaxToolPages` + 3 steps, whatever pages and
cursors the server hands out.

**ProjectLoaderProofs.** `LoadsWhole`: the entries visited and those left are, at
every moment, the directories found in the place the manifest names, and each
visited one has been added under its name. `LoadsConfined` (`ReadsConfined`) and
`TypeCorrect` rest on `Confinement`: the directory `Load` works in lies in the project,
its entries are directories of it, and the instructions of each skill that is still to be
read lie in the directory of that skill, which no entry yet to come shares. Why a path that passed
`resolveWithin` names something in the directory, links and all, is a statement about a
walk along a path, `follow`, and it is proved by induction. The library's induction theorems take an
operator, which the provers cannot instantiate; `StepByStep` and `Iteration` at the head
of the module take a set and a function instead, and rest on the least element of a
set of numbers.

**SchemaScanProofs.** `KeptIsComplete` (`KeptIsBound`), `VerdictsHaveReasons`
(`VerdictJustified`) and `ArgumentsReachServer` (`HeadersMirrorArguments`), for every
schema, every order of its keys and all arguments. A scan forgets the values it has left, so that what
was not missed must be told from what was seen and from the calls under way.
`Visited`: each call on the trail is `frameOf` the node it scans, that is, its path and
its role follow from where that node is in the schema. `Covered`: a value whose call is over
has nothing left to scan below it but members the code skips, the annotations. `Collected`: the annotations
among what was seen are sound, differ in their headers, and are bound, each to the path that leads to it.
When the scan ends, `Covered` goes down from the root along the tree, by induction
(lemma `NothingMissed`): a value that was not seen is a sound annotation, which is
a text and has nothing below it. `Sent` takes it over to the calls: the headers are those
of the call's arguments, encoded. That a server that undoes the encoding has the
text again (`Decoded`) and that `nestedValue`, walking the arguments along a path, finds what
stands at the annotated property are lemmas about the operators.

**SkillRoutingProofs.** `Routes` (`RoutedToBest`), for every set of skills. The sum that
the loop over a skill's examples makes is the number of letters `points` counts
(`ScoreIsPoints`, by induction over the examples), so that every score the routing sorts by
is that of its skill (`Known`), whatever order the map gave them in. A sort may leave any sequence in which
nothing is less than what precedes it, with every skill in it (`Ranked`; that a sequence without
repetitions of as many elements has them all is lemma `SameElements`); the first of it
is the best (`ChosenIsBest`), and when it has no point none has.

## 6. Model-checked only, and not modelled

Only TLC shows the liveness properties (`Termination`, `CancelledReturns`,
`OperationsEnd`, `CommandEnds`, and the fairness in `RuntimeSpec` and
`ApproverSpec`), which are out of TLAPS's reach. Every invariant a run checks is a
theorem. Proved but without a run of their own are
the budget, the order of executions, the identifiers of runs, the serialised
prompts, the gate that always comes back, and the number of steps of a run and of an operation:
`Budgeted`, `InOrder`, `Distinguished`, `Serialised`, `GateNeverLost`, `RunsAreFinite` and
`OperationsAreFinite`.

Not modelled: strict JSON decoding and the fields of a manifest (complete or not); a
file system that changes while a project is loaded; HTTP, JSON and SSE framing and size limits, which are one failure of a
request; the syntax of header names, tool names and endpoints; flags, usage texts,
the tokens of plugins and the `demo` and `version` commands with their built-in model; the
clock tool and the example server, which keep no state; the starter and example projects and the build, which are static.

Three things the models show that a reader of the code may not expect, and that contradict
none of its documentation: a line typed before its prompt is on display is the answer to
that prompt, since nothing discards it, so that `EffectsConfirmed` says which prompt confirmed
a call and not that the prompt had been read when the line was typed; a skill or plugin directory that is itself a symbolic link
is passed over without an error; and a skill whose required capability
no plugin provides is noticed only when a message is routed to it (the exception in
`StartedIsComplete`).

Properties that hold by construction of the code are left out: that a policy
denies by default, for example, is one branch.

## 7. The findings

**A cancelled approver is not always retired.** `docs/configuration.md:130` says that
cancellation retires an approver permanently, and the test at
`cmd/hot-take/approval_test.go:69` that a cancelled approver must never consume
another answer for a new request. `Approve` retires the approver only when its select takes the cancellation; when the answer arrives with
the cancellation and the select takes the answer (`cmd/hot-take/approval.go:61-64`),
the request is refused but the approver stays in use. The run `approver_retires`
shows it. Nothing is approved wrongly on that path (`ApprovalIsOwn` is proved), since
the read has ended: it is the statement that is stronger than the code.

**An invalid schema does not always stop discovery.** `docs/mcp.md:27` says that
invalid schemas stop discovery and that tools with invalid annotations are excluded.
A schema can have both faults. `scanHeaderBindings` returns the one it meets first,
and Go's order of keys (`mcp/schema.go:90`) decides which that is, so that the same
listing fails once and leaves the tool out the next time. The run `schema_stops` shows
the second. What holds in every order is `VerdictJustified`.

## 8. The plan

Done, in this order: AgentRuntime and its contract, TerminalApprover, OpenAIRun,
McpClient, ProjectTools; the proofs of AgentRuntime, of its refinement of
RunContract, of TerminalApprover and of ProjectTools; SchemaScan and SkillRouting;
ProjectRun and ProjectLoader with their proofs; the proofs of McpClient, of what a run
leaves on record, and of OpenAIRun; the proofs of what the loader reads, of what the
model is shown, of SchemaScan and SkillRouting, and that runs and operations are finite.

Left: a file system that changes while a project is loaded, if the loader is ever to
promise something then; and the measure of the whole command, for `CommandEnds`, which
`remaining` and the approver's labels make up.

## 9. Running

In this directory: `tlc -workers 2 -config AgentRuntimeOne.cfg MCAgentRuntime.tla` and
likewise for the other pairs that `PROJECT.json` lists under `runs`; `tlapm
RuntimeProofs.tla` and likewise for the other `*Proofs.tla`.
