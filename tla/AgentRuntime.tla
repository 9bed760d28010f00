---------------------------- MODULE AgentRuntime ----------------------------
(***************************************************************************)
(* agent.Runtime.Run (agent/runtime.go): several concurrent runs of one    *)
(* Runtime.  A run is a goroutine that routes its input to a skill,        *)
(* resolves the tools that skill may use, and then alternates model turns  *)
(* with authorised tool executions until the model answers or a check      *)
(* stops it.  Everything outside the Runtime is asynchronous: the model,   *)
(* the event sink, the authorizer and the tools are called, run for as     *)
(* long as they like, and return what they like.  The context of a run may *)
(* be cancelled, or its RunTimeout may expire, between any two steps.      *)
(*                                                                         *)
(* pc[r] names the call the run is inside ("generating" is inside          *)
(* model.Generate) or the statement it executes next ("loop" is the head   *)
(* of the for statement).  A context check and the call that follows it    *)
(* are two steps, because the context can be cancelled between them.       *)
(***************************************************************************)
EXTENDS Naturals, Sequences, FiniteSets

CONSTANTS
    Runs,          \* the calls of Run on one Runtime
    Skills,        \* the skills of the skill registry
    Capabilities,  \* the capability names skills may require
    ToolNames,     \* every tool name, registered or not
    CallIDs,       \* call identifiers a provider may return
    NoId,          \* a blank call identifier
    Requires,      \* skill -> the capabilities it requires
    Providers,     \* registered capability -> the tools that provide it
    Turns,         \* the turns the model may return
    MaxSteps,      \* Config.MaxSteps
    MaxToolCalls   \* Config.MaxToolCalls, after its default is applied

Call == [id : CallIDs \cup {NoId}, tool : ToolNames]

ASSUME ConfigAssumption ==
    /\ MaxSteps \in Nat \ {0}
    /\ MaxToolCalls \in Nat \ {0}
    /\ NoId \notin CallIDs
    /\ Requires \in [Skills -> SUBSET Capabilities]
    /\ DOMAIN Providers \subseteq Capabilities
    /\ \A c \in DOMAIN Providers : Providers[c] \subseteq ToolNames
    /\ \A turn \in Turns : turn \in [text : BOOLEAN, calls : Seq(Call)]

VARIABLES
    sequence,    \* Runtime.sequence, the atomic run counter
    registered,  \* the names in the shared tool.Registry
    done,        \* done[r]: the context of r is cancelled or expired
    pc,          \* where run r is
    outcome,     \* what Run returned, "none" before it returns
    runID,       \* the number in the run's identifier, 0 before it has one
    skill,       \* the skill the input routes to; {} before routing
    scope,       \* the tool names resolved for the run
    step,        \* the loop counter, 0 before the loop
    turn,        \* the turn being carried out
    next,        \* the index of the call of that turn being carried out
    toolCalls,   \* the run's tool call counter
    items,       \* the transcript given to the model
    events,      \* history: the events the sink acknowledged
    grants,      \* history: the calls Authorize accepted
    lateGrants,  \* history: those accepted after the context was done
    effects,     \* history: the executions begun, in order
    lateStarts   \* history: model and tool calls begun after it was done

shared  == <<sequence, registered>>
control == <<pc, outcome>>
plan    == <<runID, skill, scope>>
position == <<step, turn, next>>
history == <<grants, lateGrants, effects, lateStarts>>
others == <<shared, done, plan, position, toolCalls, items, events, history>>
vars == <<control, others>>

NoTurn == [text |-> FALSE, calls |-> <<>>]
Occurrence == Nat \X Nat      \* a call of a run: its step and its index

(* The transcript items: provider.Item with exactly one field set.         *)
Item == [kind : {"user", "assistant", "call", "result"}, id : CallIDs \cup {NoId}]
Message(role) == [kind |-> role, id |-> NoId]
ToolCall(id) == [kind |-> "call", id |-> id]
ToolResult(id) == [kind |-> "result", id |-> id]

Outcomes == {"none", "answered", "cancelled", "emptyInput", "sink", "resolve",
             "model", "emptyTurn", "toolCallLimit", "notSelected", "badCall",
             "denied", "tool", "stepLimit"}

(* The labels at which the run waits for the sink to take the event of     *)
(* that name.                                                              *)
Publishing == {"runStarted", "skillSelected", "modelCompleted",
               "toolStarted", "toolCompleted", "runCompleted"}
Event == [kind : Publishing, step : Nat]
Awaiting == Publishing \cup {"generating", "authorizing", "executing"}
Labels == Awaiting \cup {"idle", "resolving", "loop", "callModel", "decide",
                         "nextCall", "granted", "callTool", "ended"}

current(r) == turn[r].calls[next[r]]

---------------------------------------------------------------------------
Init ==
    /\ sequence = 0
    /\ registered \in SUBSET ToolNames
    /\ done = [r \in Runs |-> FALSE]
    /\ pc = [r \in Runs |-> "idle"]
    /\ outcome = [r \in Runs |-> "none"]
    /\ runID = [r \in Runs |-> 0]
    /\ skill = [r \in Runs |-> {}]
    /\ scope = [r \in Runs |-> {}]
    /\ step = [r \in Runs |-> 0]
    /\ turn = [r \in Runs |-> NoTurn]
    /\ next = [r \in Runs |-> 1]
    /\ toolCalls = [r \in Runs |-> 0]
    /\ items = [r \in Runs |-> <<>>]
    /\ events = [r \in Runs |-> <<>>]
    /\ grants = [r \in Runs |-> {}]
    /\ lateGrants = [r \in Runs |-> {}]
    /\ effects = [r \in Runs |-> <<>>]
    /\ lateStarts = [r \in Runs |-> 0]

Goto(r, label) ==
    /\ pc' = [pc EXCEPT ![r] = label]
    /\ UNCHANGED outcome

Return(r, why) ==
    /\ pc' = [pc EXCEPT ![r] = "ended"]
    /\ outcome' = [outcome EXCEPT ![r] = why]

Acknowledge(r) ==
    events' = [events EXCEPT ![r] = Append(@, [kind |-> pc[r], step |-> step[r]])]

CountLate(r) ==
    lateStarts' = [lateStarts EXCEPT ![r] = IF done[r] THEN @ + 1 ELSE @]

(* The composition root, or any holder of the registry, adds a tool while  *)
(* runs are in progress; nothing removes one.                              *)
Register(t) ==
    /\ t \notin registered
    /\ registered' = registered \cup {t}
    /\ UNCHANGED <<sequence, done, control, plan, position, toolCalls, items, events, history>>

(* Mutant: the run sets no deadline, and its caller never cancels it.      *)
CtxDoneBeforeRun(r) ==
    /\ pc[r] = "idle"
    /\ ~done[r]
    /\ done' = [done EXCEPT ![r] = TRUE]
    /\ UNCHANGED <<shared, control, plan, position, toolCalls, items, events, history>>

(* The caller cancels the context, before or during the run, or the run's  *)
(* own deadline passes.                                                    *)
CtxDone(r) ==
    /\ pc[r] # "ended"
    /\ ~done[r]
    /\ done' = [done EXCEPT ![r] = TRUE]
    /\ UNCHANGED <<shared, control, plan, position, toolCalls, items, events, history>>

(* Run is called with an input that routes to skill s.                     *)
Begin(r, s) ==
    /\ pc[r] = "idle"
    /\ ~done[r]
    /\ sequence' = sequence + 1
    /\ runID' = [runID EXCEPT ![r] = sequence + 1]
    /\ skill' = [skill EXCEPT ![r] = {s}]
    /\ Goto(r, "runStarted")
    /\ UNCHANGED <<registered, done, scope, position, toolCalls, items, events, history>>

(* Run is called with a context that is done, or with a blank input.       *)
BeginRefused(r) ==
    /\ pc[r] = "idle"
    /\ Return(r, IF done[r] THEN "cancelled" ELSE "emptyInput")
    /\ UNCHANGED others

(* resolveTools and tools.Definitions: every capability the skill requires *)
(* is registered and every provider of it is a registered tool.            *)
required(r) == UNION {Requires[s] : s \in skill[r]}
provided(r) == UNION {Providers[c] : c \in required(r)}
resolvable(r) == required(r) \subseteq DOMAIN Providers /\ provided(r) \subseteq registered

(* A batch fits what is left of the budget, and asks for tools in scope.   *)
batchFits(r) == Len(turn[r].calls) <= MaxToolCalls  \* mutant: forgets what was spent
withinBudget(r) == Len(turn[r].calls) <= MaxToolCalls - toolCalls[r]
withinScope(r) == \A i \in DOMAIN turn[r].calls : turn[r].calls[i].tool \in scope[r]
pending(r) == next[r] <= Len(turn[r].calls)

(* The errors Run finds by itself, in the order it looks for them: a check *)
(* of the context at the head of the loop, before a call is put to the     *)
(* authorizer and before its effect.                                       *)
Errs(r, why) ==
    CASE pc[r] = "resolving" -> why = "resolve" /\ ~resolvable(r)
      [] pc[r] = "loop" -> IF step[r] > MaxSteps THEN why = "stepLimit"
                           ELSE why = "cancelled" /\ done[r]
      [] pc[r] = "decide" /\ turn[r].calls = <<>> -> why = "emptyTurn" /\ ~turn[r].text
      [] pc[r] = "decide" /\ turn[r].calls # <<>> ->
            IF withinBudget(r) THEN why = "notSelected" /\ ~withinScope(r)
            ELSE why = "toolCallLimit"
      [] pc[r] = "nextCall" /\ pending(r) ->
            IF current(r).id = NoId THEN why = "badCall" ELSE why = "cancelled" /\ done[r]
      [] pc[r] = "granted" ->
            IF current(r).tool \notin registered THEN why = "resolve"
            ELSE why = "cancelled" /\ done[r]
      [] OTHER -> FALSE

Refuse(r) ==
    /\ \E why \in Outcomes : Errs(r, why) /\ Return(r, why)
    /\ UNCHANGED others

(* The sink, the model, the authorizer or the tool returns an error: the   *)
(* run ends wherever it was, with what it has done so far left as it is.   *)
(* A turn that arrives after the context is done is such an error.         *)
FailingCall(label) == label  \* mutant: the call's name in place of its error
Failure(label) ==
    CASE label = "generating" -> "model"
      [] label = "authorizing" -> "denied"
      [] label = "executing" -> "tool"
      [] OTHER -> "sink"

CallFails(r) ==
    /\ pc[r] \in Awaiting
    /\ Return(r, Failure(pc[r]))
    /\ UNCHANGED others

ModelReturnsLate(r) ==
    /\ pc[r] = "generating"
    /\ done[r]
    /\ Return(r, "cancelled")
    /\ UNCHANGED others

(* The sink takes an event after which the run simply goes on.             *)
After == [runStarted |-> "skillSelected", skillSelected |-> "resolving",
          modelCompleted |-> "decide", toolStarted |-> "authorizing"]

(* Mutant: the error of the sink is ignored.                               *)
PublishedOrNot(r) ==
    /\ pc[r] \in DOMAIN After
    /\ Acknowledge(r) \/ UNCHANGED events
    /\ Goto(r, After[pc[r]])
    /\ UNCHANGED <<shared, done, plan, position, toolCalls, items, history>>

Published(r) ==
    /\ pc[r] \in DOMAIN After
    /\ Acknowledge(r)
    /\ Goto(r, After[pc[r]])
    /\ UNCHANGED <<shared, done, plan, position, toolCalls, items, history>>

ResolveTools(r) ==
    /\ pc[r] = "resolving"
    /\ resolvable(r)
    /\ scope' = [scope EXCEPT ![r] = provided(r)]
    /\ items' = [items EXCEPT ![r] = <<Message("user")>>]
    /\ step' = [step EXCEPT ![r] = 1]
    /\ Goto(r, "loop")
    /\ UNCHANGED <<shared, done, runID, skill, turn, next, toolCalls, events, history>>

(* Mutant: the loop does not look at the context.                          *)
EnterLoopUnchecked(r) ==
    /\ pc[r] = "loop"
    /\ step[r] <= MaxSteps
    /\ Goto(r, "callModel")
    /\ UNCHANGED others

EnterLoop(r) ==
    /\ pc[r] = "loop"
    /\ step[r] <= MaxSteps
    /\ ~done[r]
    /\ Goto(r, "callModel")
    /\ UNCHANGED others

CallModel(r) ==
    /\ pc[r] = "callModel"
    /\ CountLate(r)
    /\ Goto(r, "generating")
    /\ UNCHANGED <<shared, done, plan, position, toolCalls, items, events, grants, lateGrants, effects>>

ModelReturns(r, t) ==
    /\ pc[r] = "generating"
    /\ ~done[r]
    /\ turn' = [turn EXCEPT ![r] = t]
    /\ Goto(r, "modelCompleted")
    /\ UNCHANGED <<shared, done, plan, step, next, toolCalls, items, events, history>>

(* A turn without calls is the answer.                                     *)
TakeAnswer(r) ==
    /\ pc[r] = "decide"
    /\ turn[r].calls = <<>>
    /\ turn[r].text
    /\ Goto(r, "runCompleted")
    /\ UNCHANGED others

(* A turn with calls is accepted as a whole.                               *)
TakeBatch(r) ==
    /\ pc[r] = "decide"
    /\ turn[r].calls # <<>>
    /\ withinBudget(r)
    /\ withinScope(r)
    /\ items' = [items EXCEPT ![r] = IF turn[r].text THEN Append(@, Message("assistant")) ELSE @]
    /\ next' = [next EXCEPT ![r] = 1]
    /\ Goto(r, "nextCall")
    /\ UNCHANGED <<shared, done, plan, step, turn, toolCalls, events, history>>

(* Mutant: the step is not counted.                                        *)
FinishBatchUncounted(r) ==
    /\ pc[r] = "nextCall"
    /\ ~pending(r)
    /\ Goto(r, "loop")
    /\ UNCHANGED others

(* The inner loop ends: the next model turn.                               *)
FinishBatch(r) ==
    /\ pc[r] = "nextCall"
    /\ ~pending(r)
    /\ step' = [step EXCEPT ![r] = @ + 1]
    /\ Goto(r, "loop")
    /\ UNCHANGED <<shared, done, plan, turn, next, toolCalls, items, events, history>>

StartCall(r) ==
    /\ pc[r] = "nextCall"
    /\ pending(r)
    /\ current(r).id # NoId
    /\ ~done[r]
    /\ items' = [items EXCEPT ![r] = Append(@, ToolCall(current(r).id))]
    /\ Goto(r, "toolStarted")
    /\ UNCHANGED <<shared, done, plan, position, toolCalls, events, history>>

(* Mutant: a call the authorizer refuses is skipped and the batch goes on. *)
SkipsRefused(r) ==
    /\ pc[r] = "authorizing"
    /\ next' = [next EXCEPT ![r] = @ + 1]
    /\ Goto(r, "nextCall")
    /\ UNCHANGED <<shared, done, plan, step, turn, toolCalls, items, events, history>>

(* Authorize returns nil, perhaps after the context is done.               *)
AuthorizerAccepts(r) ==
    /\ pc[r] = "authorizing"
    /\ grants' = [grants EXCEPT ![r] = @ \cup {<<step[r], next[r]>>}]
    /\ lateGrants' = [lateGrants EXCEPT ![r] = IF done[r] THEN @ \cup {<<step[r], next[r]>>} ELSE @]
    /\ Goto(r, "granted")
    /\ UNCHANGED <<shared, done, plan, position, toolCalls, items, events, effects, lateStarts>>

(* Mutant: no look at the context between the permission and the effect.   *)
PassUnchecked(r) ==
    /\ pc[r] = "granted"
    /\ toolCalls' = [toolCalls EXCEPT ![r] = @ + 1]
    /\ Goto(r, "callTool")
    /\ UNCHANGED <<shared, done, plan, position, items, events, history>>

(* The last check before the effect; the call counts against the budget.   *)
PassCheck(r) ==
    /\ pc[r] = "granted"
    /\ current(r).tool \in registered
    /\ ~done[r]
    /\ toolCalls' = [toolCalls EXCEPT ![r] = @ + 1]
    /\ Goto(r, "callTool")
    /\ UNCHANGED <<shared, done, plan, position, items, events, history>>

CallTool(r) ==
    /\ pc[r] = "callTool"
    /\ effects' = [effects EXCEPT ![r] = Append(@, <<step[r], next[r]>>)]
    /\ CountLate(r)
    /\ Goto(r, "executing")
    /\ UNCHANGED <<shared, done, plan, position, toolCalls, items, events, grants, lateGrants>>

(* Mutant: the result is not put in the transcript.                        *)
ToolReturnsNothing(r) ==
    /\ pc[r] = "executing"
    /\ Goto(r, "toolCompleted")
    /\ UNCHANGED others

ToolReturns(r) ==
    /\ pc[r] = "executing"
    /\ items' = [items EXCEPT ![r] = Append(@, ToolResult(current(r).id))]
    /\ Goto(r, "toolCompleted")
    /\ UNCHANGED <<shared, done, plan, position, toolCalls, events, history>>

ToolCompletedPublished(r) ==
    /\ pc[r] = "toolCompleted"
    /\ Acknowledge(r)
    /\ next' = [next EXCEPT ![r] = @ + 1]
    /\ Goto(r, "nextCall")
    /\ UNCHANGED <<shared, done, plan, step, turn, toolCalls, items, history>>

RunCompletedPublished(r) ==
    /\ pc[r] = "runCompleted"
    /\ Acknowledge(r)
    /\ Return(r, "answered")
    /\ UNCHANGED <<shared, done, plan, position, toolCalls, items, history>>

(* Every run has returned.                                                 *)
AllReturned ==
    /\ \A r \in Runs : pc[r] = "ended"
    /\ UNCHANGED vars

(* The steps of the run's own code, which never waits.                     *)
OwnStep(r) ==
    \/ Refuse(r) \/ ResolveTools(r) \/ EnterLoop(r) \/ CallModel(r)
    \/ TakeAnswer(r) \/ TakeBatch(r) \/ FinishBatch(r) \/ StartCall(r)
    \/ PassCheck(r) \/ CallTool(r)

(* A dependency answers the call the run is inside.                        *)
DependencyReturns(r) ==
    \/ CallFails(r) \/ Published(r) \/ ModelReturnsLate(r) \/ (\E t \in Turns : ModelReturns(r, t))
    \/ AuthorizerAccepts(r) \/ ToolReturns(r)
    \/ ToolCompletedPublished(r) \/ RunCompletedPublished(r)

Next ==
    \/ \E t \in ToolNames : Register(t)
    \/ \E r \in Runs :
        \/ \E s \in Skills : Begin(r, s)
        \/ BeginRefused(r)
        \/ CtxDone(r)
        \/ OwnStep(r)
        \/ DependencyReturns(r)
    \/ AllReturned

(* The run's goroutine is scheduled; its deadline passes, since RunTimeout *)
(* is positive (NewRuntime replaces 0 by the default); and a dependency    *)
(* returns once the context it was given is done.  A dependency whose      *)
(* context is not done owes nothing.                                       *)
Fairness ==
    \A r \in Runs :
        /\ WF_vars(OwnStep(r))
        /\ WF_vars(pc[r] # "idle" /\ CtxDone(r))
        /\ WF_vars(done[r] /\ DependencyReturns(r))

Spec == Init /\ [][Next]_vars
FairSpec == Spec /\ Fairness

---------------------------------------------------------------------------
(* The type invariant.                                                     *)
TypeOK ==
    /\ sequence \in Nat
    /\ registered \subseteq ToolNames
    /\ done \in [Runs -> BOOLEAN]
    /\ pc \in [Runs -> Labels]
    /\ outcome \in [Runs -> Outcomes]
    /\ runID \in [Runs -> Nat]
    /\ skill \in [Runs -> SUBSET Skills]
    /\ scope \in [Runs -> SUBSET ToolNames]
    /\ step \in [Runs -> Nat]
    /\ turn \in [Runs -> [text : BOOLEAN, calls : Seq(Call)]]
    /\ next \in [Runs -> Nat]
    /\ toolCalls \in [Runs -> Nat]
    /\ items \in [Runs -> Seq(Item)]
    /\ events \in [Runs -> Seq(Event)]
    /\ grants \in [Runs -> SUBSET Occurrence]
    /\ lateGrants \in [Runs -> SUBSET Occurrence]
    /\ effects \in [Runs -> Seq(Occurrence)]
    /\ lateStarts \in [Runs -> Nat]

(* No tool runs on a permission the run should not use: every execution    *)
(* was accepted by the authorizer while the context was still live, and    *)
(* the tool is one of the skill's.  (The checks at 186, 206 and 213.)      *)
EffectsAuthorised ==
    \A r \in Runs :
        /\ \A i \in DOMAIN effects[r] : effects[r][i] \in grants[r] \ lateGrants[r]
        /\ pc[r] \in {"callTool", "executing"} => current(r).tool \in scope[r] \cap registered

(* A run never executes more than MaxToolCalls tools, whatever the sizes   *)
(* of the batches the model asks for (182, 216).                           *)
BudgetRespected ==
    \A r \in Runs : Len(effects[r]) <= toolCalls[r] /\ toolCalls[r] <= MaxToolCalls

(* The comment at 181: a batch that is refused for its size, or for one    *)
(* call outside the scope, had no side effect at all; not even its first   *)
(* calls were put to the authorizer.                                       *)
RefusedBatchHasNoEffect ==
    \A r \in Runs : outcome[r] \in {"toolCallLimit", "notSelected"} =>
        \A o \in grants[r] : o[1] # step[r]

(* Each requested call is executed at most once and in the order the model *)
(* asked: executions advance through steps and through each batch.         *)
Before(o, p) == o[1] < p[1] \/ (o[1] = p[1] /\ o[2] < p[2])

ExecutedInOrder ==
    \A r \in Runs : \A i, j \in DOMAIN effects[r] : i < j => Before(effects[r][i], effects[r][j])

(* What the model is shown is well formed: whenever Generate is called,    *)
(* every call in the transcript is followed by its own result, and the     *)
(* results are exactly the executions of the run (202, 221-222).           *)
IsCall(item) == item.kind = "call"
IsResult(item) == item.kind = "result"

TranscriptPaired ==
    \A r \in Runs : pc[r] \in {"callModel", "generating"} =>
        LET it == items[r] IN
        /\ \A i \in DOMAIN it : IsCall(it[i]) =>
              i + 1 \in DOMAIN it /\ it[i + 1] = ToolResult(it[i].id)
        /\ \A i \in DOMAIN it : IsResult(it[i]) => i > 1 /\ IsCall(it[i - 1])
        /\ Cardinality({i \in DOMAIN it : IsResult(it[i])}) = Len(effects[r])

(* After its context is done a run makes at most one more call to the      *)
(* model or to a tool: the one whose check had already passed (156, 163,   *)
(* 198, 213).                                                              *)
CancellationStops == \A r \in Runs : lateStarts[r] <= 1

(* Concurrent runs never share an identifier, so an observer can tell      *)
(* their events apart (129).                                               *)
RunIDsUnique ==
    \A r, q \in Runs : r # q /\ runID[r] # 0 => runID[r] # runID[q]

(* The event log tells the truth: an execution without a toolStarted      *)
(* event, or a second open one, is impossible; every toolCompleted stands *)
(* for an execution; runCompleted is acknowledged exactly for the runs    *)
(* that returned an answer.                                                *)
Acked(r, kind) == Cardinality({i \in DOMAIN events[r] : events[r][i].kind = kind})

EventsFaithful ==
    \A r \in Runs :
        /\ Acked(r, "toolCompleted") <= Len(effects[r])
        /\ Len(effects[r]) <= Acked(r, "toolStarted")
        /\ Acked(r, "toolStarted") <= Acked(r, "toolCompleted") + 1
        /\ Acked(r, "runCompleted") = (IF outcome[r] = "answered" THEN 1 ELSE 0)

(* A call the authorizer has accepted never fails because its tool is not  *)
(* registered: the names resolved before the first turn stay valid (146,   *)
(* 209).                                                                   *)
GrantedToolExists ==
    \A r \in Runs : outcome[r] = "resolve" => grants[r] = {}

(* The runtime never turns a refused call or a failure into an answer: a   *)
(* run that answers has accepted every tool it reported as started, and    *)
(* has executed and completed all of them.                                 *)
AnswerAfterAllResults ==
    \A r \in Runs : outcome[r] = "answered" =>
        /\ Cardinality(grants[r]) = Len(effects[r])
        /\ Acked(r, "toolStarted") = Len(effects[r])
        /\ Acked(r, "toolCompleted") = Len(effects[r])

(* A run is the implementation of the contract in RunContract: what an     *)
(* embedding application may rely on about the effects of a run.           *)
phaseOf(r) ==
    IF pc[r] = "idle" THEN "new"
    ELSE IF pc[r] # "ended" THEN "open"
    ELSE IF outcome[r] = "answered" THEN "answered" ELSE "failed"
usefulTo(r) ==
    IF pc[r] \in {"granted", "callTool"} THEN {<<step[r], next[r]>>} \ lateGrants[r] ELSE {}

Contract == INSTANCE RunContract WITH
    phase <- [r \in Runs |-> phaseOf(r)],
    cancelled <- done,
    permits <- grants,
    useful <- [r \in Runs |-> usefulTo(r)],
    busy <- [r \in Runs |-> pc[r] \in {"executing", "toolCompleted"}]

ContractSpec == Contract!Spec

(* Every run that begins returns: the step limit and the deadline end it   *)
(* even if the model never stops asking for tools or a dependency never    *)
(* answers (120, 155, 229).                                                *)
Termination == \A r \in Runs : pc[r] # "idle" ~> pc[r] = "ended"
=============================================================================
