---------------------------- MODULE RuntimeProofs ----------------------------
(***************************************************************************)
(* Theorems about AgentRuntime, for every number of runs, every            *)
(* configuration of skills, capabilities and tools, every step and call    *)
(* limit, and every set of turns a model may return; then about runs whose *)
(* model is the Responses API adapter, OpenAIRun, whatever the service     *)
(* replies.                                                                *)
(***************************************************************************)
EXTENDS OpenAIRun, FiniteSetTheorems, SequenceTheorems, NaturalsInduction, WellFoundedInduction, TLAPS

(* Every group of variables an action may leave alone.                     *)
USE DEF shared, control, plan, position, history

LEMMA CallsTyped ==
    ASSUME TypeOK, NEW r \in Runs
    PROVE  /\ turn[r].calls \in Seq(Call)
           /\ Len(turn[r].calls) \in Nat
           /\ DOMAIN turn[r].calls = 1..Len(turn[r].calls)
  BY DEF TypeOK

LEMMA CurrentTyped ==
    ASSUME TypeOK, NEW r \in Runs, next[r] \in 1..Len(turn[r].calls)
    PROVE  current(r) \in Call /\ current(r).id \in CallIDs \cup {NoId}
  <1>1. turn[r].calls \in Seq(Call)
    BY DEF TypeOK
  <1>2. current(r) \in Call
    BY <1>1 DEF current
  <1> QED
    BY <1>2 DEF Call

(***************************************************************************)
(* Where the call being carried out is: the strengthening TypeOK needs,    *)
(* since the items appended to the transcript are typed by that call.      *)
(***************************************************************************)
InCall == {"toolStarted", "authorizing", "granted", "callTool", "executing", "toolCompleted"}

Placed == \A r \in Runs :
    /\ pc[r] = "nextCall" => next[r] >= 1
    /\ pc[r] \in InCall => next[r] \in 1..Len(turn[r].calls)

LEMMA TypeOKInit == Init => TypeOK /\ Placed
  <1> SUFFICES ASSUME Init PROVE TypeOK /\ Placed
    OBVIOUS
  <1>1. NoTurn \in [text : BOOLEAN, calls : Seq(Call)]
    BY DEF NoTurn
  <1>2. TypeOK
    BY <1>1 DEF Init, TypeOK, Labels, Outcomes
  <1>3. Placed
    BY DEF Init, Placed, InCall
  <1> QED
    BY <1>2, <1>3

(* Every error return ends the run and changes nothing else.               *)
LEMMA ErrorEnds ==
    ASSUME TypeOK, NEW r \in Runs,
           BeginRefused(r) \/ Refuse(r) \/ CallFails(r) \/ ModelReturnsLate(r)
    PROVE  /\ pc' = [pc EXCEPT ![r] = "ended"]
           /\ outcome' \in [Runs -> Outcomes]
           /\ \E why \in Outcomes \ {"none", "answered"} : outcome' = [outcome EXCEPT ![r] = why]
           /\ UNCHANGED others
  <1>1. ASSUME NEW why \in Outcomes \ {"none", "answered"}, Return(r, why), UNCHANGED others
        PROVE  /\ pc' = [pc EXCEPT ![r] = "ended"]
               /\ outcome' \in [Runs -> Outcomes]
               /\ \E w \in Outcomes \ {"none", "answered"} : outcome' = [outcome EXCEPT ![r] = w]
               /\ UNCHANGED others
    BY <1>1 DEF Return, TypeOK
  <1>2. CASE BeginRefused(r)
    <2>1. {"cancelled", "emptyInput"} \subseteq Outcomes \ {"none", "answered"}
      BY DEF Outcomes
    <2> QED
      BY <1>1, <1>2, <2>1 DEF BeginRefused
  <1>3. CASE Refuse(r)
    <2>1. PICK why \in Outcomes : Errs(r, why) /\ Return(r, why)
      BY <1>3 DEF Refuse
    <2>2. why \notin {"none", "answered"}
      BY <2>1 DEF Errs
    <2> QED
      BY <1>1, <1>3, <2>1, <2>2 DEF Refuse
  <1>4. CASE CallFails(r)
    <2>1. Failure(pc[r]) \in Outcomes \ {"none", "answered"}
      BY DEF Failure, Outcomes
    <2> QED
      BY <1>1, <1>4, <2>1 DEF CallFails
  <1>5. CASE ModelReturnsLate(r)
    <2>1. "cancelled" \in Outcomes \ {"none", "answered"}
      BY DEF Outcomes
    <2> QED
      BY <1>1, <1>5, <2>1 DEF ModelReturnsLate
  <1> QED
    BY <1>2, <1>3, <1>4, <1>5

(* A step of the run from one label to another keeps the labels typed.     *)
LEMMA GotoTyped ==
    ASSUME TypeOK, NEW r \in Runs, NEW label \in Labels, Goto(r, label)
    PROVE  pc' \in [Runs -> Labels] /\ outcome' \in [Runs -> Outcomes]
  BY DEF TypeOK, Goto

LEMMA AcknowledgeTyped ==
    ASSUME TypeOK, NEW r \in Runs, pc[r] \in Publishing, Acknowledge(r)
    PROVE  events' \in [Runs -> Seq(Event)]
  <1>1. [kind |-> pc[r], step |-> step[r]] \in Event
    BY DEF TypeOK, Event
  <1> QED
    BY <1>1 DEF TypeOK, Acknowledge

LEMMA AppendTyped ==
    ASSUME TypeOK, NEW r \in Runs, NEW e \in Item,
           items' = [items EXCEPT ![r] = Append(@, e)]
    PROVE  items' \in [Runs -> Seq(Item)]
  BY DEF TypeOK

LEMMA OwnLabels ==
    /\ {"ended", "runStarted", "loop", "callModel", "generating", "modelCompleted",
        "runCompleted", "nextCall", "toolStarted", "granted", "callTool", "executing",
        "toolCompleted"} \subseteq Labels
    /\ \A label \in DOMAIN After : label \in Publishing /\ After[label] \in Labels
  BY DEF Labels, Awaiting, Publishing, After

LEMMA TypeOKStep ==
    ASSUME TypeOK, Placed, [Next]_vars
    PROVE  TypeOK' /\ Placed'
  <1> USE ConfigAssumption
  <1>1. ASSUME NEW t \in ToolNames, Register(t) PROVE TypeOK' /\ Placed'
    BY <1>1 DEF Register, TypeOK, Placed, current
  <1>2. ASSUME NEW r \in Runs, NEW s \in Skills, Begin(r, s) PROVE TypeOK' /\ Placed'
    <2>1. pc' \in [Runs -> Labels] /\ outcome' \in [Runs -> Outcomes]
      BY <1>2, GotoTyped, OwnLabels DEF Begin
    <2>2. sequence' \in Nat /\ runID' \in [Runs -> Nat] /\ skill' \in [Runs -> SUBSET Skills]
      BY <1>2 DEF Begin, TypeOK
    <2>3. TypeOK'
      BY <1>2, <2>1, <2>2 DEF Begin, TypeOK
    <2>4. Placed'
      BY <1>2 DEF Begin, Goto, TypeOK, Placed, InCall
    <2> QED
      BY <2>3, <2>4
  <1>3. ASSUME NEW r \in Runs,
               BeginRefused(r) \/ Refuse(r) \/ CallFails(r) \/ ModelReturnsLate(r)
        PROVE  TypeOK' /\ Placed'
    <2>1. pc' = [pc EXCEPT ![r] = "ended"] /\ outcome' \in [Runs -> Outcomes] /\ UNCHANGED others
      BY <1>3, ErrorEnds
    <2>2. TypeOK'
      BY <2>1, OwnLabels DEF others, TypeOK
    <2>3. Placed'
      BY <2>1 DEF others, TypeOK, Placed, InCall
    <2> QED
      BY <2>2, <2>3
  <1>4. ASSUME NEW r \in Runs, CtxDone(r) PROVE TypeOK' /\ Placed'
    BY <1>4 DEF CtxDone, TypeOK, Placed
  <1>5. ASSUME NEW r \in Runs, ResolveTools(r) PROVE TypeOK' /\ Placed'
    <2>1. pc' \in [Runs -> Labels] /\ outcome' \in [Runs -> Outcomes]
      BY <1>5, GotoTyped, OwnLabels DEF ResolveTools
    <2>2. scope' \in [Runs -> SUBSET ToolNames]
      <3>1. provided(r) \subseteq ToolNames
        BY <1>5 DEF ResolveTools, resolvable, TypeOK
      <3> QED
        BY <1>5, <3>1 DEF ResolveTools, TypeOK
    <2>3. items' \in [Runs -> Seq(Item)] /\ step' \in [Runs -> Nat]
      <3>1. Message("user") \in Item
        BY DEF Message, Item
      <3> QED
        BY <1>5, <3>1 DEF ResolveTools, TypeOK
    <2>4. TypeOK'
      BY <1>5, <2>1, <2>2, <2>3 DEF ResolveTools, TypeOK
    <2>5. Placed'
      BY <1>5 DEF ResolveTools, Goto, TypeOK, Placed, InCall
    <2> QED
      BY <2>4, <2>5
  <1>6. ASSUME NEW r \in Runs, EnterLoop(r) \/ TakeAnswer(r) PROVE TypeOK' /\ Placed'
    <2>1. pc' \in [Runs -> Labels] /\ outcome' \in [Runs -> Outcomes]
      BY <1>6, GotoTyped, OwnLabels DEF EnterLoop, TakeAnswer
    <2>2. TypeOK'
      BY <1>6, <2>1 DEF EnterLoop, TakeAnswer, others, TypeOK
    <2>3. Placed'
      BY <1>6, ZenonT(30) DEF EnterLoop, TakeAnswer, Goto, others, TypeOK, Placed, InCall
    <2> QED
      BY <2>2, <2>3
  <1>7. ASSUME NEW r \in Runs, CallModel(r) PROVE TypeOK' /\ Placed'
    <2>1. pc' \in [Runs -> Labels] /\ outcome' \in [Runs -> Outcomes]
      BY <1>7, GotoTyped, OwnLabels DEF CallModel
    <2>2. lateStarts' \in [Runs -> Nat]
      BY <1>7 DEF CallModel, CountLate, TypeOK
    <2>3. TypeOK'
      BY <1>7, <2>1, <2>2 DEF CallModel, TypeOK
    <2>4. Placed'
      BY <1>7 DEF CallModel, Goto, TypeOK, Placed, InCall
    <2> QED
      BY <2>3, <2>4
  <1>8. ASSUME NEW r \in Runs, NEW t \in Turns, ModelReturns(r, t) PROVE TypeOK' /\ Placed'
    <2>1. pc' \in [Runs -> Labels] /\ outcome' \in [Runs -> Outcomes]
      BY <1>8, GotoTyped, OwnLabels DEF ModelReturns
    <2>2. turn' \in [Runs -> [text : BOOLEAN, calls : Seq(Call)]]
      BY <1>8 DEF ModelReturns, TypeOK
    <2>3. TypeOK'
      BY <1>8, <2>1, <2>2 DEF ModelReturns, TypeOK
    <2>4. Placed'
      BY <1>8 DEF ModelReturns, Goto, TypeOK, Placed, InCall
    <2> QED
      BY <2>3, <2>4
  <1>9. ASSUME NEW r \in Runs, TakeBatch(r) PROVE TypeOK' /\ Placed'
    <2>1. pc' \in [Runs -> Labels] /\ outcome' \in [Runs -> Outcomes]
      BY <1>9, GotoTyped, OwnLabels DEF TakeBatch
    <2>2. items' \in [Runs -> Seq(Item)]
      <3>1. Message("assistant") \in Item
        BY DEF Message, Item
      <3>2. CASE turn[r].text
        BY <1>9, <3>1, <3>2, AppendTyped DEF TakeBatch
      <3>3. CASE ~turn[r].text
        BY <1>9, <3>3 DEF TakeBatch, TypeOK
      <3> QED
        BY <3>2, <3>3
    <2>3. next' \in [Runs -> Nat]
      BY <1>9 DEF TakeBatch, TypeOK
    <2>4. TypeOK'
      BY <1>9, <2>1, <2>2, <2>3 DEF TakeBatch, TypeOK
    <2>5. Placed'
      BY <1>9 DEF TakeBatch, Goto, TypeOK, Placed, InCall
    <2> QED
      BY <2>4, <2>5
  <1>10. ASSUME NEW r \in Runs, FinishBatch(r) PROVE TypeOK' /\ Placed'
    <2>1. pc' \in [Runs -> Labels] /\ outcome' \in [Runs -> Outcomes]
      BY <1>10, GotoTyped, OwnLabels DEF FinishBatch
    <2>9. step' \in [Runs -> Nat]
      BY <1>10 DEF FinishBatch, TypeOK
    <2>2. TypeOK'
      BY <1>10, <2>1, <2>9 DEF FinishBatch, TypeOK
    <2>3. Placed'
      BY <1>10 DEF FinishBatch, Goto, TypeOK, Placed, InCall
    <2> QED
      BY <2>2, <2>3
  <1>11. ASSUME NEW r \in Runs, StartCall(r) PROVE TypeOK' /\ Placed'
    <2>1. pc' \in [Runs -> Labels] /\ outcome' \in [Runs -> Outcomes]
      BY <1>11, GotoTyped, OwnLabels DEF StartCall
    <2>2. next[r] \in 1..Len(turn[r].calls)
      BY <1>11, CallsTyped DEF StartCall, pending, TypeOK, Placed
    <2>3. items' \in [Runs -> Seq(Item)]
      <3>1. ToolCall(current(r).id) \in Item
        BY <2>2, CurrentTyped DEF ToolCall, Item
      <3> QED
        BY <1>11, <3>1, AppendTyped DEF StartCall
    <2>4. TypeOK'
      BY <1>11, <2>1, <2>3 DEF StartCall, TypeOK
    <2>5. Placed'
      BY <1>11, <2>2 DEF StartCall, Goto, TypeOK, Placed, InCall
    <2> QED
      BY <2>4, <2>5
  <1>12. ASSUME NEW r \in Runs, PassCheck(r) PROVE TypeOK' /\ Placed'
    <2>1. pc' \in [Runs -> Labels] /\ outcome' \in [Runs -> Outcomes]
      BY <1>12, GotoTyped, OwnLabels DEF PassCheck
    <2>9. toolCalls' \in [Runs -> Nat]
      BY <1>12 DEF PassCheck, TypeOK
    <2>2. TypeOK'
      BY <1>12, <2>1, <2>9 DEF PassCheck, TypeOK
    <2>3. Placed'
      BY <1>12 DEF PassCheck, Goto, TypeOK, Placed, InCall
    <2> QED
      BY <2>2, <2>3
  <1>13. ASSUME NEW r \in Runs, CallTool(r) PROVE TypeOK' /\ Placed'
    <2>1. pc' \in [Runs -> Labels] /\ outcome' \in [Runs -> Outcomes]
      BY <1>13, GotoTyped, OwnLabels DEF CallTool
    <2>2. effects' \in [Runs -> Seq(Occurrence)]
      <3>1. <<step[r], next[r]>> \in Occurrence
        BY DEF TypeOK, Occurrence
      <3> QED
        BY <1>13, <3>1 DEF CallTool, TypeOK
    <2>3. lateStarts' \in [Runs -> Nat]
      BY <1>13 DEF CallTool, CountLate, TypeOK
    <2>4. TypeOK'
      BY <1>13, <2>1, <2>2, <2>3 DEF CallTool, TypeOK
    <2>5. Placed'
      BY <1>13 DEF CallTool, Goto, TypeOK, Placed, InCall
    <2> QED
      BY <2>4, <2>5
  <1>14. ASSUME NEW r \in Runs, Published(r) PROVE TypeOK' /\ Placed'
    <2>1. pc' \in [Runs -> Labels] /\ outcome' \in [Runs -> Outcomes]
      BY <1>14, GotoTyped, OwnLabels DEF Published
    <2>2. events' \in [Runs -> Seq(Event)]
      BY <1>14, AcknowledgeTyped, OwnLabels DEF Published
    <2>3. TypeOK'
      BY <1>14, <2>1, <2>2 DEF Published, TypeOK
    <2>4. pc' = [pc EXCEPT ![r] = After[pc[r]]] /\ (After[pc[r]] \in InCall => pc[r] \in InCall)
          /\ After[pc[r]] # "nextCall"
      BY <1>14 DEF Published, Goto, After, InCall
    <2>5. Placed'
      BY <1>14, <2>4 DEF Published, TypeOK, Placed
    <2> QED
      BY <2>3, <2>5
  <1>15. ASSUME NEW r \in Runs, AuthorizerAccepts(r) PROVE TypeOK' /\ Placed'
    <2>1. pc' \in [Runs -> Labels] /\ outcome' \in [Runs -> Outcomes]
      BY <1>15, GotoTyped, OwnLabels DEF AuthorizerAccepts
    <2>2. grants' \in [Runs -> SUBSET Occurrence] /\ lateGrants' \in [Runs -> SUBSET Occurrence]
      <3>1. <<step[r], next[r]>> \in Occurrence
        BY DEF TypeOK, Occurrence
      <3> QED
        BY <1>15, <3>1 DEF AuthorizerAccepts, TypeOK
    <2>3. TypeOK'
      BY <1>15, <2>1, <2>2 DEF AuthorizerAccepts, TypeOK
    <2>4. Placed'
      BY <1>15 DEF AuthorizerAccepts, Goto, TypeOK, Placed, InCall
    <2> QED
      BY <2>3, <2>4
  <1>16. ASSUME NEW r \in Runs, ToolReturns(r) PROVE TypeOK' /\ Placed'
    <2>1. pc' \in [Runs -> Labels] /\ outcome' \in [Runs -> Outcomes]
      BY <1>16, GotoTyped, OwnLabels DEF ToolReturns
    <2>2. items' \in [Runs -> Seq(Item)]
      <3>1. next[r] \in 1..Len(turn[r].calls)
        BY <1>16 DEF ToolReturns, Placed, InCall
      <3>2. ToolResult(current(r).id) \in Item
        BY <3>1, CurrentTyped DEF ToolResult, Item
      <3> QED
        BY <1>16, <3>2, AppendTyped DEF ToolReturns
    <2>3. TypeOK'
      BY <1>16, <2>1, <2>2 DEF ToolReturns, TypeOK
    <2>4. Placed'
      BY <1>16 DEF ToolReturns, Goto, TypeOK, Placed, InCall
    <2> QED
      BY <2>3, <2>4
  <1>17. ASSUME NEW r \in Runs, ToolCompletedPublished(r) PROVE TypeOK' /\ Placed'
    <2>1. pc' \in [Runs -> Labels] /\ outcome' \in [Runs -> Outcomes]
      BY <1>17, GotoTyped, OwnLabels DEF ToolCompletedPublished
    <2>2. events' \in [Runs -> Seq(Event)]
      BY <1>17, AcknowledgeTyped DEF ToolCompletedPublished, Publishing
    <2>9. next' \in [Runs -> Nat]
      BY <1>17 DEF ToolCompletedPublished, TypeOK
    <2>3. TypeOK'
      BY <1>17, <2>1, <2>9, <2>2 DEF ToolCompletedPublished, TypeOK
    <2>4. Placed'
      BY <1>17 DEF ToolCompletedPublished, Goto, TypeOK, Placed, InCall
    <2> QED
      BY <2>3, <2>4
  <1>18. ASSUME NEW r \in Runs, RunCompletedPublished(r) PROVE TypeOK' /\ Placed'
    <2>1. pc' \in [Runs -> Labels] /\ outcome' \in [Runs -> Outcomes]
      BY <1>18, OwnLabels DEF RunCompletedPublished, Return, TypeOK, Outcomes
    <2>2. events' \in [Runs -> Seq(Event)]
      BY <1>18, AcknowledgeTyped DEF RunCompletedPublished, Publishing
    <2>3. TypeOK'
      BY <1>18, <2>1, <2>2 DEF RunCompletedPublished, TypeOK
    <2>4. Placed'
      BY <1>18 DEF RunCompletedPublished, Return, TypeOK, Placed, InCall
    <2> QED
      BY <2>3, <2>4
  <1>19. CASE UNCHANGED vars
    BY <1>19 DEF vars, others, TypeOK, Placed
  <1> QED
    BY <1>1, <1>2, <1>3, <1>4, <1>5, <1>6, <1>7, <1>8, <1>9, <1>10, <1>11, <1>12, <1>13,
       <1>14, <1>15, <1>16, <1>17, <1>18, <1>19
    DEF Next, OwnStep, DependencyReturns, AllReturned

(* Every reachable state is well typed.                                    *)
THEOREM Typed == Spec => []TypeOK
  <1>1. TypeOK /\ Placed /\ [Next]_vars => (TypeOK /\ Placed)'
    BY TypeOKStep
  <1> QED
    BY <1>1, TypeOKInit, PTL DEF Spec

(***************************************************************************)
(* The inductive invariant, one conjunct per guarantee.  here(r) is the    *)
(* occurrence the run is at: the turn and the place in its batch.          *)
(***************************************************************************)
here(r) == <<step[r], next[r]>>
BeforeLoop == {"idle", "runStarted", "skillSelected", "resolving"}
BetweenCalls == {"loop", "callModel", "generating", "modelCompleted", "decide"}
Asking == {"nextCall", "toolStarted", "authorizing"}
Permitted == {"granted", "callTool", "executing", "toolCompleted"}

(* What is left of the budget covers what is left of the batch: the reason *)
(* why comparing the whole batch with the remainder once, before its first *)
(* call, is enough.                                                        *)
Funded(r) ==
    /\ toolCalls[r] <= MaxToolCalls
    /\ Len(effects[r]) + (IF pc[r] = "callTool" THEN 1 ELSE 0) = toolCalls[r]
    /\ pc[r] \in Asking \cup {"granted"} =>
          toolCalls[r] + Len(turn[r].calls) + 1 <= MaxToolCalls + next[r]
    /\ pc[r] \in Permitted \ {"granted"} =>
          toolCalls[r] + Len(turn[r].calls) <= MaxToolCalls + next[r]

(* The batch in hand is in scope, and what is in scope is registered.      *)
Scoped(r) ==
    /\ scope[r] \subseteq registered
    /\ pc[r] \in Asking \cup Permitted => withinScope(r)

(* Permissions follow the position of the run: none before the loop, only  *)
(* earlier ones until the authorizer accepts the present call, then that   *)
(* call too.                                                               *)
Positioned(r) ==
    /\ pc[r] \in BeforeLoop => grants[r] = {}
    /\ pc[r] \in BetweenCalls => \A o \in grants[r] : o[1] < step[r]
    /\ pc[r] \in Asking => \A o \in grants[r] : Before(o, here(r))
    /\ pc[r] \in Permitted => here(r) \in grants[r]
                              /\ \A o \in grants[r] : Before(o, here(r)) \/ o = here(r)
    /\ outcome[r] = "resolve" => grants[r] = {}
    /\ outcome[r] \in {"toolCallLimit", "notSelected"} => \A o \in grants[r] : o[1] # step[r]

(* Executions are a part of the permissions, in their order.               *)
Executed(r) ==
    /\ \A i \in DOMAIN effects[r] : effects[r][i] \in grants[r] \ lateGrants[r]
    /\ pc[r] \in {"granted", "callTool"} => \A i \in DOMAIN effects[r] : Before(effects[r][i], here(r))
    /\ \A i, j \in DOMAIN effects[r] : i < j => Before(effects[r][i], effects[r][j])

(* A late permission presupposes a context that is done, and the run is    *)
(* past its last check only with one that is not late.                     *)
Cancelled(r) ==
    /\ lateGrants[r] # {} => done[r]
    /\ pc[r] = "callTool" => here(r) \notin lateGrants[r]
    /\ lateStarts[r] <= 1
    /\ lateStarts[r] > 0 =>
          done[r] /\ pc[r] \in {"generating", "executing", "toolCompleted", "nextCall", "loop", "ended"}

Returned(r) == pc[r] = "ended" <=> outcome[r] # "none"

Facts(r) == Funded(r) /\ Scoped(r) /\ Positioned(r) /\ Executed(r) /\ Cancelled(r) /\ Returned(r)

Inv == \A r \in Runs : Facts(r)

LEMMA InvInit == Init => Inv
  <1> SUFFICES ASSUME Init, NEW r \in Runs PROVE Facts(r)
    BY DEF Inv
  <1>1. Funded(r)
    BY ConfigAssumption DEF Init, Funded, Asking, Permitted
  <1>2. Scoped(r)
    BY DEF Init, Scoped, Asking, Permitted
  <1>3. Positioned(r) /\ Executed(r)
    BY DEF Init, Positioned, Executed, BetweenCalls, Asking, Permitted
  <1>4. Cancelled(r) /\ Returned(r)
    BY DEF Init, Cancelled, Returned
  <1> QED
    BY <1>1, <1>2, <1>3, <1>4 DEF Facts

(***************************************************************************)
(* A step of one run leaves the facts of the others alone: runs share only *)
(* the counter and the registry, and the registry only grows.              *)
(***************************************************************************)
Same(q) ==
    /\ registered \subseteq registered'
    /\ done'[q] = done[q] /\ pc'[q] = pc[q] /\ outcome'[q] = outcome[q]
    /\ scope'[q] = scope[q] /\ step'[q] = step[q] /\ turn'[q] = turn[q] /\ next'[q] = next[q]
    /\ toolCalls'[q] = toolCalls[q] /\ grants'[q] = grants[q] /\ lateGrants'[q] = lateGrants[q]
    /\ effects'[q] = effects[q] /\ lateStarts'[q] = lateStarts[q]

LEMMA SameKeeps ==
    ASSUME NEW q \in Runs, Facts(q), Same(q)
    PROVE  Facts(q)'
  <1>1. Funded(q)'
    BY DEF Facts, Funded, Same
  <1>2. Scoped(q)'
    BY DEF Facts, Scoped, Same, withinScope
  <1>3. Positioned(q)'
    BY DEF Facts, Positioned, Same, here
  <1>4. Executed(q)'
    BY DEF Facts, Executed, Same, here
  <1>5. Cancelled(q)' /\ Returned(q)'
    BY DEF Facts, Cancelled, Returned, Same, here
  <1> QED
    BY <1>1, <1>2, <1>3, <1>4, <1>5 DEF Facts

LEMMA InvStep ==
    ASSUME TypeOK, Placed, Inv, [Next]_vars
    PROVE  Inv'
  <1> USE ConfigAssumption
  <1>1. ASSUME NEW r \in Runs, NEW s \in Skills, Begin(r, s) PROVE Facts(r)' /\ \A q \in Runs \ {r} : Same(q)
    <2>0. Facts(r)
      BY DEF Inv
    <2>1. Funded(r)'
      BY <1>1, <2>0 DEF Begin, Goto, Facts, Funded, Asking, Permitted, TypeOK
    <2>2. Scoped(r)'
      BY <1>1, <2>0 DEF Begin, Goto, Facts, Scoped, withinScope, Asking, Permitted, TypeOK
    <2>3. Positioned(r)'
      BY <1>1, <2>0 DEF Begin, Goto, Facts, Positioned, here, Before, BeforeLoop, BetweenCalls, Asking, Permitted, TypeOK
    <2>4. Executed(r)'
      BY <1>1, <2>0 DEF Begin, Goto, Facts, Executed, here, Before, TypeOK
    <2>5. Cancelled(r)'
      BY <1>1, <2>0 DEF Begin, Goto, Facts, Cancelled, here, TypeOK
    <2>6. Returned(r)'
      BY <1>1, <2>0 DEF Begin, Goto, Facts, Returned, TypeOK
    <2>7. \A q \in Runs \ {r} : Same(q)
      BY <1>1 DEF Begin, Goto, Same, TypeOK
    <2> QED
      BY <2>1, <2>2, <2>3, <2>4, <2>5, <2>6, <2>7 DEF Facts
  <1>2. ASSUME NEW r \in Runs,
               BeginRefused(r) \/ Refuse(r) \/ CallFails(r) \/ ModelReturnsLate(r)
        PROVE  Facts(r)' /\ \A q \in Runs \ {r} : Same(q)
    <2>0. Facts(r)
      BY DEF Inv
    <2>1. PICK why \in Outcomes \ {"none", "answered"} : outcome' = [outcome EXCEPT ![r] = why]
      BY <1>2, ErrorEnds
    <2>2. pc' = [pc EXCEPT ![r] = "ended"] /\ UNCHANGED others
      BY <1>2, ErrorEnds
    <2>3. pc'[r] = "ended" /\ outcome'[r] = why
      BY <2>1, <2>2 DEF TypeOK
    <2>4. Funded(r)' /\ Scoped(r)'
      <3>1. pc[r] # "callTool"
        BY <1>2 DEF BeginRefused, Refuse, Errs, CallFails, ModelReturnsLate, Awaiting, Publishing
      <3> QED
        BY <2>0, <2>2, <2>3, <3>1 DEF others, Facts, Funded, Scoped, Asking, Permitted
    <2>5. Positioned(r)'
      <3>1. grants' = grants /\ step' = step
        BY <2>2 DEF others
      <3>2. ASSUME Refuse(r) PROVE Errs(r, why)
        BY <2>3, <3>2 DEF Refuse, Return, TypeOK
      <3>3. ASSUME ~Refuse(r) PROVE why \notin {"resolve", "toolCallLimit", "notSelected"}
        <4>1. Failure(pc[r]) \notin {"resolve", "toolCallLimit", "notSelected"}
          BY DEF Failure
        <4> QED
          BY <1>2, <2>3, <3>3, <4>1 DEF BeginRefused, CallFails, ModelReturnsLate, Return, TypeOK
      <3>4. ASSUME why = "resolve" PROVE grants[r] = {}
        <4>1. Errs(r, "resolve")
          BY <3>2, <3>3, <3>4
        <4>2. pc[r] = "resolving" \/ (pc[r] = "granted" /\ current(r).tool \notin registered)
          BY <4>1 DEF Errs
        <4>3. ~(pc[r] = "granted" /\ current(r).tool \notin registered)
          BY <2>0, CallsTyped DEF Facts, Scoped, Permitted, withinScope, current, Placed, InCall
        <4> QED
          BY <2>0, <4>2, <4>3 DEF Facts, Positioned, BeforeLoop
      <3>5. ASSUME why \in {"toolCallLimit", "notSelected"}
            PROVE  \A o \in grants[r] : o[1] # step[r]
        <4>1. pc[r] = "decide"
          BY <3>2, <3>3, <3>5 DEF Errs
        <4>2. \A o \in grants[r] : o[1] < step[r]
          BY <2>0, <4>1 DEF Facts, Positioned, BetweenCalls
        <4> QED
          BY <4>2 DEF TypeOK
      <3> QED
        BY <2>3, <3>1, <3>4, <3>5 DEF Positioned, BeforeLoop, BetweenCalls, Asking, Permitted
    <2>6. Executed(r)' /\ Cancelled(r)' /\ Returned(r)'
      BY <2>0, <2>1, <2>2, <2>3 DEF others, Facts, Executed, Cancelled, Returned
    <2>7. \A q \in Runs \ {r} : Same(q)
      BY <2>1, <2>2 DEF others, Same, TypeOK
    <2> QED
      BY <2>4, <2>5, <2>6, <2>7 DEF Facts
  <1>3. ASSUME NEW r \in Runs, CtxDone(r) PROVE Facts(r)' /\ \A q \in Runs \ {r} : Same(q)
    <2>0. Facts(r)
      BY DEF Inv
    <2>1. Funded(r)'
      BY <1>3, <2>0 DEF CtxDone, Facts, Funded, Asking, Permitted, TypeOK
    <2>2. Scoped(r)'
      BY <1>3, <2>0 DEF CtxDone, Facts, Scoped, withinScope, Asking, Permitted, TypeOK
    <2>3. Positioned(r)'
      BY <1>3, <2>0 DEF CtxDone, Facts, Positioned, here, Before, BeforeLoop, BetweenCalls, Asking, Permitted, TypeOK
    <2>4. Executed(r)'
      BY <1>3, <2>0 DEF CtxDone, Facts, Executed, here, Before, TypeOK
    <2>5. Cancelled(r)'
      BY <1>3, <2>0 DEF CtxDone, Facts, Cancelled, here, TypeOK
    <2>6. Returned(r)'
      BY <1>3, <2>0 DEF CtxDone, Facts, Returned, TypeOK
    <2>7. \A q \in Runs \ {r} : Same(q)
      BY <1>3 DEF CtxDone, Same, TypeOK
    <2> QED
      BY <2>1, <2>2, <2>3, <2>4, <2>5, <2>6, <2>7 DEF Facts
  <1>4. ASSUME NEW r \in Runs, ResolveTools(r) PROVE Facts(r)' /\ \A q \in Runs \ {r} : Same(q)
    <2>0. Facts(r)
      BY DEF Inv
    <2>1. Funded(r)'
      BY <1>4, <2>0 DEF ResolveTools, Goto, resolvable, Facts, Funded, Asking, Permitted, TypeOK
    <2>2. Scoped(r)'
      BY <1>4, <2>0 DEF ResolveTools, Goto, resolvable, Facts, Scoped, withinScope, Asking, Permitted, TypeOK
    <2>3. Positioned(r)'
      BY <1>4, <2>0 DEF ResolveTools, Goto, resolvable, Facts, Positioned, here, Before, BeforeLoop, BetweenCalls, Asking, Permitted, TypeOK
    <2>4. Executed(r)'
      BY <1>4, <2>0 DEF ResolveTools, Goto, resolvable, Facts, Executed, here, Before, TypeOK
    <2>5. Cancelled(r)'
      BY <1>4, <2>0 DEF ResolveTools, Goto, resolvable, Facts, Cancelled, here, TypeOK
    <2>6. Returned(r)'
      BY <1>4, <2>0 DEF ResolveTools, Goto, resolvable, Facts, Returned, TypeOK
    <2>7. \A q \in Runs \ {r} : Same(q)
      BY <1>4 DEF ResolveTools, Goto, resolvable, Same, TypeOK
    <2> QED
      BY <2>1, <2>2, <2>3, <2>4, <2>5, <2>6, <2>7 DEF Facts
  <1>5. ASSUME NEW r \in Runs, EnterLoop(r) PROVE Facts(r)' /\ \A q \in Runs \ {r} : Same(q)
    <2>0. Facts(r)
      BY DEF Inv
    <2>1. Funded(r)'
      BY <1>5, <2>0 DEF EnterLoop, Goto, others, Facts, Funded, Asking, Permitted, TypeOK
    <2>2. Scoped(r)'
      BY <1>5, <2>0 DEF EnterLoop, Goto, others, Facts, Scoped, withinScope, Asking, Permitted, TypeOK
    <2>3. Positioned(r)'
      BY <1>5, <2>0 DEF EnterLoop, Goto, others, Facts, Positioned, here, Before, BeforeLoop, BetweenCalls, Asking, Permitted, TypeOK
    <2>4. Executed(r)'
      BY <1>5, <2>0 DEF EnterLoop, Goto, others, Facts, Executed, here, Before, TypeOK
    <2>5. Cancelled(r)'
      BY <1>5, <2>0 DEF EnterLoop, Goto, others, Facts, Cancelled, here, TypeOK
    <2>6. Returned(r)'
      BY <1>5, <2>0 DEF EnterLoop, Goto, others, Facts, Returned, TypeOK
    <2>7. \A q \in Runs \ {r} : Same(q)
      BY <1>5 DEF EnterLoop, Goto, others, Same, TypeOK
    <2> QED
      BY <2>1, <2>2, <2>3, <2>4, <2>5, <2>6, <2>7 DEF Facts
  <1>6. ASSUME NEW r \in Runs, CallModel(r) PROVE Facts(r)' /\ \A q \in Runs \ {r} : Same(q)
    <2>0. Facts(r)
      BY DEF Inv
    <2>1. Funded(r)'
      BY <1>6, <2>0 DEF CallModel, Goto, CountLate, Facts, Funded, Asking, Permitted, TypeOK
    <2>2. Scoped(r)'
      BY <1>6, <2>0 DEF CallModel, Goto, CountLate, Facts, Scoped, withinScope, Asking, Permitted, TypeOK
    <2>3. Positioned(r)'
      BY <1>6, <2>0 DEF CallModel, Goto, CountLate, Facts, Positioned, here, Before, BeforeLoop, BetweenCalls, Asking, Permitted, TypeOK
    <2>4. Executed(r)'
      BY <1>6, <2>0 DEF CallModel, Goto, CountLate, Facts, Executed, here, Before, TypeOK
    <2>5. Cancelled(r)'
      BY <1>6, <2>0 DEF CallModel, Goto, CountLate, Facts, Cancelled, here, TypeOK
    <2>6. Returned(r)'
      BY <1>6, <2>0 DEF CallModel, Goto, CountLate, Facts, Returned, TypeOK
    <2>7. \A q \in Runs \ {r} : Same(q)
      BY <1>6 DEF CallModel, Goto, CountLate, Same, TypeOK
    <2> QED
      BY <2>1, <2>2, <2>3, <2>4, <2>5, <2>6, <2>7 DEF Facts
  <1>7. ASSUME NEW r \in Runs, NEW t \in Turns, ModelReturns(r, t) PROVE Facts(r)' /\ \A q \in Runs \ {r} : Same(q)
    <2>0. Facts(r)
      BY DEF Inv
    <2>1. Funded(r)'
      BY <1>7, <2>0 DEF ModelReturns, Goto, Facts, Funded, Asking, Permitted, TypeOK
    <2>2. Scoped(r)'
      BY <1>7, <2>0 DEF ModelReturns, Goto, Facts, Scoped, withinScope, Asking, Permitted, TypeOK
    <2>3. Positioned(r)'
      BY <1>7, <2>0 DEF ModelReturns, Goto, Facts, Positioned, here, Before, BeforeLoop, BetweenCalls, Asking, Permitted, TypeOK
    <2>4. Executed(r)'
      BY <1>7, <2>0 DEF ModelReturns, Goto, Facts, Executed, here, Before, TypeOK
    <2>5. Cancelled(r)'
      BY <1>7, <2>0 DEF ModelReturns, Goto, Facts, Cancelled, here, TypeOK
    <2>6. Returned(r)'
      BY <1>7, <2>0 DEF ModelReturns, Goto, Facts, Returned, TypeOK
    <2>7. \A q \in Runs \ {r} : Same(q)
      BY <1>7 DEF ModelReturns, Goto, Same, TypeOK
    <2> QED
      BY <2>1, <2>2, <2>3, <2>4, <2>5, <2>6, <2>7 DEF Facts
  <1>8. ASSUME NEW r \in Runs, TakeAnswer(r) PROVE Facts(r)' /\ \A q \in Runs \ {r} : Same(q)
    <2>0. Facts(r)
      BY DEF Inv
    <2>1. Funded(r)'
      BY <1>8, <2>0 DEF TakeAnswer, Goto, others, Facts, Funded, Asking, Permitted, TypeOK
    <2>2. Scoped(r)'
      BY <1>8, <2>0 DEF TakeAnswer, Goto, others, Facts, Scoped, withinScope, Asking, Permitted, TypeOK
    <2>3. Positioned(r)'
      BY <1>8, <2>0 DEF TakeAnswer, Goto, others, Facts, Positioned, here, Before, BeforeLoop, BetweenCalls, Asking, Permitted, TypeOK
    <2>4. Executed(r)'
      BY <1>8, <2>0 DEF TakeAnswer, Goto, others, Facts, Executed, here, Before, TypeOK
    <2>5. Cancelled(r)'
      BY <1>8, <2>0 DEF TakeAnswer, Goto, others, Facts, Cancelled, here, TypeOK
    <2>6. Returned(r)'
      BY <1>8, <2>0 DEF TakeAnswer, Goto, others, Facts, Returned, TypeOK
    <2>7. \A q \in Runs \ {r} : Same(q)
      BY <1>8 DEF TakeAnswer, Goto, others, Same, TypeOK
    <2> QED
      BY <2>1, <2>2, <2>3, <2>4, <2>5, <2>6, <2>7 DEF Facts
  <1>9. ASSUME NEW r \in Runs, TakeBatch(r) PROVE Facts(r)' /\ \A q \in Runs \ {r} : Same(q)
    <2>0. Facts(r)
      BY DEF Inv
    <2>1. Funded(r)'
      BY <1>9, <2>0 DEF TakeBatch, Goto, withinBudget, Facts, Funded, Asking, Permitted, TypeOK
    <2>2. Scoped(r)'
      BY <1>9, <2>0 DEF TakeBatch, Goto, withinBudget, Facts, Scoped, withinScope, Asking, Permitted, TypeOK
    <2>3. Positioned(r)'
      BY <1>9, <2>0 DEF TakeBatch, Goto, withinBudget, Facts, Positioned, here, Before, BeforeLoop, BetweenCalls, Asking, Permitted, TypeOK
    <2>4. Executed(r)'
      BY <1>9, <2>0 DEF TakeBatch, Goto, withinBudget, Facts, Executed, here, Before, TypeOK
    <2>5. Cancelled(r)'
      BY <1>9, <2>0 DEF TakeBatch, Goto, withinBudget, Facts, Cancelled, here, TypeOK
    <2>6. Returned(r)'
      BY <1>9, <2>0 DEF TakeBatch, Goto, withinBudget, Facts, Returned, TypeOK
    <2>7. \A q \in Runs \ {r} : Same(q)
      BY <1>9 DEF TakeBatch, Goto, withinBudget, Same, TypeOK
    <2> QED
      BY <2>1, <2>2, <2>3, <2>4, <2>5, <2>6, <2>7 DEF Facts
  <1>10. ASSUME NEW r \in Runs, FinishBatch(r) PROVE Facts(r)' /\ \A q \in Runs \ {r} : Same(q)
    <2>0. Facts(r)
      BY DEF Inv
    <2>1. Funded(r)'
      BY <1>10, <2>0 DEF FinishBatch, Goto, Facts, Funded, Asking, Permitted, TypeOK
    <2>2. Scoped(r)'
      BY <1>10, <2>0 DEF FinishBatch, Goto, Facts, Scoped, withinScope, Asking, Permitted, TypeOK
    <2>3. Positioned(r)'
      <3>1. pc' = [pc EXCEPT ![r] = "loop"] /\ outcome' = outcome
        BY <1>10 DEF FinishBatch, Goto
      <3>2. grants' = grants /\ step'[r] = step[r] + 1
        BY <1>10 DEF FinishBatch, TypeOK
      <3>3. \A o \in grants[r] : o[1] < step[r] + 1
        <4>1. \A o \in grants[r] : Before(o, here(r))
          BY <1>10, <2>0 DEF FinishBatch, Facts, Positioned, Asking
        <4>2. grants[r] \subseteq Occurrence /\ step[r] \in Nat
          BY DEF TypeOK
        <4> QED
          BY <4>1, <4>2 DEF Before, here, Occurrence
      <3>4. /\ outcome[r] # "resolve"
            /\ outcome[r] \notin {"toolCallLimit", "notSelected"}
        BY <1>10, <2>0 DEF FinishBatch, Facts, Returned
      <3> QED
        BY <3>1, <3>2, <3>3, <3>4 DEF Positioned, BeforeLoop, BetweenCalls, Asking, Permitted, TypeOK
    <2>4. Executed(r)'
      BY <1>10, <2>0 DEF FinishBatch, Goto, Facts, Executed, here, Before, TypeOK
    <2>5. Cancelled(r)'
      BY <1>10, <2>0 DEF FinishBatch, Goto, Facts, Cancelled, here, TypeOK
    <2>6. Returned(r)'
      BY <1>10, <2>0 DEF FinishBatch, Goto, Facts, Returned, TypeOK
    <2>7. \A q \in Runs \ {r} : Same(q)
      BY <1>10 DEF FinishBatch, Goto, Same, TypeOK
    <2> QED
      BY <2>1, <2>2, <2>3, <2>4, <2>5, <2>6, <2>7 DEF Facts
  <1>11. ASSUME NEW r \in Runs, StartCall(r) PROVE Facts(r)' /\ \A q \in Runs \ {r} : Same(q)
    <2>0. Facts(r)
      BY DEF Inv
    <2>1. Funded(r)'
      BY <1>11, <2>0 DEF StartCall, Goto, pending, Facts, Funded, Asking, Permitted, TypeOK
    <2>2. Scoped(r)'
      BY <1>11, <2>0 DEF StartCall, Goto, pending, Facts, Scoped, withinScope, Asking, Permitted, TypeOK
    <2>3. Positioned(r)'
      BY <1>11, <2>0 DEF StartCall, Goto, pending, Facts, Positioned, here, Before, BeforeLoop, BetweenCalls, Asking, Permitted, TypeOK
    <2>4. Executed(r)'
      BY <1>11, <2>0 DEF StartCall, Goto, pending, Facts, Executed, here, Before, TypeOK
    <2>5. Cancelled(r)'
      BY <1>11, <2>0 DEF StartCall, Goto, pending, Facts, Cancelled, here, TypeOK
    <2>6. Returned(r)'
      BY <1>11, <2>0 DEF StartCall, Goto, pending, Facts, Returned, TypeOK
    <2>7. \A q \in Runs \ {r} : Same(q)
      BY <1>11 DEF StartCall, Goto, pending, Same, TypeOK
    <2> QED
      BY <2>1, <2>2, <2>3, <2>4, <2>5, <2>6, <2>7 DEF Facts
  <1>12. ASSUME NEW r \in Runs, Published(r) PROVE Facts(r)' /\ \A q \in Runs \ {r} : Same(q)
    <2>0. Facts(r)
      BY DEF Inv
    <2>1. Funded(r)'
      <3>1. /\ pc[r] \in {"runStarted", "skillSelected", "modelCompleted", "toolStarted"}
            /\ pc'[r] \in {"skillSelected", "resolving", "decide", "authorizing"}
            /\ pc'[r] = "authorizing" => pc[r] = "toolStarted"
        BY <1>12 DEF Published, Goto, After, TypeOK
      <3>2. toolCalls' = toolCalls /\ effects' = effects /\ turn' = turn /\ next' = next
        BY <1>12 DEF Published
      <3> QED
        BY <2>0, <3>1, <3>2 DEF Facts, Funded, Asking, Permitted
    <2>2. Scoped(r)'
      BY <1>12, <2>0 DEF Published, Goto, Acknowledge, After, Facts, Scoped, withinScope, Asking, Permitted, TypeOK
    <2>3. Positioned(r)'
      BY <1>12, <2>0 DEF Published, Goto, Acknowledge, After, Facts, Positioned, here, Before, BeforeLoop, BetweenCalls, Asking, Permitted, TypeOK
    <2>4. Executed(r)'
      BY <1>12, <2>0 DEF Published, Goto, Acknowledge, After, Facts, Executed, here, Before, TypeOK
    <2>5. Cancelled(r)'
      BY <1>12, <2>0 DEF Published, Goto, Acknowledge, After, Facts, Cancelled, here, TypeOK
    <2>6. Returned(r)'
      BY <1>12, <2>0 DEF Published, Goto, Acknowledge, After, Facts, Returned, TypeOK
    <2>7. \A q \in Runs \ {r} : Same(q)
      BY <1>12 DEF Published, Goto, Acknowledge, After, Same, TypeOK
    <2> QED
      BY <2>1, <2>2, <2>3, <2>4, <2>5, <2>6, <2>7 DEF Facts
  <1>13. ASSUME NEW r \in Runs, AuthorizerAccepts(r) PROVE Facts(r)' /\ \A q \in Runs \ {r} : Same(q)
    <2>0. Facts(r)
      BY DEF Inv
    <2>1. Funded(r)'
      BY <1>13, <2>0 DEF AuthorizerAccepts, Goto, Facts, Funded, Asking, Permitted, TypeOK
    <2>2. Scoped(r)'
      BY <1>13, <2>0 DEF AuthorizerAccepts, Goto, Facts, Scoped, withinScope, Asking, Permitted, TypeOK
    <2>3. Positioned(r)'
      <3>1. pc'[r] = "granted" /\ outcome'[r] = outcome[r] /\ here(r)' = here(r)
        BY <1>13 DEF AuthorizerAccepts, Goto, here, TypeOK
      <3>2. grants'[r] = grants[r] \cup {here(r)}
        BY <1>13 DEF AuthorizerAccepts, here, TypeOK
      <3>3. \A o \in grants[r] : Before(o, here(r))
        BY <1>13, <2>0 DEF AuthorizerAccepts, Facts, Positioned, Asking
      <3>4. outcome[r] = "none"
        BY <1>13, <2>0 DEF AuthorizerAccepts, Facts, Returned
      <3> QED
        BY <3>1, <3>2, <3>3, <3>4 DEF Positioned, BeforeLoop, BetweenCalls, Asking, Permitted
    <2>4. Executed(r)'
      <3>1. pc'[r] = "granted" /\ effects'[r] = effects[r] /\ here(r)' = here(r)
        BY <1>13 DEF AuthorizerAccepts, Goto, here, TypeOK
      <3>2. grants[r] \subseteq grants'[r] /\ lateGrants'[r] \subseteq lateGrants[r] \cup {here(r)}
        BY <1>13 DEF AuthorizerAccepts, here, TypeOK
      <3>3. \A i \in DOMAIN effects[r] : Before(effects[r][i], here(r))
        BY <1>13, <2>0 DEF AuthorizerAccepts, Facts, Positioned, Executed, Asking
      <3>4. ~Before(here(r), here(r))
        BY DEF Before, here, TypeOK
      <3> QED
        BY <2>0, <3>1, <3>2, <3>3, <3>4 DEF Facts, Executed
    <2>5. Cancelled(r)'
      BY <1>13, <2>0 DEF AuthorizerAccepts, Goto, Facts, Cancelled, here, TypeOK
    <2>6. Returned(r)'
      BY <1>13, <2>0 DEF AuthorizerAccepts, Goto, Facts, Returned, TypeOK
    <2>7. \A q \in Runs \ {r} : Same(q)
      BY <1>13 DEF AuthorizerAccepts, Goto, Same, TypeOK
    <2> QED
      BY <2>1, <2>2, <2>3, <2>4, <2>5, <2>6, <2>7 DEF Facts
  <1>14. ASSUME NEW r \in Runs, PassCheck(r) PROVE Facts(r)' /\ \A q \in Runs \ {r} : Same(q)
    <2>0. Facts(r)
      BY DEF Inv
    <2>1. Funded(r)'
      <3>1. pc'[r] = "callTool" /\ toolCalls'[r] = toolCalls[r] + 1
        BY <1>14 DEF PassCheck, Goto, TypeOK
      <3>2. effects'[r] = effects[r] /\ turn'[r] = turn[r] /\ next'[r] = next[r]
        BY <1>14 DEF PassCheck
      <3>3. next[r] \in 1..Len(turn[r].calls) /\ pc[r] = "granted"
        BY <1>14 DEF PassCheck, Placed, InCall
      <3>4. /\ Len(effects[r]) = toolCalls[r]
            /\ toolCalls[r] + Len(turn[r].calls) + 1 <= MaxToolCalls + next[r]
        BY <2>0, <3>3 DEF Facts, Funded, Asking
      <3>5. toolCalls[r] \in Nat /\ next[r] \in Nat /\ Len(turn[r].calls) \in Nat
        BY CallsTyped DEF TypeOK
      <3> QED
        BY <3>1, <3>2, <3>3, <3>4, <3>5, SMTT(30) DEF Funded, Asking, Permitted
    <2>2. Scoped(r)'
      BY <1>14, <2>0 DEF PassCheck, Goto, Facts, Scoped, withinScope, Asking, Permitted, TypeOK
    <2>3. Positioned(r)'
      BY <1>14, <2>0 DEF PassCheck, Goto, Facts, Positioned, here, Before, BeforeLoop, BetweenCalls, Asking, Permitted, TypeOK
    <2>4. Executed(r)'
      BY <1>14, <2>0 DEF PassCheck, Goto, Facts, Executed, here, Before, TypeOK
    <2>5. Cancelled(r)'
      BY <1>14, <2>0 DEF PassCheck, Goto, Facts, Cancelled, here, TypeOK
    <2>6. Returned(r)'
      BY <1>14, <2>0 DEF PassCheck, Goto, Facts, Returned, TypeOK
    <2>7. \A q \in Runs \ {r} : Same(q)
      BY <1>14 DEF PassCheck, Goto, Same, TypeOK
    <2> QED
      BY <2>1, <2>2, <2>3, <2>4, <2>5, <2>6, <2>7 DEF Facts
  <1>15. ASSUME NEW r \in Runs, CallTool(r) PROVE Facts(r)' /\ \A q \in Runs \ {r} : Same(q)
    <2>0. Facts(r)
      BY DEF Inv
    <2>1. Funded(r)'
      BY <1>15, <2>0 DEF CallTool, Goto, CountLate, Facts, Funded, Asking, Permitted, TypeOK
    <2>2. Scoped(r)'
      BY <1>15, <2>0 DEF CallTool, Goto, CountLate, Facts, Scoped, withinScope, Asking, Permitted, TypeOK
    <2>3. Positioned(r)'
      BY <1>15, <2>0 DEF CallTool, Goto, CountLate, Facts, Positioned, here, Before, BeforeLoop, BetweenCalls, Asking, Permitted, TypeOK
    <2>4. Executed(r)'
      <3>1. /\ pc'[r] = "executing" /\ effects'[r] = Append(effects[r], here(r))
            /\ grants' = grants /\ lateGrants' = lateGrants
        BY <1>15 DEF CallTool, Goto, here, TypeOK
      <3>2. here(r) \in grants[r] \ lateGrants[r]
        BY <1>15, <2>0 DEF CallTool, Facts, Positioned, Cancelled, Permitted
      <3>3. /\ \A i \in DOMAIN effects[r] : effects[r][i] \in grants[r] \ lateGrants[r]
            /\ \A i \in DOMAIN effects[r] : Before(effects[r][i], here(r))
            /\ \A i, j \in DOMAIN effects[r] : i < j => Before(effects[r][i], effects[r][j])
        BY <1>15, <2>0 DEF CallTool, Facts, Executed
      <3>4. effects[r] \in Seq(Occurrence)
        BY DEF TypeOK
      <3>5. /\ DOMAIN effects'[r] = 1..Len(effects[r]) + 1
            /\ DOMAIN effects[r] = 1..Len(effects[r])
            /\ Len(effects[r]) \in Nat
            /\ \A i \in 1..Len(effects[r]) : effects'[r][i] = effects[r][i]
            /\ effects'[r][Len(effects[r]) + 1] = here(r)
        BY <3>1, <3>4
      <3>6. \A i \in DOMAIN effects'[r] : i \in DOMAIN effects[r] \/ i = Len(effects[r]) + 1
        BY <3>5
      <3>7. \A i \in DOMAIN effects'[r] : effects'[r][i] \in grants[r] \ lateGrants[r]
        BY <3>2, <3>3, <3>5, <3>6
      <3>8. \A i, j \in DOMAIN effects'[r] : i < j => Before(effects'[r][i], effects'[r][j])
        <4> SUFFICES ASSUME NEW i \in DOMAIN effects'[r], NEW j \in DOMAIN effects'[r], i < j
                     PROVE  Before(effects'[r][i], effects'[r][j])
          OBVIOUS
        <4>1. i \in DOMAIN effects[r]
          BY <3>5
        <4>2. CASE j \in DOMAIN effects[r]
          BY <3>3, <3>5, <4>1, <4>2
        <4>3. CASE j = Len(effects[r]) + 1
          BY <3>3, <3>5, <4>1, <4>3
        <4> QED
          BY <3>6, <4>2, <4>3
      <3> QED
        BY <3>1, <3>7, <3>8 DEF Executed
    <2>5. Cancelled(r)'
      BY <1>15, <2>0 DEF CallTool, Goto, CountLate, Facts, Cancelled, here, TypeOK
    <2>6. Returned(r)'
      BY <1>15, <2>0 DEF CallTool, Goto, CountLate, Facts, Returned, TypeOK
    <2>7. \A q \in Runs \ {r} : Same(q)
      BY <1>15 DEF CallTool, Goto, CountLate, Same, TypeOK
    <2> QED
      BY <2>1, <2>2, <2>3, <2>4, <2>5, <2>6, <2>7 DEF Facts
  <1>16. ASSUME NEW r \in Runs, ToolReturns(r) PROVE Facts(r)' /\ \A q \in Runs \ {r} : Same(q)
    <2>0. Facts(r)
      BY DEF Inv
    <2>1. Funded(r)'
      BY <1>16, <2>0 DEF ToolReturns, Goto, Facts, Funded, Asking, Permitted, TypeOK
    <2>2. Scoped(r)'
      BY <1>16, <2>0 DEF ToolReturns, Goto, Facts, Scoped, withinScope, Asking, Permitted, TypeOK
    <2>3. Positioned(r)'
      BY <1>16, <2>0 DEF ToolReturns, Goto, Facts, Positioned, here, Before, BeforeLoop, BetweenCalls, Asking, Permitted, TypeOK
    <2>4. Executed(r)'
      BY <1>16, <2>0 DEF ToolReturns, Goto, Facts, Executed, here, Before, TypeOK
    <2>5. Cancelled(r)'
      BY <1>16, <2>0 DEF ToolReturns, Goto, Facts, Cancelled, here, TypeOK
    <2>6. Returned(r)'
      BY <1>16, <2>0 DEF ToolReturns, Goto, Facts, Returned, TypeOK
    <2>7. \A q \in Runs \ {r} : Same(q)
      BY <1>16 DEF ToolReturns, Goto, Same, TypeOK
    <2> QED
      BY <2>1, <2>2, <2>3, <2>4, <2>5, <2>6, <2>7 DEF Facts
  <1>17. ASSUME NEW r \in Runs, ToolCompletedPublished(r) PROVE Facts(r)' /\ \A q \in Runs \ {r} : Same(q)
    <2>0. Facts(r)
      BY DEF Inv
    <2>1. Funded(r)'
      BY <1>17, <2>0 DEF ToolCompletedPublished, Goto, Acknowledge, Facts, Funded, Asking, Permitted, TypeOK
    <2>2. Scoped(r)'
      BY <1>17, <2>0 DEF ToolCompletedPublished, Goto, Acknowledge, Facts, Scoped, withinScope, Asking, Permitted, TypeOK
    <2>3. Positioned(r)'
      <3>1. /\ pc'[r] = "nextCall" /\ outcome' = outcome /\ grants' = grants
            /\ here(r)' = <<step[r], next[r] + 1>>
        BY <1>17 DEF ToolCompletedPublished, Goto, here, TypeOK
      <3>2. \A o \in grants[r] : Before(o, here(r)) \/ o = here(r)
        BY <1>17, <2>0 DEF ToolCompletedPublished, Facts, Positioned, Permitted
      <3>3. \A o \in grants[r] : Before(o, <<step[r], next[r] + 1>>)
        BY <3>2 DEF Before, here, Occurrence, TypeOK
      <3>4. outcome[r] = "none"
        BY <1>17, <2>0 DEF ToolCompletedPublished, Facts, Returned
      <3> QED
        BY <3>1, <3>3, <3>4 DEF Positioned, BeforeLoop, BetweenCalls, Asking, Permitted
    <2>4. Executed(r)'
      BY <1>17, <2>0 DEF ToolCompletedPublished, Goto, Acknowledge, Facts, Executed, here, Before, TypeOK
    <2>5. Cancelled(r)'
      BY <1>17, <2>0 DEF ToolCompletedPublished, Goto, Acknowledge, Facts, Cancelled, here, TypeOK
    <2>6. Returned(r)'
      BY <1>17, <2>0 DEF ToolCompletedPublished, Goto, Acknowledge, Facts, Returned, TypeOK
    <2>7. \A q \in Runs \ {r} : Same(q)
      BY <1>17 DEF ToolCompletedPublished, Goto, Acknowledge, Same, TypeOK
    <2> QED
      BY <2>1, <2>2, <2>3, <2>4, <2>5, <2>6, <2>7 DEF Facts
  <1>18. ASSUME NEW r \in Runs, RunCompletedPublished(r) PROVE Facts(r)' /\ \A q \in Runs \ {r} : Same(q)
    <2>0. Facts(r)
      BY DEF Inv
    <2>1. Funded(r)'
      BY <1>18, <2>0 DEF RunCompletedPublished, Return, Acknowledge, Facts, Funded, Asking, Permitted, TypeOK
    <2>2. Scoped(r)'
      BY <1>18, <2>0 DEF RunCompletedPublished, Return, Acknowledge, Facts, Scoped, withinScope, Asking, Permitted, TypeOK
    <2>3. Positioned(r)'
      BY <1>18, <2>0 DEF RunCompletedPublished, Return, Acknowledge, Facts, Positioned, here, Before, BeforeLoop, BetweenCalls, Asking, Permitted, TypeOK
    <2>4. Executed(r)'
      BY <1>18, <2>0 DEF RunCompletedPublished, Return, Acknowledge, Facts, Executed, here, Before, TypeOK
    <2>5. Cancelled(r)'
      BY <1>18, <2>0 DEF RunCompletedPublished, Return, Acknowledge, Facts, Cancelled, here, TypeOK
    <2>6. Returned(r)'
      BY <1>18, <2>0 DEF RunCompletedPublished, Return, Acknowledge, Facts, Returned, TypeOK
    <2>7. \A q \in Runs \ {r} : Same(q)
      BY <1>18 DEF RunCompletedPublished, Return, Acknowledge, Same, TypeOK
    <2> QED
      BY <2>1, <2>2, <2>3, <2>4, <2>5, <2>6, <2>7 DEF Facts
  <1>19. ASSUME NEW t \in ToolNames, Register(t) PROVE Inv'
    <2>1. \A q \in Runs : Same(q)
      BY <1>19 DEF Register, Same
    <2> QED
      BY <2>1, SameKeeps DEF Inv
  <1>20. CASE UNCHANGED vars
    <2>1. \A q \in Runs : Same(q)
      BY <1>20 DEF vars, others, Same
    <2> QED
      BY <2>1, SameKeeps DEF Inv
  <1>21. ASSUME NEW r \in Runs, Facts(r)', \A q \in Runs \ {r} : Same(q) PROVE Inv'
    <2>1. \A q \in Runs \ {r} : Facts(q)'
      BY <1>21, SameKeeps DEF Inv
    <2> QED
      BY <1>21, <2>1 DEF Inv
  <1> QED
    BY <1>1, <1>2, <1>3, <1>4, <1>5, <1>6, <1>7, <1>8, <1>9, <1>10, <1>11, <1>12, <1>13,
       <1>14, <1>15, <1>16, <1>17, <1>18, <1>19, <1>20, <1>21
    DEF Next, OwnStep, DependencyReturns, AllReturned

LEMMA Invariance == Spec => [](TypeOK /\ Placed /\ Inv)
  <1>1. TypeOK /\ Placed /\ Inv /\ [Next]_vars => (TypeOK /\ Placed /\ Inv)'
    BY TypeOKStep, InvStep
  <1> QED
    BY <1>1, TypeOKInit, InvInit, PTL DEF Spec

(***************************************************************************)
(* The guarantees about the effects of a run.                              *)
(***************************************************************************)

(* Every tool a run executes was accepted by the authorizer while the      *)
(* context was live, and is one of the skill's registered tools.           *)
THEOREM Authorised == Spec => []EffectsAuthorised
  <1>1. TypeOK /\ Placed /\ Inv => EffectsAuthorised
    <2> SUFFICES ASSUME TypeOK, Placed, Inv, NEW r \in Runs
                 PROVE  /\ \A i \in DOMAIN effects[r] : effects[r][i] \in grants[r] \ lateGrants[r]
                        /\ pc[r] \in {"callTool", "executing"} =>
                              current(r).tool \in scope[r] \cap registered
      BY DEF EffectsAuthorised
    <2>1. \A i \in DOMAIN effects[r] : effects[r][i] \in grants[r] \ lateGrants[r]
      BY DEF Inv, Facts, Executed
    <2>2. ASSUME pc[r] \in {"callTool", "executing"} PROVE current(r).tool \in scope[r] \cap registered
      <3>1. next[r] \in DOMAIN turn[r].calls
        BY <2>2, CallsTyped DEF Placed, InCall
      <3> QED
        BY <2>2, <3>1 DEF Inv, Facts, Scoped, Permitted, withinScope, current
    <2> QED
      BY <2>1, <2>2
  <1> QED
    BY <1>1, Invariance, PTL

(* A run never executes more tools than its budget allows.                 *)
THEOREM Budgeted == Spec => []BudgetRespected
  <1>1. TypeOK /\ Inv => BudgetRespected
    <2> SUFFICES ASSUME TypeOK, Inv, NEW r \in Runs
                 PROVE  Len(effects[r]) <= toolCalls[r] /\ toolCalls[r] <= MaxToolCalls
      BY DEF BudgetRespected
    <2>1. Funded(r)
      BY DEF Inv, Facts
    <2>2. effects[r] \in Seq(Occurrence)
      BY DEF TypeOK
    <2>3. Len(effects[r]) \in Nat
      BY <2>2
    <2>4. CASE pc[r] = "callTool"
      BY <2>1, <2>3, <2>4 DEF Funded
    <2>5. CASE pc[r] # "callTool"
      BY <2>1, <2>3, <2>5 DEF Funded
    <2> QED
      BY <2>4, <2>5
  <1> QED
    BY <1>1, Invariance, PTL

(* A batch refused for its size or its scope left no trace: none of its    *)
(* calls was put to the authorizer.                                        *)
THEOREM RefusedWhole == Spec => []RefusedBatchHasNoEffect
  <1>1. Inv => RefusedBatchHasNoEffect
    BY DEF Inv, Facts, Positioned, RefusedBatchHasNoEffect
  <1> QED
    BY <1>1, Invariance, PTL

(* Executions happen at most once each and in the order the model asked.   *)
THEOREM InOrder == Spec => []ExecutedInOrder
  <1>1. Inv => ExecutedInOrder
    BY DEF Inv, Facts, Executed, ExecutedInOrder
  <1> QED
    BY <1>1, Invariance, PTL

(* After its context is done a run starts at most one more call.           *)
THEOREM Stops == Spec => []CancellationStops
  <1>1. Inv => CancellationStops
    BY DEF Inv, Facts, Cancelled, CancellationStops
  <1> QED
    BY <1>1, Invariance, PTL

(* A call that was permitted never fails for want of its tool.             *)
THEOREM ToolsStay == Spec => []GrantedToolExists
  <1>1. Inv => GrantedToolExists
    BY DEF Inv, Facts, Positioned, GrantedToolExists
  <1> QED
    BY <1>1, Invariance, PTL

(***************************************************************************)
(* Identifiers come from the counter, which no identifier is ahead of.     *)
(***************************************************************************)
Numbered ==
    /\ sequence \in Nat
    /\ runID \in [Runs -> Nat]
    /\ \A r \in Runs : runID[r] <= sequence

LEMMA OnlyBeginNumbers ==
    ASSUME [Next]_vars
    PROVE  UNCHANGED <<sequence, runID>> \/ \E r \in Runs, s \in Skills : Begin(r, s)
  <1>1. ASSUME NEW t \in ToolNames, Register(t) PROVE UNCHANGED <<sequence, runID>>
    BY <1>1 DEF Register
  <1>2. ASSUME NEW r \in Runs, BeginRefused(r) \/ CtxDone(r) PROVE UNCHANGED <<sequence, runID>>
    BY <1>2 DEF BeginRefused, CtxDone, others
  <1>3. ASSUME NEW r \in Runs, OwnStep(r) PROVE UNCHANGED <<sequence, runID>>
    BY <1>3 DEF OwnStep, Refuse, ResolveTools, EnterLoop, CallModel, TakeAnswer, TakeBatch,
                FinishBatch, StartCall, PassCheck, CallTool, others
  <1>4. ASSUME NEW r \in Runs, DependencyReturns(r) PROVE UNCHANGED <<sequence, runID>>
    BY <1>4 DEF DependencyReturns, CallFails, Published, ModelReturnsLate, ModelReturns,
                AuthorizerAccepts, ToolReturns, ToolCompletedPublished, RunCompletedPublished, others
  <1>5. CASE UNCHANGED vars
    BY <1>5 DEF vars, others
  <1> QED
    BY <1>1, <1>2, <1>3, <1>4, <1>5 DEF Next, AllReturned

(* Concurrent runs of one Runtime never share an identifier.               *)
THEOREM Distinguished == Spec => []RunIDsUnique
  <1>1. Init => Numbered /\ RunIDsUnique
    BY DEF Init, Numbered, RunIDsUnique
  <1>2. Numbered /\ RunIDsUnique /\ [Next]_vars => (Numbered /\ RunIDsUnique)'
    <2> SUFFICES ASSUME Numbered, RunIDsUnique, [Next]_vars PROVE (Numbered /\ RunIDsUnique)'
      OBVIOUS
    <2>1. CASE UNCHANGED <<sequence, runID>>
      BY <2>1 DEF Numbered, RunIDsUnique
    <2>2. ASSUME NEW r \in Runs, NEW s \in Skills, Begin(r, s) PROVE (Numbered /\ RunIDsUnique)'
      <3>1. sequence' = sequence + 1 /\ runID' = [runID EXCEPT ![r] = sequence + 1]
        BY <2>2 DEF Begin
      <3> QED
        BY <3>1 DEF Numbered, RunIDsUnique
    <2> QED
      BY <2>1, <2>2, OnlyBeginNumbers
  <1> QED
    BY <1>1, <1>2, PTL DEF Spec

---------------------------------------------------------------------------
(***************************************************************************)
(* What a run leaves on record, its events, its permissions and its        *)
(* transcript, beside what it executed.                                    *)
(***************************************************************************)

(* The places of a sequence of events or items that hold one of the kind.  *)
Occurs(s, kind) == {i \in DOMAIN s : s[i].kind = kind}
Tally(s, kind) == Cardinality(Occurs(s, kind))

started(r) == Tally(events[r], "toolStarted")
completed(r) == Tally(events[r], "toolCompleted")
executed(r) == Len(effects[r])

(* Where a call has been reported as started and not begun, and where it   *)
(* has begun and has not been reported as completed.                       *)
Unexecuted == {"authorizing", "granted", "callTool"}
Uncompleted == {"executing", "toolCompleted"}

(***************************************************************************)
(* The event log beside the executions: at each place of the run it is     *)
(* known which report is ahead, and a run that has ended kept the counts   *)
(* it ended with.                                                          *)
(***************************************************************************)
Counted(r) ==
    /\ pc[r] \in Unexecuted => started(r) = executed(r) + 1 /\ completed(r) = executed(r)
    /\ pc[r] \in Uncompleted => started(r) = executed(r) /\ completed(r) + 1 = executed(r)
    /\ pc[r] \notin Unexecuted \cup Uncompleted \cup {"ended"} =>
          started(r) = executed(r) /\ completed(r) = executed(r)
    /\ completed(r) <= executed(r) /\ executed(r) <= started(r) /\ started(r) <= completed(r) + 1
    /\ Tally(events[r], "runCompleted") = (IF outcome[r] = "answered" THEN 1 ELSE 0)
    /\ outcome[r] = "answered" => started(r) = executed(r) /\ completed(r) = executed(r)

(* The permissions beside the executions: every one has been used, except  *)
(* that of the call about to begin.                                        *)
Used(r) ==
    /\ IsFiniteSet(grants[r])
    /\ pc[r] \in {"granted", "callTool"} => Cardinality(grants[r]) = executed(r) + 1
    /\ pc[r] \notin {"granted", "callTool", "ended"} => Cardinality(grants[r]) = executed(r)
    /\ outcome[r] = "answered" => Cardinality(grants[r]) = executed(r)

(***************************************************************************)
(* The transcript: every call is followed by its own result, except that   *)
(* from the check before a call to the return of its tool the last item is *)
(* a call without one.                                                     *)
(***************************************************************************)
OpenCall == {"toolStarted", "authorizing", "granted", "callTool", "executing"}

Matched(it, n) ==
    /\ \A i \in 1..n : IsCall(it[i]) => i + 1 \in DOMAIN it /\ it[i + 1] = ToolResult(it[i].id)
    /\ \A i \in DOMAIN it : IsResult(it[i]) => i > 1 /\ IsCall(it[i - 1])

Paired(r) ==
    /\ pc[r] \in BeforeLoop => items[r] = <<>>
    /\ pc[r] \in OpenCall =>
          /\ items[r] # <<>>
          /\ items[r][Len(items[r])] = ToolCall(current(r).id)
          /\ Matched(items[r], Len(items[r]) - 1)
    /\ pc[r] \notin OpenCall \cup {"ended"} => Matched(items[r], Len(items[r]))
    /\ pc[r] = "executing" => Tally(items[r], "result") + 1 = executed(r)
    /\ pc[r] \notin {"executing", "ended"} => Tally(items[r], "result") = executed(r)

Recorded(r) == Counted(r) /\ Used(r) /\ Paired(r)

Records == \A r \in Runs : Recorded(r)

(***************************************************************************)
(* Counting over a sequence.                                               *)
(***************************************************************************)
LEMMA TallyTyped ==
    ASSUME NEW S, NEW s \in Seq(S), NEW kind
    PROVE  IsFiniteSet(Occurs(s, kind)) /\ Tally(s, kind) \in Nat
  <1>1. IsFiniteSet(1..Len(s))
    BY FS_Interval
  <1>2. Occurs(s, kind) \subseteq 1..Len(s)
    BY DEF Occurs
  <1> QED
    BY <1>1, <1>2, FS_Subset, FS_CardinalityType DEF Tally

LEMMA TallyEmpty == ASSUME NEW kind PROVE Tally(<<>>, kind) = 0
  <1>1. Occurs(<<>>, kind) = {}
    BY DEF Occurs
  <1> QED
    BY <1>1, FS_EmptySet DEF Tally

(* One more element of the kind counts one more, any other counts nothing. *)
LEMMA TallyAppend ==
    ASSUME NEW S, NEW s \in Seq(S), NEW e \in S, NEW kind
    PROVE  Tally(Append(s, e), kind) = Tally(s, kind) + (IF e.kind = kind THEN 1 ELSE 0)
  <1>1. Len(s) + 1 \notin Occurs(s, kind)
    BY DEF Occurs
  <1>2. CASE e.kind = kind
    <2>1. Occurs(Append(s, e), kind) = Occurs(s, kind) \cup {Len(s) + 1}
      BY <1>2 DEF Occurs
    <2> QED
      BY <1>1, <1>2, <2>1, TallyTyped, FS_AddElement DEF Tally
  <1>3. CASE e.kind # kind
    <2>1. Occurs(Append(s, e), kind) = Occurs(s, kind)
      BY <1>3 DEF Occurs
    <2> QED
      BY <1>3, <2>1, TallyTyped DEF Tally
  <1> QED
    BY <1>2, <1>3

LEMMA CountsTyped ==
    ASSUME TypeOK, NEW r \in Runs
    PROVE  /\ started(r) \in Nat /\ completed(r) \in Nat /\ executed(r) \in Nat
           /\ Tally(events[r], "runCompleted") \in Nat
           /\ Tally(items[r], "result") \in Nat
  <1>1. events[r] \in Seq(Event) /\ items[r] \in Seq(Item) /\ effects[r] \in Seq(Occurrence)
    BY DEF TypeOK
  <1> QED
    BY <1>1, TallyTyped DEF started, completed, executed

(* An acknowledged event adds one to the count of its kind.                *)
LEMMA AcknowledgedOnce ==
    ASSUME TypeOK, NEW r \in Runs, pc[r] \in Publishing, Acknowledge(r)
    PROVE  \A kind : Tally(events'[r], kind) = Tally(events[r], kind) + (IF pc[r] = kind THEN 1 ELSE 0)
  <1>1. [kind |-> pc[r], step |-> step[r]] \in Event /\ events[r] \in Seq(Event)
    BY DEF TypeOK, Event
  <1>2. events'[r] = Append(events[r], [kind |-> pc[r], step |-> step[r]])
    BY DEF Acknowledge, TypeOK
  <1> QED
    BY <1>1, <1>2, TallyAppend

(* A message or a result appended to a matched transcript.                 *)
LEMMA MatchedMessage ==
    ASSUME NEW it \in Seq(Item), NEW e \in Item, ~IsCall(e), ~IsResult(e), Matched(it, Len(it))
    PROVE  Matched(Append(it, e), Len(Append(it, e)))
  BY DEF Matched, IsCall, IsResult

LEMMA MatchedCall ==
    ASSUME NEW it \in Seq(Item), NEW e \in Item, IsCall(e), Matched(it, Len(it))
    PROVE  LET more == Append(it, e) IN Matched(more, Len(more) - 1) /\ more[Len(more)] = e
  <1>1. ~IsResult(e)
    BY DEF IsCall, IsResult
  <1> QED
    BY <1>1 DEF Matched, IsCall, IsResult

LEMMA MatchedResult ==
    ASSUME NEW it \in Seq(Item), NEW id \in CallIDs \cup {NoId}, it # <<>>,
           it[Len(it)] = ToolCall(id), Matched(it, Len(it) - 1)
    PROVE  Matched(Append(it, ToolResult(id)), Len(Append(it, ToolResult(id))))
  <1> DEFINE e == ToolResult(id)
             more == Append(it, e)
  <1>1. e \in Item /\ ~IsCall(e) /\ IsResult(e) /\ IsCall(ToolCall(id)) /\ ToolCall(id).id = id
    BY DEF Item, ToolResult, ToolCall, IsCall, IsResult
  <1>2. Len(it) \in Nat \ {0} /\ Len(more) = Len(it) + 1 /\ more[Len(it) + 1] = e
        /\ \A i \in 1..Len(it) : more[i] = it[i]
    BY <1>1
  <1>3. ASSUME NEW i \in 1..Len(more), IsCall(more[i])
        PROVE  i + 1 \in DOMAIN more /\ more[i + 1] = ToolResult(more[i].id)
    <2>1. i \in 1..Len(it)
      BY <1>1, <1>2, <1>3
    <2>2. CASE i = Len(it)
      BY <1>1, <1>2, <2>2
    <2>3. CASE i \in 1..(Len(it) - 1)
      BY <1>1, <1>2, <1>3, <2>3 DEF Matched
    <2> QED
      BY <2>1, <2>2, <2>3
  <1>4. ASSUME NEW i \in DOMAIN more, IsResult(more[i])
        PROVE  i > 1 /\ IsCall(more[i - 1])
    <2>1. CASE i = Len(it) + 1
      BY <1>1, <1>2, <2>1
    <2>2. CASE i \in DOMAIN it
      BY <1>1, <1>2, <1>4, <2>2 DEF Matched
    <2> QED
      BY <1>1, <1>2, <2>1, <2>2
  <1> QED
    BY <1>3, <1>4 DEF Matched

LEMMA RecordsInit == Init => Records
  <1> SUFFICES ASSUME Init, NEW r \in Runs PROVE Recorded(r)
    BY DEF Records
  <1>1. pc[r] = "idle" /\ outcome[r] = "none" /\ items[r] = <<>> /\ events[r] = <<>>
        /\ grants[r] = {} /\ effects[r] = <<>>
    BY DEF Init
  <1>2. Counted(r)
    BY <1>1, TallyEmpty DEF Counted, Unexecuted, Uncompleted, started, completed, executed
  <1>3. Used(r)
    BY <1>1, FS_EmptySet DEF Used, executed
  <1>4. Matched(<<>>, Len(<<>>))
    BY DEF Matched
  <1>5. Paired(r)
    BY <1>1, <1>4, TallyEmpty DEF Paired, OpenCall, executed
  <1> QED
    BY <1>2, <1>3, <1>5 DEF Recorded

(***************************************************************************)
(* A step of one run leaves the records of the others alone.               *)
(***************************************************************************)
Unmoved(q) ==
    /\ pc'[q] = pc[q] /\ outcome'[q] = outcome[q] /\ turn'[q] = turn[q] /\ next'[q] = next[q]
    /\ items'[q] = items[q] /\ events'[q] = events[q] /\ grants'[q] = grants[q]
    /\ effects'[q] = effects[q]

LEMMA UnmovedKeeps ==
    ASSUME NEW q \in Runs, Recorded(q), Unmoved(q)
    PROVE  Recorded(q)'
  <1>1. Counted(q)'
    BY DEF Recorded, Counted, Unmoved, started, completed, executed
  <1>2. Used(q)'
    BY DEF Recorded, Used, Unmoved, executed
  <1>3. Paired(q)'
    BY DEF Recorded, Paired, Unmoved, executed, current
  <1> QED
    BY <1>1, <1>2, <1>3 DEF Recorded

(* A step that records nothing and goes between places with the same       *)
(* accounts.                                                               *)
Elsewhere == {"loop", "callModel", "generating", "modelCompleted", "decide", "runCompleted", "nextCall"}

LEMMA QuietRecords ==
    ASSUME TypeOK, NEW r \in Runs, NEW label, Recorded(r),
           pc' = [pc EXCEPT ![r] = label], UNCHANGED <<outcome, items, events, grants, effects>>,
           \/ pc[r] \in {"idle", "runStarted", "skillSelected"} /\ label \in BeforeLoop
           \/ pc[r] \in Elsewhere /\ label \in Elsewhere
           \/ pc[r] = "granted" /\ label = "callTool" /\ UNCHANGED <<turn, next>>
    PROVE  Recorded(r)'
  <1>1. pc'[r] = label
    BY DEF TypeOK
  <1>2. Counted(r)'
    BY <1>1 DEF Recorded, Counted, Unexecuted, Uncompleted, BeforeLoop, Elsewhere, started, completed, executed
  <1>3. Used(r)'
    BY <1>1 DEF Recorded, Used, BeforeLoop, Elsewhere, executed
  <1>4. Paired(r)'
    BY <1>1 DEF Recorded, Paired, OpenCall, BeforeLoop, Elsewhere, executed, current
  <1> QED
    BY <1>2, <1>3, <1>4 DEF Recorded

LEMMA RecordsStep ==
    ASSUME TypeOK, Placed, Inv, Records, [Next]_vars
    PROVE  Records'
  <1>1. ASSUME NEW r \in Runs, NEW s \in Skills, Begin(r, s) PROVE Recorded(r)' /\ \A q \in Runs \ {r} : Unmoved(q)
    <2>0. Recorded(r)
      BY DEF Records
    <2>1. Recorded(r)'
      BY <1>1, <2>0, QuietRecords DEF Begin, Goto, BeforeLoop, Elsewhere
    <2>2. \A q \in Runs \ {r} : Unmoved(q)
      BY <1>1 DEF Begin, Goto, Unmoved, TypeOK
    <2> QED
      BY <2>1, <2>2
  <1>2. ASSUME NEW r \in Runs,
               BeginRefused(r) \/ Refuse(r) \/ CallFails(r) \/ ModelReturnsLate(r)
        PROVE  Recorded(r)' /\ \A q \in Runs \ {r} : Unmoved(q)
    <2>0. Recorded(r) /\ Returned(r)
      BY DEF Records, Inv, Facts
    <2>1. PICK why \in Outcomes \ {"none", "answered"} : outcome' = [outcome EXCEPT ![r] = why]
      BY <1>2, ErrorEnds
    <2>2. pc' = [pc EXCEPT ![r] = "ended"] /\ UNCHANGED others
      BY <1>2, ErrorEnds
    <2>3. pc'[r] = "ended" /\ outcome'[r] \notin {"none", "answered"}
      BY <2>1, <2>2 DEF TypeOK
    <2>4. pc[r] # "ended"
      BY <1>2 DEF BeginRefused, Refuse, Errs, CallFails, ModelReturnsLate, Awaiting, Publishing
    <2>5. outcome[r] = "none"
      BY <2>0, <2>4 DEF Returned
    <2>6. Counted(r)'
      BY <2>0, <2>2, <2>3, <2>5 DEF others, Recorded, Counted, Unexecuted, Uncompleted, started, completed, executed
    <2>7. Used(r)' /\ Paired(r)'
      BY <2>0, <2>2, <2>3 DEF others, Recorded, Used, Paired, OpenCall, BeforeLoop
    <2>8. \A q \in Runs \ {r} : Unmoved(q)
      BY <2>1, <2>2 DEF others, Unmoved, TypeOK
    <2> QED
      BY <2>6, <2>7, <2>8 DEF Recorded
  <1>3. ASSUME NEW r \in Runs, CtxDone(r) PROVE \A q \in Runs : Unmoved(q)
    BY <1>3 DEF CtxDone, Unmoved
  <1>4. ASSUME NEW r \in Runs, ResolveTools(r) PROVE Recorded(r)' /\ \A q \in Runs \ {r} : Unmoved(q)
    <2>0. Recorded(r)
      BY DEF Records
    <2>1. effects[r] = <<>>
      <3>1. \A i \in DOMAIN effects[r] : effects[r][i] \in grants[r]
        BY DEF Inv, Facts, Executed
      <3>2. grants[r] = {}
        BY <1>4 DEF ResolveTools, Inv, Facts, Positioned, BeforeLoop
      <3>3. effects[r] \in Seq(Occurrence)
        BY DEF TypeOK
      <3>4. DOMAIN effects[r] = 1..Len(effects[r]) /\ Len(effects[r]) \in Nat
        BY <3>3
      <3>5. 1 \notin 1..Len(effects[r])
        BY <3>1, <3>2, <3>4
      <3>6. Len(effects[r]) = 0
        BY <3>4, <3>5
      <3> QED
        BY <3>3, <3>6
    <2>2. pc[r] = "resolving" /\ pc'[r] = "loop" /\ outcome' = outcome
          /\ UNCHANGED <<events, grants, effects>>
      BY <1>4 DEF ResolveTools, Goto, TypeOK
    <2>3. items'[r] = Append(<<>>, Message("user"))
      BY <1>4 DEF ResolveTools, TypeOK
    <2>4. Message("user") \in Item /\ ~IsCall(Message("user")) /\ ~IsResult(Message("user"))
          /\ Message("user").kind # "result"
      BY DEF Message, Item, IsCall, IsResult
    <2>5. Matched(<<>>, Len(<<>>)) /\ <<>> \in Seq(Item)
      BY DEF Matched
    <2>6. Matched(items'[r], Len(items'[r])) /\ Tally(items'[r], "result") = 0
      <3>1. Matched(items'[r], Len(items'[r]))
        BY <2>3, <2>4, <2>5, MatchedMessage
      <3>2. items'[r] = <<Message("user")>>
        BY <1>4 DEF ResolveTools, TypeOK
      <3>3. Occurs(items'[r], "result") = {}
        BY <2>4, <3>2 DEF Occurs
      <3> QED
        BY <3>1, <3>3, FS_EmptySet DEF Tally
    <2>7. Counted(r)' /\ Used(r)'
      BY <2>0, <2>2 DEF Recorded, Counted, Used, Unexecuted, Uncompleted, started, completed, executed
    <2>8. Paired(r)'
      BY <2>1, <2>2, <2>6 DEF Paired, OpenCall, BeforeLoop, executed
    <2>9. \A q \in Runs \ {r} : Unmoved(q)
      BY <1>4 DEF ResolveTools, Goto, Unmoved, TypeOK
    <2> QED
      BY <2>7, <2>8, <2>9 DEF Recorded
  <1>5. ASSUME NEW r \in Runs, EnterLoop(r) PROVE Recorded(r)' /\ \A q \in Runs \ {r} : Unmoved(q)
    <2>0. Recorded(r)
      BY DEF Records
    <2>1. Recorded(r)'
      BY <1>5, <2>0, QuietRecords DEF EnterLoop, Goto, others, BeforeLoop, Elsewhere
    <2>2. \A q \in Runs \ {r} : Unmoved(q)
      BY <1>5 DEF EnterLoop, Goto, others, Unmoved, TypeOK
    <2> QED
      BY <2>1, <2>2
  <1>6. ASSUME NEW r \in Runs, CallModel(r) PROVE Recorded(r)' /\ \A q \in Runs \ {r} : Unmoved(q)
    <2>0. Recorded(r)
      BY DEF Records
    <2>1. Recorded(r)'
      BY <1>6, <2>0, QuietRecords DEF CallModel, Goto, BeforeLoop, Elsewhere
    <2>2. \A q \in Runs \ {r} : Unmoved(q)
      BY <1>6 DEF CallModel, Goto, Unmoved, TypeOK
    <2> QED
      BY <2>1, <2>2
  <1>7. ASSUME NEW r \in Runs, NEW t \in Turns, ModelReturns(r, t) PROVE Recorded(r)' /\ \A q \in Runs \ {r} : Unmoved(q)
    <2>0. Recorded(r)
      BY DEF Records
    <2>1. Recorded(r)'
      BY <1>7, <2>0, QuietRecords DEF ModelReturns, Goto, BeforeLoop, Elsewhere
    <2>2. \A q \in Runs \ {r} : Unmoved(q)
      BY <1>7 DEF ModelReturns, Goto, Unmoved, TypeOK
    <2> QED
      BY <2>1, <2>2
  <1>8. ASSUME NEW r \in Runs, TakeAnswer(r) PROVE Recorded(r)' /\ \A q \in Runs \ {r} : Unmoved(q)
    <2>0. Recorded(r)
      BY DEF Records
    <2>1. Recorded(r)'
      BY <1>8, <2>0, QuietRecords DEF TakeAnswer, Goto, others, BeforeLoop, Elsewhere
    <2>2. \A q \in Runs \ {r} : Unmoved(q)
      BY <1>8 DEF TakeAnswer, Goto, others, Unmoved, TypeOK
    <2> QED
      BY <2>1, <2>2
  <1>9. ASSUME NEW r \in Runs, TakeBatch(r) PROVE Recorded(r)' /\ \A q \in Runs \ {r} : Unmoved(q)
    <2>0. Recorded(r)
      BY DEF Records
    <2>1. pc[r] = "decide" /\ pc'[r] = "nextCall" /\ outcome' = outcome
          /\ UNCHANGED <<events, grants, effects>>
      BY <1>9 DEF TakeBatch, Goto, TypeOK
    <2>2. Message("assistant") \in Item /\ ~IsCall(Message("assistant"))
          /\ ~IsResult(Message("assistant")) /\ Message("assistant").kind # "result"
      BY DEF Message, Item, IsCall, IsResult
    <2>3. items[r] \in Seq(Item) /\ items'[r] \in {items[r], Append(items[r], Message("assistant"))}
      BY <1>9 DEF TakeBatch, TypeOK
    <2>4. Matched(items[r], Len(items[r])) /\ Tally(items[r], "result") = executed(r)
      BY <2>0, <2>1 DEF Recorded, Paired, OpenCall
    <2>5. Matched(items'[r], Len(items'[r])) /\ Tally(items'[r], "result") = executed(r)
      <3>1. CASE items'[r] = items[r]
        BY <2>4, <3>1
      <3>2. CASE items'[r] = Append(items[r], Message("assistant"))
        <4>1. Tally(items'[r], "result") = Tally(items[r], "result")
              + (IF Message("assistant").kind = "result" THEN 1 ELSE 0)
          BY <2>2, <2>3, <3>2, TallyAppend
        <4>2. Matched(items'[r], Len(items'[r]))
          BY <2>2, <2>3, <2>4, <3>2, MatchedMessage
        <4> QED
          BY <2>2, <2>4, <4>1, <4>2, CountsTyped
      <3> QED
        BY <2>3, <3>1, <3>2
    <2>6. Counted(r)' /\ Used(r)'
      BY <2>0, <2>1 DEF Recorded, Counted, Used, Unexecuted, Uncompleted, started, completed, executed
    <2>7. Paired(r)'
      BY <2>1, <2>5 DEF Paired, OpenCall, BeforeLoop, executed
    <2>8. \A q \in Runs \ {r} : Unmoved(q)
      BY <1>9 DEF TakeBatch, Goto, Unmoved, TypeOK
    <2> QED
      BY <2>6, <2>7, <2>8 DEF Recorded
  <1>10. ASSUME NEW r \in Runs, FinishBatch(r) PROVE Recorded(r)' /\ \A q \in Runs \ {r} : Unmoved(q)
    <2>0. Recorded(r)
      BY DEF Records
    <2>1. Recorded(r)'
      BY <1>10, <2>0, QuietRecords DEF FinishBatch, Goto, BeforeLoop, Elsewhere
    <2>2. \A q \in Runs \ {r} : Unmoved(q)
      BY <1>10 DEF FinishBatch, Goto, Unmoved, TypeOK
    <2> QED
      BY <2>1, <2>2
  <1>11. ASSUME NEW r \in Runs, StartCall(r) PROVE Recorded(r)' /\ \A q \in Runs \ {r} : Unmoved(q)
    <2>0. Recorded(r)
      BY DEF Records
    <2>1. pc[r] = "nextCall" /\ pc'[r] = "toolStarted" /\ outcome' = outcome
          /\ UNCHANGED <<events, grants, effects>>
      BY <1>11 DEF StartCall, Goto, TypeOK
    <2>2. current(r)' = current(r)
      BY <1>11 DEF StartCall, current
    <2>3. next[r] \in 1..Len(turn[r].calls)
      BY <1>11, CallsTyped DEF StartCall, pending, Placed, TypeOK
    <2>4. ToolCall(current(r).id) \in Item /\ IsCall(ToolCall(current(r).id))
          /\ ToolCall(current(r).id).kind # "result"
      BY <2>3, CurrentTyped DEF ToolCall, Item, IsCall
    <2>5. items[r] \in Seq(Item) /\ items'[r] = Append(items[r], ToolCall(current(r).id))
      BY <1>11 DEF StartCall, TypeOK
    <2>6. Matched(items[r], Len(items[r])) /\ Tally(items[r], "result") = executed(r)
      BY <2>0, <2>1 DEF Recorded, Paired, OpenCall
    <2>7. Matched(items'[r], Len(items'[r]) - 1) /\ items'[r][Len(items'[r])] = ToolCall(current(r).id)
      BY <2>4, <2>5, <2>6, MatchedCall
    <2>8. items'[r] # <<>> /\ Tally(items'[r], "result") = executed(r)
      <3>1. Tally(items'[r], "result") = Tally(items[r], "result")
            + (IF ToolCall(current(r).id).kind = "result" THEN 1 ELSE 0)
        BY <2>4, <2>5, TallyAppend
      <3>2. Len(items'[r]) = Len(items[r]) + 1 /\ Len(items[r]) \in Nat /\ Len(<<>>) = 0
        BY <2>4, <2>5
      <3> QED
        BY <2>4, <2>6, <3>1, <3>2, CountsTyped
    <2>9. Counted(r)' /\ Used(r)'
      BY <2>0, <2>1 DEF Recorded, Counted, Used, Unexecuted, Uncompleted, started, completed, executed
    <2>10. Paired(r)'
      BY <2>1, <2>2, <2>7, <2>8 DEF Paired, OpenCall, BeforeLoop, executed
    <2>11. \A q \in Runs \ {r} : Unmoved(q)
      BY <1>11 DEF StartCall, Goto, Unmoved, TypeOK
    <2> QED
      BY <2>9, <2>10, <2>11 DEF Recorded
  <1>12. ASSUME NEW r \in Runs, Published(r) PROVE Recorded(r)' /\ \A q \in Runs \ {r} : Unmoved(q)
    <2>0. Recorded(r)
      BY DEF Records
    <2>1. \A kind : Tally(events'[r], kind) = Tally(events[r], kind) + (IF pc[r] = kind THEN 1 ELSE 0)
      BY <1>12, AcknowledgedOnce, OwnLabels DEF Published
    <2>2. pc[r] \in DOMAIN After /\ pc'[r] = After[pc[r]] /\ outcome' = outcome
          /\ UNCHANGED <<items, grants, effects, turn, next>>
      BY <1>12 DEF Published, Goto, After, TypeOK
    <2>3. ASSUME pc[r] = "toolStarted" PROVE Recorded(r)'
      <3>1. pc'[r] = "authorizing"
        BY <2>2, <2>3 DEF After
      <3>2. Counted(r)'
        <4>1. started(r)' = started(r) + 1 /\ completed(r)' = completed(r) /\ executed(r)' = executed(r)
              /\ Tally(events[r], "runCompleted")' = Tally(events[r], "runCompleted")
          BY <2>1, <2>2, <2>3, CountsTyped DEF started, completed, executed
        <4>2. started(r) = executed(r) /\ completed(r) = executed(r)
          BY <2>0, <2>3 DEF Recorded, Counted, Unexecuted, Uncompleted
        <4>3. outcome[r] = "none"
          BY <2>3 DEF Inv, Facts, Returned
        <4> QED
          BY <2>0, <2>2, <3>1, <4>1, <4>2, <4>3, CountsTyped
          DEF Recorded, Counted, Unexecuted, Uncompleted
      <3>3. Used(r)' /\ Paired(r)'
        BY <2>0, <2>2, <2>3, <3>1 DEF Recorded, Used, Paired, OpenCall, BeforeLoop, executed, current
      <3> QED
        BY <3>2, <3>3 DEF Recorded
    <2>4. ASSUME pc[r] # "toolStarted" PROVE Recorded(r)'
      <3>1. \/ pc[r] \in {"runStarted", "skillSelected"} /\ pc'[r] \in BeforeLoop
            \/ pc[r] = "modelCompleted" /\ pc'[r] = "decide"
        BY <2>2, <2>4 DEF After, BeforeLoop
      <3>2. Counted(r)'
        BY <2>0, <2>1, <2>2, <3>1, CountsTyped
        DEF Recorded, Counted, Unexecuted, Uncompleted, BeforeLoop, started, completed, executed
      <3>3. Used(r)' /\ Paired(r)'
        BY <2>0, <2>2, <3>1 DEF Recorded, Used, Paired, OpenCall, BeforeLoop, executed
      <3> QED
        BY <3>2, <3>3 DEF Recorded
    <2>5. \A q \in Runs \ {r} : Unmoved(q)
      BY <1>12 DEF Published, Goto, Acknowledge, Unmoved, TypeOK
    <2> QED
      BY <2>3, <2>4, <2>5
  <1>13. ASSUME NEW r \in Runs, AuthorizerAccepts(r) PROVE Recorded(r)' /\ \A q \in Runs \ {r} : Unmoved(q)
    <2>0. Recorded(r)
      BY DEF Records
    <2>1. pc[r] = "authorizing" /\ pc'[r] = "granted" /\ outcome' = outcome
          /\ UNCHANGED <<items, events, effects, turn, next>>
      BY <1>13 DEF AuthorizerAccepts, Goto, TypeOK
    <2>2. grants'[r] = grants[r] \cup {here(r)}
      BY <1>13 DEF AuthorizerAccepts, here, TypeOK
    <2>3. here(r) \notin grants[r]
      <3>1. \A o \in grants[r] : Before(o, here(r))
        BY <2>1 DEF Inv, Facts, Positioned, Asking
      <3>2. ~Before(here(r), here(r))
        BY DEF Before, here, TypeOK
      <3> QED
        BY <3>1, <3>2
    <2>4. IsFiniteSet(grants[r]) /\ Cardinality(grants[r]) = executed(r)
      BY <2>0, <2>1 DEF Recorded, Used
    <2>5. IsFiniteSet(grants'[r]) /\ Cardinality(grants'[r]) = executed(r) + 1
      BY <2>2, <2>3, <2>4, FS_AddElement
    <2>6. outcome[r] = "none"
      BY <2>1 DEF Inv, Facts, Returned
    <2>7. Used(r)'
      BY <2>1, <2>5, <2>6 DEF Used, executed
    <2>8. Counted(r)' /\ Paired(r)'
      BY <2>0, <2>1 DEF Recorded, Counted, Paired, OpenCall, BeforeLoop, Unexecuted, Uncompleted,
                        started, completed, executed, current
    <2>9. \A q \in Runs \ {r} : Unmoved(q)
      BY <1>13 DEF AuthorizerAccepts, Goto, Unmoved, TypeOK
    <2> QED
      BY <2>7, <2>8, <2>9 DEF Recorded
  <1>14. ASSUME NEW r \in Runs, PassCheck(r) PROVE Recorded(r)' /\ \A q \in Runs \ {r} : Unmoved(q)
    <2>0. Recorded(r)
      BY DEF Records
    <2>1. Recorded(r)'
      BY <1>14, <2>0, QuietRecords DEF PassCheck, Goto, BeforeLoop, Elsewhere
    <2>2. \A q \in Runs \ {r} : Unmoved(q)
      BY <1>14 DEF PassCheck, Goto, Unmoved, TypeOK
    <2> QED
      BY <2>1, <2>2
  <1>15. ASSUME NEW r \in Runs, CallTool(r) PROVE Recorded(r)' /\ \A q \in Runs \ {r} : Unmoved(q)
    <2>0. Recorded(r)
      BY DEF Records
    <2>1. pc[r] = "callTool" /\ pc'[r] = "executing" /\ outcome' = outcome
          /\ UNCHANGED <<items, events, grants, turn, next>>
      BY <1>15 DEF CallTool, Goto, TypeOK
    <2>2. executed(r)' = executed(r) + 1
      <3>1. effects[r] \in Seq(Occurrence) /\ effects'[r] = Append(effects[r], <<step[r], next[r]>>)
        BY <1>15 DEF CallTool, TypeOK
      <3> QED
        BY <3>1 DEF executed
    <2>3. outcome[r] = "none"
      BY <2>1 DEF Inv, Facts, Returned
    <2>4. Counted(r)'
      BY <2>0, <2>1, <2>2, <2>3, CountsTyped DEF Recorded, Counted, Unexecuted, Uncompleted, started, completed
    <2>5. Used(r)'
      BY <2>0, <2>1, <2>2, <2>3 DEF Recorded, Used
    <2>6. Paired(r)'
      BY <2>0, <2>1, <2>2 DEF Recorded, Paired, OpenCall, BeforeLoop, current
    <2>7. \A q \in Runs \ {r} : Unmoved(q)
      BY <1>15 DEF CallTool, Goto, Unmoved, TypeOK
    <2> QED
      BY <2>4, <2>5, <2>6, <2>7 DEF Recorded
  <1>16. ASSUME NEW r \in Runs, ToolReturns(r) PROVE Recorded(r)' /\ \A q \in Runs \ {r} : Unmoved(q)
    <2>0. Recorded(r)
      BY DEF Records
    <2>1. pc[r] = "executing" /\ pc'[r] = "toolCompleted" /\ outcome' = outcome
          /\ UNCHANGED <<events, grants, effects>>
      BY <1>16 DEF ToolReturns, Goto, TypeOK
    <2>2. next[r] \in 1..Len(turn[r].calls)
      BY <2>1 DEF Placed, InCall
    <2>3. current(r).id \in CallIDs \cup {NoId}
      BY <2>2, CurrentTyped
    <2>4. items[r] \in Seq(Item) /\ items'[r] = Append(items[r], ToolResult(current(r).id))
      BY <1>16 DEF ToolReturns, TypeOK
    <2>5. /\ items[r] # <<>> /\ items[r][Len(items[r])] = ToolCall(current(r).id)
          /\ Matched(items[r], Len(items[r]) - 1) /\ Tally(items[r], "result") + 1 = executed(r)
      BY <2>0, <2>1 DEF Recorded, Paired, OpenCall
    <2>6. Matched(items'[r], Len(items'[r]))
      BY <2>3, <2>4, <2>5, MatchedResult
    <2>7. Tally(items'[r], "result") = executed(r)
      <3>1. ToolResult(current(r).id) \in Item /\ ToolResult(current(r).id).kind = "result"
        BY <2>3 DEF ToolResult, Item
      <3> QED
        BY <2>4, <2>5, <3>1, TallyAppend
    <2>8. Counted(r)' /\ Used(r)'
      BY <2>0, <2>1 DEF Recorded, Counted, Used, Unexecuted, Uncompleted, started, completed, executed
    <2>9. Paired(r)'
      BY <2>1, <2>6, <2>7 DEF Paired, OpenCall, BeforeLoop, executed
    <2>10. \A q \in Runs \ {r} : Unmoved(q)
      BY <1>16 DEF ToolReturns, Goto, Unmoved, TypeOK
    <2> QED
      BY <2>8, <2>9, <2>10 DEF Recorded
  <1>17. ASSUME NEW r \in Runs, ToolCompletedPublished(r) PROVE Recorded(r)' /\ \A q \in Runs \ {r} : Unmoved(q)
    <2>0. Recorded(r)
      BY DEF Records
    <2>1. \A kind : Tally(events'[r], kind) = Tally(events[r], kind) + (IF pc[r] = kind THEN 1 ELSE 0)
      BY <1>17, AcknowledgedOnce DEF ToolCompletedPublished, Publishing
    <2>2. pc[r] = "toolCompleted" /\ pc'[r] = "nextCall" /\ outcome' = outcome
          /\ UNCHANGED <<items, grants, effects>>
      BY <1>17 DEF ToolCompletedPublished, Goto, TypeOK
    <2>3. Counted(r)'
      BY <2>0, <2>1, <2>2, CountsTyped
      DEF Recorded, Counted, Unexecuted, Uncompleted, started, completed, executed
    <2>4. Used(r)' /\ Paired(r)'
      BY <2>0, <2>2 DEF Recorded, Used, Paired, OpenCall, BeforeLoop, executed
    <2>5. \A q \in Runs \ {r} : Unmoved(q)
      BY <1>17 DEF ToolCompletedPublished, Goto, Acknowledge, Unmoved, TypeOK
    <2> QED
      BY <2>3, <2>4, <2>5 DEF Recorded
  <1>18. ASSUME NEW r \in Runs, RunCompletedPublished(r) PROVE Recorded(r)' /\ \A q \in Runs \ {r} : Unmoved(q)
    <2>0. Recorded(r)
      BY DEF Records
    <2>1. \A kind : Tally(events'[r], kind) = Tally(events[r], kind) + (IF pc[r] = kind THEN 1 ELSE 0)
      BY <1>18, AcknowledgedOnce DEF RunCompletedPublished, Publishing
    <2>2. pc[r] = "runCompleted" /\ pc'[r] = "ended" /\ outcome'[r] = "answered"
          /\ UNCHANGED <<items, grants, effects>>
      BY <1>18 DEF RunCompletedPublished, Return, TypeOK
    <2>3. outcome[r] = "none"
      BY <2>2 DEF Inv, Facts, Returned
    <2>4. Counted(r)'
      BY <2>0, <2>1, <2>2, <2>3, CountsTyped
      DEF Recorded, Counted, Unexecuted, Uncompleted, started, completed, executed
    <2>5. Used(r)' /\ Paired(r)'
      BY <2>0, <2>2 DEF Recorded, Used, Paired, OpenCall, BeforeLoop, executed
    <2>6. \A q \in Runs \ {r} : Unmoved(q)
      BY <1>18 DEF RunCompletedPublished, Return, Acknowledge, Unmoved, TypeOK
    <2> QED
      BY <2>4, <2>5, <2>6 DEF Recorded
  <1>19. ASSUME NEW t \in ToolNames, Register(t) PROVE \A q \in Runs : Unmoved(q)
    BY <1>19 DEF Register, Unmoved
  <1>20. CASE UNCHANGED vars
    BY <1>20, UnmovedKeeps DEF vars, others, Unmoved, Records
  <1> QED
    BY <1>1, <1>2, <1>3, <1>4, <1>5, <1>6, <1>7, <1>8, <1>9, <1>10, <1>11, <1>12, <1>13,
       <1>14, <1>15, <1>16, <1>17, <1>18, <1>19, <1>20, UnmovedKeeps
    DEF Next, OwnStep, DependencyReturns, AllReturned, Records

LEMMA RecordsKept == Spec => []Records
  <1>1. TypeOK /\ Placed /\ Inv /\ Records /\ [Next]_vars => Records'
    BY RecordsStep
  <1> QED
    BY <1>1, RecordsInit, Invariance, PTL DEF Spec

(***************************************************************************)
(* The event log tells the truth: no execution without a toolStarted, no   *)
(* toolCompleted without an execution, never two calls open at once, and   *)
(* a runCompleted for the runs that answered and no others.                *)
(***************************************************************************)
THEOREM LogFaithful == Spec => []EventsFaithful
  <1>1. Records => EventsFaithful
    BY DEF Records, Recorded, Counted, EventsFaithful, Acked, Tally, Occurs, started, completed, executed
  <1> QED
    BY <1>1, RecordsKept, PTL

(***************************************************************************)
(* Whenever the model is asked, every call in the transcript is followed   *)
(* by its own result, and the results are the executions of the run.       *)
(***************************************************************************)
THEOREM ModelSeesResults == Spec => []TranscriptPaired
  <1>1. ASSUME Records, TypeOK PROVE TranscriptPaired
    <2> SUFFICES ASSUME NEW r \in Runs, pc[r] \in {"callModel", "generating"}
                 PROVE  /\ Matched(items[r], Len(items[r]))
                        /\ Cardinality({i \in DOMAIN items[r] : IsResult(items[r][i])}) = Len(effects[r])
      <3>1. \A q \in Runs : DOMAIN items[q] = 1..Len(items[q])
        BY <1>1 DEF TypeOK
      <3> QED
        BY <3>1 DEF TranscriptPaired, Matched
    <2> QED
      BY <1>1 DEF Records, Recorded, Paired, OpenCall, Tally, Occurs, IsResult, executed
  <1> QED
    BY <1>1, RecordsKept, Typed, PTL

(***************************************************************************)
(* A run that answers has used every permission it was given, and has      *)
(* executed and completed every call it reported as started.               *)
(***************************************************************************)
THEOREM AnsweredComplete == Spec => []AnswerAfterAllResults
  <1>1. Records => AnswerAfterAllResults
    BY DEF Records, Recorded, Counted, Used, AnswerAfterAllResults, Acked, Tally, Occurs, started, completed, executed
  <1> QED
    BY <1>1, RecordsKept, PTL

(***************************************************************************)
(* AgentRuntime implements RunContract, for every value of the constants:  *)
(* each step of a run is a step of the contract, or one it does not see.   *)
(***************************************************************************)
(***************************************************************************)
(* The contract numbers the calls it permits by turns up to MaxSteps and   *)
(* places up to MaxToolCalls.                                              *)
(***************************************************************************)
Counting == {"callModel", "generating", "modelCompleted", "decide"}
Bounded == \A r \in Runs :
    /\ pc[r] = "loop" => step[r] >= 1
    /\ pc[r] \in Counting \cup Asking \cup Permitted => step[r] \in 1..MaxSteps
    /\ pc[r] \in Asking \cup Permitted => Len(turn[r].calls) <= MaxToolCalls

(* A step inside a turn, after which the bounds hold because they did.     *)
LEMMA BoundedStays ==
    ASSUME TypeOK, Bounded, NEW r \in Runs, UNCHANGED <<step, turn>>, NEW label,
           pc' = [pc EXCEPT ![r] = label],
           label \notin Counting \cup Asking \cup Permitted \cup {"loop"}
           \/ (label \in Counting /\ pc[r] \in Counting)
           \/ (label \in Asking \cup Permitted /\ pc[r] \in Asking \cup Permitted)
    PROVE  Bounded'
  BY DEF TypeOK, Bounded, Counting, Asking, Permitted

LEMMA BoundedStep == TypeOK /\ Placed /\ Inv /\ Bounded /\ [Next]_vars => Bounded'
  <1> SUFFICES ASSUME TypeOK, Placed, Inv, Bounded, [Next]_vars PROVE Bounded'
    OBVIOUS
  <1> USE ConfigAssumption
  <1>1. CASE UNCHANGED <<pc, step, turn>>
    BY <1>1 DEF Bounded
  <1>2. ASSUME NEW r \in Runs, NEW s \in Skills, Begin(r, s) PROVE Bounded'
    BY <1>2, BoundedStays DEF Begin, Goto, Counting, Asking, Permitted
  <1>3. ASSUME NEW r \in Runs,
               BeginRefused(r) \/ Refuse(r) \/ CallFails(r) \/ ModelReturnsLate(r)
        PROVE  Bounded'
    <2>1. pc' = [pc EXCEPT ![r] = "ended"] /\ UNCHANGED <<step, turn>>
      BY <1>3, ErrorEnds DEF others
    <2> QED
      BY <2>1, BoundedStays DEF Counting, Asking, Permitted
  <1>4. ASSUME NEW r \in Runs, Published(r) PROVE Bounded'
    <2>1. pc' = [pc EXCEPT ![r] = After[pc[r]]] /\ UNCHANGED <<step, turn>>
      BY <1>4 DEF Published, Goto
    <2>2. \/ pc[r] = "runStarted" /\ After[pc[r]] = "skillSelected"
          \/ pc[r] = "skillSelected" /\ After[pc[r]] = "resolving"
          \/ pc[r] = "modelCompleted" /\ After[pc[r]] = "decide"
          \/ pc[r] = "toolStarted" /\ After[pc[r]] = "authorizing"
      BY <1>4 DEF Published, After
    <2>3. After[pc[r]] \notin Counting \cup Asking \cup Permitted \cup {"loop"}
          \/ (After[pc[r]] \in Counting /\ pc[r] \in Counting)
          \/ (After[pc[r]] \in Asking \cup Permitted /\ pc[r] \in Asking \cup Permitted)
      BY <2>2 DEF Counting, Asking, Permitted
    <2> QED
      BY <2>1, <2>3, BoundedStays
  <1>5. ASSUME NEW r \in Runs, ResolveTools(r) PROVE Bounded'
    BY <1>5 DEF ResolveTools, Goto, TypeOK, Bounded, Counting, Asking, Permitted
  <1>6. ASSUME NEW r \in Runs, EnterLoop(r) PROVE Bounded'
    BY <1>6 DEF EnterLoop, Goto, others, TypeOK, Bounded, Counting, Asking, Permitted
  <1>7. ASSUME NEW r \in Runs, CallModel(r) \/ TakeAnswer(r) PROVE Bounded'
    BY <1>7, BoundedStays DEF CallModel, TakeAnswer, Goto, others, Counting, Asking, Permitted
  <1>8. ASSUME NEW r \in Runs, NEW t \in Turns, ModelReturns(r, t) PROVE Bounded'
    BY <1>8 DEF ModelReturns, Goto, TypeOK, Bounded, Counting, Asking, Permitted
  <1>9. ASSUME NEW r \in Runs, TakeBatch(r) PROVE Bounded'
    <2>1. Len(turn[r].calls) <= MaxToolCalls
      BY <1>9, CallsTyped DEF TakeBatch, withinBudget, TypeOK
    <2> QED
      BY <1>9, <2>1 DEF TakeBatch, Goto, TypeOK, Bounded, Counting, Asking, Permitted
  <1>10. ASSUME NEW r \in Runs, FinishBatch(r) PROVE Bounded'
    BY <1>10 DEF FinishBatch, Goto, TypeOK, Bounded, Counting, Asking, Permitted
  <1>11. ASSUME NEW r \in Runs, StartCall(r) \/ AuthorizerAccepts(r) \/ PassCheck(r) PROVE Bounded'
    BY <1>11, BoundedStays DEF StartCall, AuthorizerAccepts, PassCheck, Goto, Asking, Permitted
  <1>12. ASSUME NEW r \in Runs, CallTool(r) \/ ToolReturns(r) \/ ToolCompletedPublished(r) PROVE Bounded'
    BY <1>12, BoundedStays DEF CallTool, ToolReturns, ToolCompletedPublished, Goto, Asking, Permitted
  <1>13. ASSUME NEW r \in Runs, RunCompletedPublished(r) PROVE Bounded'
    BY <1>13, BoundedStays DEF RunCompletedPublished, Return, Counting, Asking, Permitted
  <1>14. ASSUME (\E t \in ToolNames : Register(t)) \/ (\E r \in Runs : CtxDone(r))
                \/ AllReturned \/ UNCHANGED vars
         PROVE  Bounded'
    BY <1>14, <1>1 DEF Register, CtxDone, AllReturned, vars, others
  <1> QED
    BY <1>2, <1>3, <1>4, <1>5, <1>6, <1>7, <1>8, <1>9, <1>10, <1>11, <1>12, <1>13, <1>14
    DEF Next, OwnStep, DependencyReturns

ContractInv == TypeOK /\ Placed /\ Inv /\ Bounded

LEMMA ContractInvariant == Spec => []ContractInv
  <1>1. Init => Bounded
    BY DEF Init, Bounded, Counting, Asking, Permitted
  <1>2. ContractInv /\ [Next]_vars => ContractInv'
    BY TypeOKStep, InvStep, BoundedStep DEF ContractInv
  <1> QED
    BY <1>1, <1>2, TypeOKInit, InvInit, PTL DEF Spec, ContractInv

(***************************************************************************)
(* What the contract sees of one run.                                      *)
(***************************************************************************)
Busy(r) == pc[r] \in {"executing", "toolCompleted"}
Unseen(r) ==
    /\ phaseOf(r)' = phaseOf(r)
    /\ usefulTo(r)' = usefulTo(r)
    /\ Busy(r)' = Busy(r)

(* The other runs are not seen to move.                                    *)
LEMMA OthersUnseen ==
    ASSUME TypeOK, NEW r \in Runs, NEW label, pc' = [pc EXCEPT ![r] = label],
           \A q \in Runs \ {r} : /\ outcome'[q] = outcome[q] /\ step'[q] = step[q]
                                 /\ next'[q] = next[q] /\ lateGrants'[q] = lateGrants[q]
    PROVE  \A q \in Runs \ {r} : Unseen(q)
  BY DEF TypeOK, Unseen, phaseOf, usefulTo, Busy

(* A step that no run is seen to make.                                     *)
LEMMA Stutter ==
    ASSUME \A r \in Runs : Unseen(r), UNCHANGED <<done, grants, effects>>
    PROVE  UNCHANGED Contract!vars
  BY DEF Contract!vars, Unseen, Busy

(* Steps between two labels the contract does not tell apart.              *)
Quietly(r, label) ==
    /\ pc' = [pc EXCEPT ![r] = label]
    /\ UNCHANGED <<done, grants, effects, outcome, lateGrants>>
    /\ \A q \in Runs \ {r} : step'[q] = step[q] /\ next'[q] = next[q]

Plain == Labels \ ({"idle", "ended"} \cup Permitted)

LEMMA QuietStep ==
    ASSUME TypeOK, NEW r \in Runs, NEW label, Quietly(r, label),
           \/ pc[r] \in Plain /\ label \in Plain
           \/ UNCHANGED <<step, next>> /\ pc[r] = "granted" /\ label = "callTool"
           \/ pc[r] = "executing" /\ label = "toolCompleted"
    PROVE  UNCHANGED Contract!vars
  <1>0. pc'[r] = label
    BY DEF TypeOK, Quietly
  <1>1. Unseen(r)
    <2>1. CASE pc[r] \in Plain /\ label \in Plain
      BY <1>0, <2>1 DEF Plain, Permitted, Unseen, phaseOf, usefulTo, Busy
    <2>2. CASE UNCHANGED <<step, next>> /\ pc[r] = "granted" /\ label = "callTool"
      BY <1>0, <2>2 DEF Quietly, Unseen, phaseOf, usefulTo, Busy
    <2>3. CASE pc[r] = "executing" /\ label = "toolCompleted"
      BY <1>0, <2>3 DEF Unseen, phaseOf, usefulTo, Busy
    <2> QED
      BY <2>1, <2>2, <2>3
  <1>2. \A q \in Runs \ {r} : Unseen(q)
    BY OthersUnseen DEF Quietly
  <1> QED
    BY <1>1, <1>2, Stutter DEF Quietly

LEMMA UnseenSteps ==
    ASSUME ContractInv, NEW r \in Runs,
           \/ Published(r) \/ ResolveTools(r) \/ EnterLoop(r) \/ CallModel(r)
           \/ (\E t \in Turns : ModelReturns(r, t)) \/ TakeAnswer(r)
           \/ TakeBatch(r) \/ FinishBatch(r) \/ StartCall(r) \/ PassCheck(r) \/ ToolReturns(r)
    PROVE  UNCHANGED Contract!vars
  <1> USE DEF ContractInv
  <1>1. CASE Published(r)
    <2>1. pc[r] \in DOMAIN After /\ Quietly(r, After[pc[r]])
      BY <1>1 DEF Published, Goto, Quietly
    <2>2. pc[r] \in Plain /\ After[pc[r]] \in Plain
      BY <2>1, OwnLabels DEF After, Plain, Permitted, Labels, Awaiting, Publishing
    <2> QED
      BY <2>1, <2>2, QuietStep
  <1>2. CASE ResolveTools(r)
    <2>1. Quietly(r, "loop") /\ pc[r] = "resolving"
      BY <1>2 DEF ResolveTools, Goto, Quietly, TypeOK
    <2> QED
      BY <2>1, QuietStep DEF Plain, Permitted, Labels
  <1>3. CASE EnterLoop(r) \/ CallModel(r) \/ TakeAnswer(r)
    <2>1. \/ Quietly(r, "callModel") /\ pc[r] = "loop"
          \/ Quietly(r, "generating") /\ pc[r] = "callModel"
          \/ Quietly(r, "runCompleted") /\ pc[r] = "decide"
      BY <1>3 DEF EnterLoop, CallModel, TakeAnswer, Goto, Quietly, others
    <2> QED
      BY <2>1, QuietStep DEF Plain, Permitted, Labels, Awaiting, Publishing
  <1>4. CASE (\E t \in Turns : ModelReturns(r, t)) \/ StartCall(r)
    <2>1. \/ Quietly(r, "modelCompleted") /\ pc[r] = "generating"
          \/ Quietly(r, "toolStarted") /\ pc[r] = "nextCall"
      BY <1>4 DEF ModelReturns, StartCall, Goto, Quietly
    <2> QED
      BY <2>1, QuietStep DEF Plain, Permitted, Labels, Awaiting, Publishing
  <1>5. CASE TakeBatch(r) \/ FinishBatch(r)
    <2>1. \/ Quietly(r, "nextCall") /\ pc[r] = "decide"
          \/ Quietly(r, "loop") /\ pc[r] = "nextCall"
      BY <1>5 DEF TakeBatch, FinishBatch, Goto, Quietly, TypeOK
    <2> QED
      BY <2>1, QuietStep DEF Plain, Permitted, Labels, Awaiting, Publishing
  <1>6. CASE PassCheck(r) \/ ToolReturns(r)
    <2>1. \/ Quietly(r, "callTool") /\ UNCHANGED <<step, next>> /\ pc[r] = "granted"
          \/ Quietly(r, "toolCompleted") /\ pc[r] = "executing"
      BY <1>6 DEF PassCheck, ToolReturns, Goto, Quietly
    <2> QED
      BY <2>1, QuietStep
  <1> QED
    BY <1>1, <1>2, <1>3, <1>4, <1>5, <1>6

(***************************************************************************)
(* The steps the contract sees.                                            *)
(***************************************************************************)
LEMMA MapsTo ==
    ASSUME NEW r \in Runs, \A q \in Runs \ {r} : Unseen(q)
    PROVE  /\ [q \in Runs |-> phaseOf(q)]' = [[q \in Runs |-> phaseOf(q)] EXCEPT ![r] = phaseOf(r)']
           /\ [q \in Runs |-> usefulTo(q)]' = [[q \in Runs |-> usefulTo(q)] EXCEPT ![r] = usefulTo(r)']
           /\ [q \in Runs |-> pc[q] \in {"executing", "toolCompleted"}]' =
                 [[q \in Runs |-> pc[q] \in {"executing", "toolCompleted"}] EXCEPT ![r] = Busy(r)']
  BY DEF Unseen, Busy

LEMMA Keeps ==
    ASSUME NEW r \in Runs, \A q \in Runs \ {r} : Unseen(q)
    PROVE  /\ phaseOf(r)' = phaseOf(r) => UNCHANGED [q \in Runs |-> phaseOf(q)]
           /\ usefulTo(r)' = usefulTo(r) => UNCHANGED [q \in Runs |-> usefulTo(q)]
           /\ Busy(r)' = Busy(r) => UNCHANGED [q \in Runs |-> pc[q] \in {"executing", "toolCompleted"}]
  BY DEF Unseen, Busy

LEMMA OpenStep ==
    ASSUME ContractInv, NEW r \in Runs, NEW s \in Skills, Begin(r, s)
    PROVE  Contract!Open(r)
  <1>1. /\ pc[r] = "idle" /\ ~done[r] /\ pc' = [pc EXCEPT ![r] = "runStarted"]
        /\ UNCHANGED <<outcome, done, step, next, grants, lateGrants, effects>>
    BY DEF Begin, Goto
  <1>2. pc'[r] = "runStarted"
    BY <1>1 DEF ContractInv, TypeOK
  <1>3. /\ phaseOf(r) = "new" /\ phaseOf(r)' = "open"
        /\ usefulTo(r)' = usefulTo(r) /\ Busy(r)' = Busy(r)
    BY <1>1, <1>2 DEF phaseOf, usefulTo, Busy
  <1>4. \A q \in Runs \ {r} : Unseen(q)
    BY <1>1, OthersUnseen DEF ContractInv
  <1> QED
    <2>1. UNCHANGED [q \in Runs |-> usefulTo(q)]
          /\ UNCHANGED [q \in Runs |-> pc[q] \in {"executing", "toolCompleted"}]
      BY <1>3, <1>4, Keeps
    <2>2. [q \in Runs |-> phaseOf(q)]' = [[q \in Runs |-> phaseOf(q)] EXCEPT ![r] = "open"]
      BY <1>3, <1>4, MapsTo
    <2> QED
      BY <1>1, <1>3, <2>1, <2>2 DEF Contract!Open

LEMMA CancelStep ==
    ASSUME ContractInv, NEW r \in Runs, CtxDone(r)
    PROVE  Contract!Cancel(r)
  <1>1. /\ pc[r] # "ended" /\ ~done[r] /\ done' = [done EXCEPT ![r] = TRUE]
        /\ UNCHANGED <<pc, outcome, step, next, grants, lateGrants, effects>>
    BY DEF CtxDone
  <1>2. \A q \in Runs : Unseen(q)
    BY <1>1 DEF Unseen, phaseOf, usefulTo, Busy
  <1>3. phaseOf(r) \in {"new", "open"}
    BY <1>1 DEF phaseOf
  <1> QED
    BY <1>1, <1>2, <1>3 DEF Contract!Cancel, Unseen, Busy

LEMMA FailStep ==
    ASSUME ContractInv, NEW r \in Runs,
           BeginRefused(r) \/ Refuse(r) \/ CallFails(r) \/ ModelReturnsLate(r)
    PROVE  Contract!Fail(r)
  <1>1. PICK why \in Outcomes \ {"none", "answered"} :
          /\ pc' = [pc EXCEPT ![r] = "ended"] /\ outcome' = [outcome EXCEPT ![r] = why]
          /\ UNCHANGED <<done, step, next, grants, lateGrants, effects>>
    BY ErrorEnds DEF ContractInv, others
  <1>2. pc'[r] = "ended" /\ outcome'[r] = why
    BY <1>1 DEF ContractInv, TypeOK
  <1>3. pc[r] # "ended"
    <2>1. CASE Refuse(r)
      BY <2>1 DEF Refuse, Errs
    <2>2. CASE BeginRefused(r) \/ CallFails(r) \/ ModelReturnsLate(r)
      BY <2>2 DEF BeginRefused, CallFails, ModelReturnsLate, Awaiting, Publishing
    <2> QED
      BY <2>1, <2>2
  <1>4. /\ phaseOf(r) \in {"new", "open"} /\ phaseOf(r)' = "failed"
        /\ usefulTo(r)' = {} /\ Busy(r)' = FALSE
    BY <1>2, <1>3 DEF phaseOf, usefulTo, Busy
  <1>5. \A q \in Runs \ {r} : Unseen(q)
    BY <1>1, OthersUnseen DEF ContractInv, TypeOK
  <1> QED
    BY <1>1, <1>4, <1>5, MapsTo DEF Contract!Fail

LEMMA PermitStep ==
    ASSUME ContractInv, NEW r \in Runs, AuthorizerAccepts(r)
    PROVE  \E o \in Contract!Call : Contract!Permit(r, o)
  <1>0. PICK o : o = here(r)
    OBVIOUS
  <1>1. /\ pc[r] = "authorizing" /\ pc' = [pc EXCEPT ![r] = "granted"]
        /\ grants' = [grants EXCEPT ![r] = @ \cup {o}]
        /\ lateGrants' = [lateGrants EXCEPT ![r] = IF done[r] THEN @ \cup {o} ELSE @]
        /\ UNCHANGED <<outcome, done, step, next, effects>>
    BY <1>0 DEF AuthorizerAccepts, Goto, here
  <1>2. pc'[r] = "granted" /\ lateGrants'[r] = IF done[r] THEN lateGrants[r] \cup {o} ELSE lateGrants[r]
    BY <1>1 DEF ContractInv, TypeOK
  <1>3. o \in Contract!Call
    <2>1. step[r] \in 1..MaxSteps /\ Len(turn[r].calls) <= MaxToolCalls
      BY <1>1 DEF ContractInv, Bounded, Asking
    <2>2. next[r] \in 1..Len(turn[r].calls) /\ Len(turn[r].calls) \in Nat
      BY <1>1, CallsTyped DEF ContractInv, Placed, InCall
    <2>3. next[r] \in 1..MaxToolCalls
      BY <2>1, <2>2, ConfigAssumption
    <2> QED
      BY <1>0, <2>1, <2>3 DEF Contract!Call, here
  <1>4. \A i \in DOMAIN effects[r] : Before(effects[r][i], o)
    BY <1>0, <1>1 DEF ContractInv, Inv, Facts, Positioned, Executed, Asking
  <1>5. usefulTo(r)' = IF done[r] THEN {} ELSE {o}
    <2>1. ~done[r] => lateGrants[r] = {}
      BY DEF ContractInv, Inv, Facts, Cancelled
    <2>2. usefulTo(r)' = {o} \ lateGrants'[r]
      BY <1>0, <1>1, <1>2 DEF usefulTo, here
    <2> QED
      BY <1>2, <2>1, <2>2
  <1>6. phaseOf(r) = "open" /\ phaseOf(r)' = "open" /\ Busy(r) = FALSE /\ Busy(r)' = FALSE
    BY <1>1, <1>2 DEF phaseOf, Busy
  <1>7. \A q \in Runs \ {r} : Unseen(q)
    BY <1>1, OthersUnseen DEF ContractInv, TypeOK
  <1>8. Contract!Later(r, o)
    BY <1>4 DEF Contract!Later, Contract!Before, Before
  <1> QED
    <2>1. UNCHANGED [q \in Runs |-> phaseOf(q)]
          /\ UNCHANGED [q \in Runs |-> pc[q] \in {"executing", "toolCompleted"}]
      BY <1>6, <1>7, Keeps
    <2>2. [q \in Runs |-> usefulTo(q)]' =
              [[q \in Runs |-> usefulTo(q)] EXCEPT ![r] = IF done[r] THEN {} ELSE {o}]
      BY <1>5, <1>7, MapsTo
    <2>3. ~[q \in Runs |-> pc[q] \in {"executing", "toolCompleted"}][r]
      BY <1>1
    <2>4. Contract!Permit(r, o)
      BY <1>1, <1>6, <1>8, <2>1, <2>2, <2>3 DEF Contract!Permit
    <2> QED
      BY <1>3, <2>4

LEMMA PerformStep ==
    ASSUME ContractInv, NEW r \in Runs, CallTool(r)
    PROVE  \E o \in Contract!Call : Contract!Perform(r, o)
  <1>0. PICK o : o = here(r)
    OBVIOUS
  <1>1. /\ pc[r] = "callTool" /\ pc' = [pc EXCEPT ![r] = "executing"]
        /\ effects' = [effects EXCEPT ![r] = Append(@, o)]
        /\ UNCHANGED <<outcome, done, step, next, grants, lateGrants>>
    BY <1>0 DEF CallTool, Goto, here
  <1>2. pc'[r] = "executing"
    BY <1>1 DEF ContractInv, TypeOK
  <1>3. o \in Contract!Call
    <2>1. step[r] \in 1..MaxSteps /\ Len(turn[r].calls) <= MaxToolCalls
      BY <1>1 DEF ContractInv, Bounded, Permitted
    <2>2. next[r] \in 1..Len(turn[r].calls) /\ Len(turn[r].calls) \in Nat
      BY <1>1, CallsTyped DEF ContractInv, Placed, InCall
    <2>3. next[r] \in 1..MaxToolCalls
      BY <2>1, <2>2, ConfigAssumption
    <2> QED
      BY <1>0, <2>1, <2>3 DEF Contract!Call, here
  <1>4. \A i \in DOMAIN effects[r] : Before(effects[r][i], o)
    BY <1>0, <1>1 DEF ContractInv, Inv, Facts, Executed
  <1>5. Len(effects[r]) < MaxToolCalls
    <2>1. effects[r] \in Seq(Occurrence) /\ toolCalls[r] \in Nat
      BY DEF ContractInv, TypeOK
    <2>2. Len(effects[r]) + 1 = toolCalls[r] /\ toolCalls[r] <= MaxToolCalls
      BY <1>1 DEF ContractInv, Inv, Facts, Funded
    <2>3. Len(effects[r]) \in Nat
      BY <2>1
    <2> QED
      BY <2>1, <2>2, <2>3, ConfigAssumption
  <1>6. usefulTo(r) = {o} /\ usefulTo(r)' = {}
    <2>1. o \notin lateGrants[r]
      BY <1>0, <1>1 DEF ContractInv, Inv, Facts, Cancelled
    <2> QED
      BY <1>0, <1>1, <1>2, <2>1 DEF usefulTo, here
  <1>7. phaseOf(r) = "open" /\ phaseOf(r)' = "open" /\ Busy(r) = FALSE /\ Busy(r)' = TRUE
    BY <1>1, <1>2 DEF phaseOf, Busy
  <1>8. \A q \in Runs \ {r} : Unseen(q)
    BY <1>1, OthersUnseen DEF ContractInv
  <1>9. Contract!Later(r, o)
    BY <1>4 DEF Contract!Later, Contract!Before, Before
  <1> QED
    <2>1. Contract!Perform(r, o)
      BY <1>1, <1>5, <1>6, <1>7, <1>8, <1>9, MapsTo DEF Contract!Perform, Busy
    <2> QED
      BY <1>3, <2>1

LEMMA SettleStep ==
    ASSUME ContractInv, NEW r \in Runs, ToolCompletedPublished(r)
    PROVE  Contract!Settle(r)
  <1>1. /\ pc[r] = "toolCompleted" /\ pc' = [pc EXCEPT ![r] = "nextCall"]
        /\ \A q \in Runs \ {r} : next'[q] = next[q]
        /\ UNCHANGED <<outcome, done, step, grants, lateGrants, effects>>
    BY DEF ToolCompletedPublished, Goto, ContractInv, TypeOK
  <1>2. pc'[r] = "nextCall"
    BY <1>1 DEF ContractInv, TypeOK
  <1>3. /\ phaseOf(r) = "open" /\ phaseOf(r)' = "open" /\ usefulTo(r)' = usefulTo(r)
        /\ Busy(r) = TRUE /\ Busy(r)' = FALSE
    BY <1>1, <1>2 DEF phaseOf, usefulTo, Busy
  <1>4. \A q \in Runs \ {r} : Unseen(q)
    BY <1>1, OthersUnseen DEF ContractInv
  <1> QED
    BY <1>1, <1>3, <1>4, MapsTo, ZenonT(30) DEF Contract!Settle, Busy

LEMMA AnswerStep ==
    ASSUME ContractInv, NEW r \in Runs, RunCompletedPublished(r)
    PROVE  Contract!Answer(r)
  <1>1. /\ pc[r] = "runCompleted" /\ pc' = [pc EXCEPT ![r] = "ended"]
        /\ outcome' = [outcome EXCEPT ![r] = "answered"]
        /\ UNCHANGED <<done, step, next, grants, lateGrants, effects>>
    BY DEF RunCompletedPublished, Return
  <1>2. pc'[r] = "ended" /\ outcome'[r] = "answered"
    BY <1>1 DEF ContractInv, TypeOK
  <1>3. /\ phaseOf(r) = "open" /\ phaseOf(r)' = "answered"
        /\ usefulTo(r) = {} /\ usefulTo(r)' = {} /\ Busy(r) = FALSE /\ Busy(r)' = FALSE
    BY <1>1, <1>2 DEF phaseOf, usefulTo, Busy
  <1>4. \A q \in Runs \ {r} : Unseen(q)
    BY <1>1, OthersUnseen DEF ContractInv, TypeOK
  <1> QED
    <2>1. UNCHANGED [q \in Runs |-> usefulTo(q)]
          /\ UNCHANGED [q \in Runs |-> pc[q] \in {"executing", "toolCompleted"}]
      BY <1>3, <1>4, Keeps
    <2>2. [q \in Runs |-> phaseOf(q)]' = [[q \in Runs |-> phaseOf(q)] EXCEPT ![r] = "answered"]
      BY <1>3, <1>4, MapsTo
    <2>3. ~[q \in Runs |-> pc[q] \in {"executing", "toolCompleted"}][r]
      BY <1>1
    <2> QED
      BY <1>1, <1>3, <2>1, <2>2, <2>3 DEF Contract!Answer

LEMMA StepMaps == ContractInv /\ [Next]_vars => [Contract!Next]_(Contract!vars)
  <1> SUFFICES ASSUME ContractInv, [Next]_vars PROVE Contract!Next \/ UNCHANGED Contract!vars
    OBVIOUS
  <1>1. ASSUME (\E t \in ToolNames : Register(t)) \/ AllReturned \/ UNCHANGED vars
        PROVE  UNCHANGED Contract!vars
    <2>1. UNCHANGED <<pc, outcome, done, step, next, grants, lateGrants, effects>>
      BY <1>1 DEF Register, AllReturned, vars, others
    <2> QED
      BY <2>1, Stutter DEF Unseen, phaseOf, usefulTo, Busy
  <1>2. ASSUME NEW r \in Runs, NEW s \in Skills, Begin(r, s) PROVE Contract!Next
    BY <1>2, OpenStep DEF Contract!Next
  <1>3. ASSUME NEW r \in Runs, CtxDone(r) PROVE Contract!Next
    BY <1>3, CancelStep DEF Contract!Next
  <1>4. ASSUME NEW r \in Runs, BeginRefused(r) \/ Refuse(r) \/ CallFails(r) \/ ModelReturnsLate(r)
        PROVE  Contract!Next
    BY <1>4, FailStep DEF Contract!Next
  <1>5. ASSUME NEW r \in Runs, AuthorizerAccepts(r) PROVE Contract!Next
    BY <1>5, PermitStep DEF Contract!Next
  <1>6. ASSUME NEW r \in Runs, CallTool(r) PROVE Contract!Next
    BY <1>6, PerformStep DEF Contract!Next
  <1>7. ASSUME NEW r \in Runs, ToolCompletedPublished(r) PROVE Contract!Next
    BY <1>7, SettleStep DEF Contract!Next
  <1>8. ASSUME NEW r \in Runs, RunCompletedPublished(r) PROVE Contract!Next
    BY <1>8, AnswerStep DEF Contract!Next
  <1> QED
    BY <1>1, <1>2, <1>3, <1>4, <1>5, <1>6, <1>7, <1>8, UnseenSteps
    DEF Next, OwnStep, DependencyReturns

(* The runtime implements its contract: whatever the model, the tools, the *)
(* authorizer and the sink do, and however many runs there are, an effect  *)
(* has a timely permission of its own, comes in order, at most once and    *)
(* within the budget (agent/runtime.go:155-229).                           *)
THEOREM Implements == Spec => ContractSpec
  <1>1. Init => Contract!Init
    <2> SUFFICES ASSUME Init PROVE Contract!Init
      OBVIOUS
    <2>1. \A r \in Runs : pc[r] = "idle" /\ phaseOf(r) = "new" /\ usefulTo(r) = {}
      BY DEF Init, phaseOf, usefulTo
    <2>2. /\ [r \in Runs |-> phaseOf(r)] = [r \in Runs |-> "new"]
          /\ [r \in Runs |-> usefulTo(r)] = [r \in Runs |-> {}]
      BY <2>1
    <2>3. \A r \in Runs : (pc[r] \in {"executing", "toolCompleted"}) = FALSE
      BY <2>1
    <2>4. [r \in Runs |-> pc[r] \in {"executing", "toolCompleted"}] = [r \in Runs |-> FALSE]
      BY <2>3, Zenon
    <2> QED
      BY <2>2, <2>4 DEF Init, Contract!Init
  <1> QED
    BY <1>1, StepMaps, ContractInvariant, PTL DEF Spec, ContractSpec, Contract!Spec

(***************************************************************************)
(* A run comes to its end.  That it is scheduled, and that dependencies    *)
(* return, is left to fairness; that it cannot go on for ever is not: what *)
(* a run may still do is a number, which each of its steps lowers.  A turn *)
(* left is worth 20 and a call left 10, so that going back to the head of  *)
(* the loop, or on from a permission to the tool, is a step down as well.  *)
(***************************************************************************)
Ahead == [idle |-> 6, runStarted |-> 5, skillSelected |-> 4, resolving |-> 3,
          loop |-> 22, callModel |-> 21, generating |-> 20, modelCompleted |-> 19, decide |-> 18,
          callTool |-> 10, executing |-> 9, toolCompleted |-> 8,
          nextCall |-> 4, toolStarted |-> 3, authorizing |-> 2, granted |-> 1,
          runCompleted |-> 1, ended |-> 0]

remaining(r) == 20 * (MaxSteps + 1 - step[r]) + 10 * (MaxToolCalls - toolCalls[r]) + Ahead[pc[r]]

TurnsCounted == \A r \in Runs :
    /\ step[r] <= MaxSteps + 1
    /\ pc[r] \in BeforeLoop => step[r] = 0

LEMMA Labelled ==
    /\ \A label \in Labels : Ahead[label] \in Nat
    /\ Ahead.idle = 6 /\ Ahead.runStarted = 5 /\ Ahead.skillSelected = 4 /\ Ahead.resolving = 3
    /\ Ahead.loop = 22 /\ Ahead.callModel = 21 /\ Ahead.generating = 20
    /\ Ahead.modelCompleted = 19 /\ Ahead.decide = 18 /\ Ahead.callTool = 10
    /\ Ahead.executing = 9 /\ Ahead.toolCompleted = 8 /\ Ahead.nextCall = 4 /\ Ahead.toolStarted = 3
    /\ Ahead.authorizing = 2 /\ Ahead.granted = 1 /\ Ahead.runCompleted = 1 /\ Ahead.ended = 0
    /\ \A label \in Labels \ {"ended"} : Ahead[label] > 0
    /\ \A label \in DOMAIN After : Ahead[After[label]] < Ahead[label]
  BY DEF Ahead, Labels, Awaiting, Publishing, After

Lowers(r) == remaining(r)' < remaining(r) /\ \A q \in Runs \ {r} : remaining(q)' = remaining(q)

(* The arithmetic of a step: it may go on to a label with more ahead of it *)
(* when it spends a turn or a call.                                        *)
LEMMA Spent ==
    ASSUME NEW steps \in Nat, NEW calls \in Nat, NEW s \in Nat, NEW c \in Nat, NEW before \in Nat,
           NEW after \in Nat, NEW turnsOn \in Nat, NEW callsOn \in Nat,
           after < before + 20 * turnsOn + 10 * callsOn
    PROVE  20 * (steps + 1 - (s + turnsOn)) + 10 * (calls - (c + callsOn)) + after
             < 20 * (steps + 1 - s) + 10 * (calls - c) + before
  OBVIOUS

LEMMA MovesLower ==
    ASSUME TypeOK, NEW r \in Runs, NEW label \in Labels, NEW turnsOn \in Nat, NEW callsOn \in Nat,
           pc' = [pc EXCEPT ![r] = label], step' = [step EXCEPT ![r] = @ + turnsOn],
           toolCalls' = [toolCalls EXCEPT ![r] = @ + callsOn],
           Ahead[label] < Ahead[pc[r]] + 20 * turnsOn + 10 * callsOn
    PROVE  Lowers(r)
  <1>1. \A q \in Runs \ {r} : remaining(q)' = remaining(q)
    BY DEF remaining, TypeOK
  <1>2. /\ pc[r] \in Labels /\ step[r] \in Nat /\ toolCalls[r] \in Nat /\ pc'[r] = label
        /\ step'[r] = step[r] + turnsOn /\ toolCalls'[r] = toolCalls[r] + callsOn
    BY DEF TypeOK
  <1>3. Ahead[label] \in Nat /\ Ahead[pc[r]] \in Nat /\ MaxSteps \in Nat /\ MaxToolCalls \in Nat
    BY <1>2, Labelled, ConfigAssumption
  <1>4. 20 * (MaxSteps + 1 - (step[r] + turnsOn)) + 10 * (MaxToolCalls - (toolCalls[r] + callsOn)) + Ahead[label]
          < 20 * (MaxSteps + 1 - step[r]) + 10 * (MaxToolCalls - toolCalls[r]) + Ahead[pc[r]]
    BY <1>2, <1>3, Spent
  <1>5. remaining(r)' = 20 * (MaxSteps + 1 - (step[r] + turnsOn))
                          + 10 * (MaxToolCalls - (toolCalls[r] + callsOn)) + Ahead[label]
    BY <1>2 DEF remaining
  <1> QED
    BY <1>1, <1>4, <1>5 DEF remaining, Lowers

LEMMA LabelLowers ==
    ASSUME TypeOK, NEW r \in Runs, NEW label \in Labels, pc' = [pc EXCEPT ![r] = label],
           step' = step, toolCalls' = toolCalls, Ahead[label] < Ahead[pc[r]]
    PROVE  Lowers(r)
  <1>1. step' = [step EXCEPT ![r] = @ + 0] /\ toolCalls' = [toolCalls EXCEPT ![r] = @ + 0]
    BY DEF TypeOK
  <1>2. Ahead[label] < Ahead[pc[r]] + 20 * 0 + 10 * 0
    <2>1. pc[r] \in Labels
      BY DEF TypeOK
    <2>2. Ahead[pc[r]] \in Nat
      BY <2>1, Labelled
    <2> QED
      BY <2>2
  <1>3. 0 \in Nat
    OBVIOUS
  <1> HIDE DEF Lowers, TypeOK
  <1> QED
    BY <1>1, <1>2, <1>3, MovesLower

(* The steps that leave the counters alone, by the labels they lead from   *)
(* and to.                                                                 *)
Onward == {<<"idle", "runStarted">>, <<"loop", "callModel">>, <<"callModel", "generating">>,
           <<"generating", "modelCompleted">>, <<"decide", "runCompleted">>, <<"decide", "nextCall">>,
           <<"nextCall", "toolStarted">>, <<"authorizing", "granted">>, <<"callTool", "executing">>,
           <<"executing", "toolCompleted">>, <<"toolCompleted", "nextCall">>}
Goes(r, p) == /\ p \in Onward
              /\ pc[r] = p[1] /\ pc' = [pc EXCEPT ![r] = p[2]] /\ step' = step /\ toolCalls' = toolCalls

LEMMA OnwardLowers == ASSUME TypeOK, NEW r \in Runs, NEW p, Goes(r, p) PROVE Lowers(r)
  <1>1. p[2] \in Labels /\ Ahead[p[2]] < Ahead[p[1]]
    BY OwnLabels, Labelled DEF Onward, Goes
  <1>2. /\ pc' = [pc EXCEPT ![r] = p[2]] /\ step' = step /\ toolCalls' = toolCalls
        /\ Ahead[p[2]] < Ahead[pc[r]]
    BY <1>1 DEF Goes
  <1> HIDE DEF Lowers, TypeOK
  <1> QED
    BY <1>1, <1>2, LabelLowers

LEMMA StepsLower ==
    ASSUME TypeOK, TurnsCounted, NEW r \in Runs,
           \/ (\E s \in Skills : Begin(r, s)) \/ BeginRefused(r) \/ OwnStep(r) \/ DependencyReturns(r)
    PROVE  Lowers(r)
  <1> HIDE DEF Lowers
  <1>0. pc[r] \in Labels /\ step \in [Runs -> Nat] /\ toolCalls \in [Runs -> Nat]
    BY DEF TypeOK
  <1>1. ASSUME NEW s \in Skills, Begin(r, s) PROVE Lowers(r)
    <2>1. Goes(r, <<"idle", "runStarted">>)
      BY <1>1 DEF Begin, Goto, Goes, Onward
    <2> QED
      BY <2>1, OnwardLowers
  <1>2. CASE BeginRefused(r) \/ Refuse(r) \/ CallFails(r) \/ ModelReturnsLate(r)
    <2>1. pc' = [pc EXCEPT ![r] = "ended"] /\ step' = step /\ toolCalls' = toolCalls
      BY <1>2, ErrorEnds DEF others
    <2>2. pc[r] # "ended"
      BY <1>2 DEF BeginRefused, Refuse, Errs, CallFails, ModelReturnsLate, Awaiting, Publishing
    <2>3. "ended" \in Labels /\ Ahead["ended"] < Ahead[pc[r]]
      BY <1>0, <2>2, OwnLabels, Labelled
    <2> QED
      BY <2>1, <2>3, LabelLowers
  <1>3. CASE Published(r)
    <2>1. pc' = [pc EXCEPT ![r] = After[pc[r]]] /\ step' = step /\ toolCalls' = toolCalls
          /\ pc[r] \in DOMAIN After
      BY <1>3 DEF Published, Goto
    <2>2. After[pc[r]] \in Labels /\ Ahead[After[pc[r]]] < Ahead[pc[r]]
      BY <2>1, OwnLabels, Labelled
    <2> QED
      BY <2>1, <2>2, LabelLowers
  <1>4. CASE ResolveTools(r)
    <2>1. step' = [step EXCEPT ![r] = 1] /\ pc' = [pc EXCEPT ![r] = "loop"] /\ toolCalls' = toolCalls
          /\ pc[r] = "resolving"
      BY <1>4 DEF ResolveTools, Goto
    <2>2. step[r] = 0
      BY <2>1 DEF TurnsCounted, BeforeLoop
    <2>3. step' = [step EXCEPT ![r] = @ + 1] /\ toolCalls' = [toolCalls EXCEPT ![r] = @ + 0]
      BY <1>0, <2>1, <2>2
    <2>4. "loop" \in Labels /\ Ahead["loop"] < Ahead[pc[r]] + 20 * 1 + 10 * 0
      BY <2>1, OwnLabels, Labelled
    <2> QED
      BY <2>1, <2>3, <2>4, MovesLower
  <1>5. CASE EnterLoop(r)
    <2>1. Goes(r, <<"loop", "callModel">>)
      BY <1>5 DEF EnterLoop, Goto, others, Goes, Onward
    <2> QED
      BY <2>1, OnwardLowers
  <1>6. CASE CallModel(r)
    <2>1. Goes(r, <<"callModel", "generating">>)
      BY <1>6 DEF CallModel, Goto, Goes, Onward
    <2> QED
      BY <2>1, OnwardLowers
  <1>7. CASE TakeAnswer(r)
    <2>1. Goes(r, <<"decide", "runCompleted">>)
      BY <1>7 DEF TakeAnswer, Goto, others, Goes, Onward
    <2> QED
      BY <2>1, OnwardLowers
  <1>8. CASE TakeBatch(r)
    <2>1. Goes(r, <<"decide", "nextCall">>)
      BY <1>8 DEF TakeBatch, Goto, Goes, Onward
    <2> QED
      BY <2>1, OnwardLowers
  <1>9. CASE FinishBatch(r)
    <2>1. step' = [step EXCEPT ![r] = @ + 1] /\ pc' = [pc EXCEPT ![r] = "loop"] /\ toolCalls' = toolCalls
          /\ pc[r] = "nextCall"
      BY <1>9 DEF FinishBatch, Goto
    <2>2. toolCalls' = [toolCalls EXCEPT ![r] = @ + 0]
      BY <1>0, <2>1
    <2>3. "loop" \in Labels /\ Ahead["loop"] < Ahead[pc[r]] + 20 * 1 + 10 * 0
      BY <2>1, OwnLabels, Labelled
    <2> QED
      BY <2>1, <2>2, <2>3, MovesLower
  <1>10. CASE StartCall(r)
    <2>1. Goes(r, <<"nextCall", "toolStarted">>)
      BY <1>10 DEF StartCall, Goto, Goes, Onward
    <2> QED
      BY <2>1, OnwardLowers
  <1>11. CASE PassCheck(r)
    <2>1. toolCalls' = [toolCalls EXCEPT ![r] = @ + 1] /\ pc' = [pc EXCEPT ![r] = "callTool"]
          /\ step' = step /\ pc[r] = "granted"
      BY <1>11 DEF PassCheck, Goto
    <2>2. step' = [step EXCEPT ![r] = @ + 0]
      BY <1>0, <2>1
    <2>3. "callTool" \in Labels /\ Ahead["callTool"] < Ahead[pc[r]] + 20 * 0 + 10 * 1
      BY <2>1, OwnLabels, Labelled
    <2> QED
      BY <2>1, <2>2, <2>3, MovesLower
  <1>12. CASE CallTool(r)
    <2>1. Goes(r, <<"callTool", "executing">>)
      BY <1>12 DEF CallTool, Goto, Goes, Onward
    <2> QED
      BY <2>1, OnwardLowers
  <1>13. ASSUME NEW t \in Turns, ModelReturns(r, t) PROVE Lowers(r)
    <2>1. Goes(r, <<"generating", "modelCompleted">>)
      BY <1>13 DEF ModelReturns, Goto, Goes, Onward
    <2> QED
      BY <2>1, OnwardLowers
  <1>14. CASE AuthorizerAccepts(r)
    <2>1. Goes(r, <<"authorizing", "granted">>)
      BY <1>14 DEF AuthorizerAccepts, Goto, Goes, Onward
    <2> QED
      BY <2>1, OnwardLowers
  <1>15. CASE ToolReturns(r)
    <2>1. Goes(r, <<"executing", "toolCompleted">>)
      BY <1>15 DEF ToolReturns, Goto, Goes, Onward
    <2> QED
      BY <2>1, OnwardLowers
  <1>16. CASE ToolCompletedPublished(r)
    <2>1. Goes(r, <<"toolCompleted", "nextCall">>)
      BY <1>16 DEF ToolCompletedPublished, Goto, Goes, Onward
    <2> QED
      BY <2>1, OnwardLowers
  <1>17. CASE RunCompletedPublished(r)
    <2>1. pc' = [pc EXCEPT ![r] = "ended"] /\ step' = step /\ toolCalls' = toolCalls
          /\ pc[r] = "runCompleted"
      BY <1>17 DEF RunCompletedPublished, Return
    <2>2. "ended" \in Labels /\ Ahead["ended"] < Ahead[pc[r]]
      BY <2>1, OwnLabels, Labelled
    <2> QED
      BY <2>1, <2>2, LabelLowers
  <1> QED
    BY <1>1, <1>2, <1>3, <1>4, <1>5, <1>6, <1>7, <1>8, <1>9, <1>10, <1>11, <1>12, <1>13, <1>14,
       <1>15, <1>16, <1>17 DEF OwnStep, DependencyReturns

(* No other step gives a run more to do.                                   *)
LEMMA NextLowers ==
    ASSUME TypeOK, TypeOK', TurnsCounted, [Next]_vars, NEW r \in Runs
    PROVE  /\ remaining(r)' <= remaining(r)
           /\ OwnStep(r) \/ DependencyReturns(r) => remaining(r)' < remaining(r)
  <1>1. remaining(r) \in Int /\ remaining(r)' \in Int
    <2>1. pc[r] \in Labels /\ step[r] \in Nat /\ toolCalls[r] \in Nat
          /\ pc'[r] \in Labels /\ step'[r] \in Nat /\ toolCalls'[r] \in Nat
      BY DEF TypeOK
    <2>2. Ahead[pc[r]] \in Nat /\ Ahead[pc'[r]] \in Nat /\ MaxSteps \in Nat /\ MaxToolCalls \in Nat
      BY <2>1, Labelled, ConfigAssumption
    <2> HIDE DEF TypeOK
    <2> QED
      BY <2>1, <2>2 DEF remaining
  <1>2. OwnStep(r) \/ DependencyReturns(r) => remaining(r)' < remaining(r)
    BY StepsLower DEF Lowers
  <1>3. ASSUME NEW q \in Runs,
               \/ (\E s \in Skills : Begin(q, s)) \/ BeginRefused(q) \/ OwnStep(q) \/ DependencyReturns(q)
        PROVE  remaining(r)' < remaining(r) \/ remaining(r)' = remaining(r)
    BY <1>3, StepsLower DEF Lowers
  <1>4. ASSUME (\E t \in ToolNames : Register(t)) \/ (\E q \in Runs : CtxDone(q))
               \/ AllReturned \/ UNCHANGED vars
        PROVE  remaining(r)' = remaining(r)
    <2>1. UNCHANGED <<pc, step, toolCalls>>
      BY <1>4 DEF Register, CtxDone, AllReturned, vars, control, others, position
    <2> QED
      BY <2>1 DEF remaining
  <1>5. remaining(r)' < remaining(r) \/ remaining(r)' = remaining(r)
    BY <1>3, <1>4 DEF Next
  <1>6. \A a, b \in Int : a < b \/ a = b => a <= b
    OBVIOUS
  <1> QED
    BY <1>1, <1>2, <1>5, <1>6

LEMMA TurnsCountedStep ==
    ASSUME ContractInv, TurnsCounted, [Next]_vars
    PROVE  TurnsCounted'
  <1> USE ConfigAssumption DEF ContractInv
  <1>1. CASE UNCHANGED <<pc, step>>
    BY <1>1 DEF TurnsCounted
  <1>2. ASSUME NEW r \in Runs, NEW label \in Labels, pc' = [pc EXCEPT ![r] = label], step' = step,
               label \in BeforeLoop => pc[r] \in BeforeLoop
        PROVE  TurnsCounted'
    BY <1>2 DEF TurnsCounted, TypeOK
  <1>3. ASSUME NEW r \in Runs,
               BeginRefused(r) \/ Refuse(r) \/ CallFails(r) \/ ModelReturnsLate(r)
        PROVE  TurnsCounted'
    <2>1. pc' = [pc EXCEPT ![r] = "ended"] /\ step' = step
      BY <1>3, ErrorEnds DEF others
    <2> QED
      BY <1>2, <2>1, OwnLabels DEF BeforeLoop
  <1>4. ASSUME NEW r \in Runs, NEW s \in Skills, Begin(r, s) PROVE TurnsCounted'
    BY <1>2, <1>4, OwnLabels DEF Begin, Goto, BeforeLoop
  <1>5. ASSUME NEW r \in Runs, Published(r) PROVE TurnsCounted'
    <2>1. pc' = [pc EXCEPT ![r] = After[pc[r]]] /\ step' = step /\ pc[r] \in DOMAIN After
      BY <1>5 DEF Published, Goto
    <2>2. After[pc[r]] \in BeforeLoop => pc[r] \in BeforeLoop
      BY <2>1 DEF After, BeforeLoop
    <2> QED
      BY <1>2, <2>1, <2>2, OwnLabels
  <1>6. ASSUME NEW r \in Runs, ResolveTools(r) PROVE TurnsCounted'
    <2>1. step' = [step EXCEPT ![r] = 1] /\ pc' = [pc EXCEPT ![r] = "loop"] /\ pc[r] = "resolving"
      BY <1>6 DEF ResolveTools, Goto
    <2>2. ASSUME NEW q \in Runs
          PROVE  step'[q] <= MaxSteps + 1 /\ (pc'[q] \in BeforeLoop => step'[q] = 0)
      <3>1. CASE q = r
        BY <2>1, <3>1, ConfigAssumption DEF TypeOK, BeforeLoop
      <3>2. CASE q # r
        BY <2>1, <3>2 DEF TypeOK, TurnsCounted
      <3> QED
        BY <3>1, <3>2
    <2> QED
      BY <2>2 DEF TurnsCounted
  <1>7. ASSUME NEW r \in Runs, FinishBatch(r) PROVE TurnsCounted'
    <2>1. step[r] \in 1..MaxSteps
      BY <1>7 DEF FinishBatch, Bounded, Asking
    <2>2. step' = [step EXCEPT ![r] = @ + 1] /\ pc' = [pc EXCEPT ![r] = "loop"]
      BY <1>7 DEF FinishBatch, Goto
    <2>3. ASSUME NEW q \in Runs
          PROVE  step'[q] <= MaxSteps + 1 /\ (pc'[q] \in BeforeLoop => step'[q] = 0)
      <3>1. CASE q = r
        BY <2>1, <2>2, <3>1, ConfigAssumption DEF TypeOK, BeforeLoop
      <3>2. CASE q # r
        BY <2>2, <3>2 DEF TypeOK, TurnsCounted
      <3> QED
        BY <3>1, <3>2
    <2> QED
      BY <2>3 DEF TurnsCounted
  <1>8. ASSUME NEW r \in Runs,
               \/ EnterLoop(r) \/ CallModel(r) \/ TakeAnswer(r) \/ TakeBatch(r) \/ StartCall(r)
               \/ PassCheck(r) \/ CallTool(r)
        PROVE  TurnsCounted'
    BY <1>2, <1>8, OwnLabels
    DEF EnterLoop, CallModel, TakeAnswer, TakeBatch, StartCall, PassCheck, CallTool, Goto, others, BeforeLoop
  <1>9. ASSUME NEW r \in Runs, NEW t \in Turns, ModelReturns(r, t) PROVE TurnsCounted'
    BY <1>2, <1>9, OwnLabels DEF ModelReturns, Goto, BeforeLoop
  <1>10. ASSUME NEW r \in Runs,
                \/ AuthorizerAccepts(r) \/ ToolReturns(r) \/ ToolCompletedPublished(r)
                \/ RunCompletedPublished(r)
         PROVE  TurnsCounted'
    BY <1>2, <1>10, OwnLabels
    DEF AuthorizerAccepts, ToolReturns, ToolCompletedPublished, RunCompletedPublished, Goto, Return, BeforeLoop
  <1>11. ASSUME (\E t \in ToolNames : Register(t)) \/ (\E r \in Runs : CtxDone(r))
                \/ AllReturned \/ UNCHANGED vars
         PROVE  TurnsCounted'
    BY <1>1, <1>11 DEF Register, CtxDone, AllReturned, vars, control, others
  <1> QED
    BY <1>3, <1>4, <1>5, <1>6, <1>7, <1>8, <1>9, <1>10, <1>11 DEF Next, OwnStep, DependencyReturns

FiniteInv == ContractInv /\ TurnsCounted

LEMMA FiniteInvariant == Spec => []FiniteInv
  <1>1. Init => TurnsCounted
    BY ConfigAssumption DEF Init, TurnsCounted
  <1>2. ContractInv /\ TurnsCounted /\ [Next]_vars => TurnsCounted'
    BY TurnsCountedStep
  <1> QED
    BY <1>1, <1>2, ContractInvariant, PTL DEF Spec, FiniteInv

Advances ==
    \A r \in Runs : /\ remaining(r)' <= remaining(r)
                    /\ OwnStep(r) \/ DependencyReturns(r) => remaining(r)' < remaining(r)

(* A run is finite: what it may still do is a natural number, less after   *)
(* every step of its own and every answer of a dependency, and no more     *)
(* after anything else.  So neither the turns of the model nor the other   *)
(* runs can keep a run going, and no path leads back into the loop without *)
(* being counted (the loops at 155, 192 and 229, the budget at 182).       *)
THEOREM RunsAreFinite ==
    Spec => /\ [](\A r \in Runs : remaining(r) \in Nat)
            /\ [][Advances]_vars
  <1>1. FiniteInv => \A r \in Runs : remaining(r) \in Nat
    <2> SUFFICES ASSUME FiniteInv, NEW r \in Runs PROVE remaining(r) \in Nat
      OBVIOUS
    <2>1. step[r] \in Nat /\ toolCalls[r] \in Nat /\ pc[r] \in Labels
          /\ step[r] <= MaxSteps + 1 /\ toolCalls[r] <= MaxToolCalls
      BY DEF FiniteInv, ContractInv, TypeOK, TurnsCounted, Inv, Facts, Funded
    <2>2. Ahead[pc[r]] \in Nat /\ MaxSteps \in Nat /\ MaxToolCalls \in Nat
      BY <2>1, Labelled, ConfigAssumption
    <2> HIDE DEF FiniteInv
    <2>3. MaxSteps + 1 - step[r] \in Nat /\ MaxToolCalls - toolCalls[r] \in Nat
      BY <2>1, <2>2
    <2> QED
      BY <2>2, <2>3 DEF remaining
  <1>2. FiniteInv /\ FiniteInv' /\ [Next]_vars => Advances
    BY NextLowers DEF FiniteInv, ContractInv, Advances
  <1>3. Spec => [](\A r \in Runs : remaining(r) \in Nat)
    BY <1>1, FiniteInvariant, PTL
  <1>4. Spec => [][Advances]_vars
    BY <1>2, FiniteInvariant, PTL DEF Spec
  <1> QED
    BY <1>3, <1>4

---------------------------------------------------------------------------
(***************************************************************************)
(* Runs through the Responses API adapter: they are runs of AgentRuntime,  *)
(* the state that travels through the runtime is accepted when it comes    *)
(* back, and with every request the model has the whole transcript in      *)
(* front of it, its calls answered.                                        *)
(***************************************************************************)

(***************************************************************************)
(* Induction, and what a walk of n steps finds.  The library's theorems on *)
(* induction take an operator; these take sets and functions.              *)
(***************************************************************************)
LEMMA LeastNumber ==
    ASSUME NEW T, T \subseteq Nat, T # {}
    PROVE  \E n \in T : \A m \in T : n <= m
  <1> DEFINE R == OpToRel(<, Nat)
  <1>1. \E n \in T : \A m \in T : ~(<<m, n>> \in R)
    <2>1. IsWellFoundedOn(R, Nat)
      BY NatLessThanWellFounded
    <2> HIDE DEF R
    <2> QED
      BY <2>1, WFMin
  <1>2. PICK n \in T : \A m \in T : ~(<<m, n>> \in R)
    BY <1>1
  <1>3. \A m \in T : ~(m < n)
    BY <1>2 DEF OpToRel
  <1> QED
    BY <1>3

LEMMA StepByStep ==
    ASSUME NEW T, NEW n \in Nat, 0 \in T, \A i \in 1..n : i - 1 \in T => i \in T
    PROVE  \A i \in 0..n : i \in T
  <1> DEFINE U == {i \in 0..n : i \notin T}
  <1> SUFFICES ASSUME U # {} PROVE FALSE
    OBVIOUS
  <1>1. PICK i \in U : \A m \in U : i <= m
    <2>1. U \subseteq Nat
      OBVIOUS
    <2> HIDE DEF U
    <2> QED
      BY <2>1, LeastNumber
  <1>2. i # 0 /\ i - 1 \in 0..n /\ i - 1 \notin U
    BY <1>1
  <1> QED
    BY <1>1, <1>2

HasWalk(S, c, n, D) ==
    \E f \in [0..n -> S] : f[0] = c /\ \A i \in 1..n : f[i] = D[<<f[i - 1], i>>]

(* From c there is one step after another, when D knows a step from        *)
(* everywhere.                                                             *)
LEMMA Iteration ==
    ASSUME NEW S, NEW c, c \in S, NEW n, n \in Nat, NEW D, D \in [S \X (1..n) -> S]
    PROVE  HasWalk(S, c, n, D)
  <1> DEFINE Walk(f, k) == f[0] = c /\ \A i \in 1..k : f[i] = D[<<f[i - 1], i>>]
             T == {k \in 0..n : \E f \in [0..n -> S] : Walk(f, k)}
  <1>1. 0 \in T
    <2> DEFINE g == [i \in 0..n |-> c]
    <2>1. g \in [0..n -> S] /\ Walk(g, 0)
      OBVIOUS
    <2> HIDE DEF g, Walk
    <2> QED
      BY <2>1
  <1>2. ASSUME NEW k \in 1..n, k - 1 \in T PROVE k \in T
    <2>1. PICK f \in [0..n -> S] : Walk(f, k - 1)
      BY <1>2
    <2> DEFINE v == D[<<f[k - 1], k>>]
               g == [f EXCEPT ![k] = v]
    <2>2. g \in [0..n -> S] /\ g[k] = v /\ \A i \in 0..n : i # k => g[i] = f[i]
      OBVIOUS
    <2> HIDE DEF g
    <2>3. ASSUME NEW i \in 1..k PROVE g[i] = D[<<g[i - 1], i>>]
      <3>1. g[i - 1] = f[i - 1]
        BY <2>2
      <3>2. CASE i = k
        BY <2>2, <3>1, <3>2
      <3>3. CASE i # k
        BY <2>1, <2>2, <3>1, <3>3
      <3> QED
        BY <3>2, <3>3
    <2>4. Walk(g, k)
      BY <2>1, <2>2, <2>3
    <2> HIDE DEF Walk
    <2> QED
      BY <2>2, <2>4
  <1> HIDE DEF T
  <1>3. \A k \in 0..n : k \in T
    BY <1>1, <1>2, StepByStep
  <1>4. n \in T
    BY <1>3
  <1> QED
    BY <1>4 DEF T, HasWalk

(***************************************************************************)
(* Counting over sequences.                                                *)
(***************************************************************************)
Places(s, e) == {i \in DOMAIN s : s[i] = e}

LEMMA ByPlaces == ASSUME NEW s, NEW e PROVE Occurrences(s, e) = Cardinality(Places(s, e))
  BY DEF Occurrences, Places

LEMMA OccurrencesTyped ==
    ASSUME NEW s \in Seq(Item), NEW e
    PROVE  /\ IsFiniteSet(Places(s, e)) /\ Occurrences(s, e) \in Nat
           /\ Occurrences(s, e) # 0 <=> \E i \in 1..Len(s) : s[i] = e
  <1>1. IsFiniteSet(1..Len(s))
    BY FS_Interval
  <1>2. Places(s, e) \subseteq 1..Len(s)
    BY DEF Places
  <1>3. IsFiniteSet(Places(s, e)) /\ Cardinality(Places(s, e)) \in Nat
    BY <1>1, <1>2, FS_Subset, FS_CardinalityType
  <1>4. Cardinality(Places(s, e)) = 0 <=> Places(s, e) = {}
    BY <1>3, FS_EmptySet
  <1>5. Places(s, e) = {} <=> ~\E i \in 1..Len(s) : s[i] = e
    BY DEF Places
  <1> QED
    BY <1>3, <1>4, <1>5, ByPlaces

LEMMA OccurrencesEmpty == ASSUME NEW e PROVE Occurrences(<<>>, e) = 0
  <1>1. Places(<<>>, e) = {}
    BY DEF Places
  <1> QED
    BY <1>1, FS_EmptySet, ByPlaces

Longer(more, s, last) == more = Append(s, last)

LEMMA OccurrencesAppend ==
    ASSUME NEW s \in Seq(Item), NEW last \in Item, NEW e, NEW more, Longer(more, s, last)
    PROVE  Occurrences(more, e) = Occurrences(s, e) + (IF last = e THEN 1 ELSE 0)
  <1>1. IsFiniteSet(Places(s, e)) /\ Occurrences(s, e) \in Nat
    BY OccurrencesTyped
  <1>2. Len(s) + 1 \notin Places(s, e)
    BY DEF Places
  <1>3. Places(more, e) = IF last = e THEN Places(s, e) \cup {Len(s) + 1} ELSE Places(s, e)
    BY DEF Places, Longer
  <1>4. CASE last = e
    <2>1. Cardinality(Places(s, e) \cup {Len(s) + 1}) = Cardinality(Places(s, e)) + 1
      BY <1>1, <1>2, FS_AddElement
    <2> QED
      BY <1>3, <1>4, <2>1, ByPlaces
  <1>5. CASE last # e
    BY <1>1, <1>3, <1>5, ByPlaces
  <1> QED
    BY <1>4, <1>5

LEMMA OccurrencesConcat ==
    ASSUME NEW s \in Seq(Item), NEW t \in Seq(Item), NEW e
    PROVE  Occurrences(s \o t, e) = Occurrences(s, e) + Occurrences(t, e)
  <1> DEFINE n == Len(t)
             front(i) == s \o SubSeq(t, 1, i)
             T == {i \in 0..n : Occurrences(front(i), e) = Occurrences(s, e) + Occurrences(SubSeq(t, 1, i), e)}
  <1>1. n \in Nat /\ Occurrences(s, e) \in Nat
    BY OccurrencesTyped
  <1>2. 0 \in T
    <2>1. SubSeq(t, 1, 0) = <<>> /\ front(0) = s
      OBVIOUS
    <2> HIDE DEF T, front, n
    <2>3. Occurrences(SubSeq(t, 1, 0), e) = 0 /\ Occurrences(front(0), e) = Occurrences(s, e)
      BY <2>1, OccurrencesEmpty, Zenon
    <2>2. Occurrences(front(0), e) = Occurrences(s, e) + Occurrences(SubSeq(t, 1, 0), e)
      BY <1>1, <2>3
    <2> QED
      BY <1>1, <2>2 DEF T
  <1>3. ASSUME NEW i \in 1..n, i - 1 \in T PROVE i \in T
    <2> DEFINE u == SubSeq(t, 1, i - 1)
               v == SubSeq(t, 1, i)
    <2>1. /\ u \in Seq(Item) /\ v \in Seq(Item) /\ t[i] \in Item
          /\ v = Append(u, t[i])
      OBVIOUS
    <2>3. s \o u \in Seq(Item) /\ s \o v = Append(s \o u, t[i])
      BY <2>1
    <2>4. Occurrences(s \o u, e) = Occurrences(s, e) + Occurrences(u, e)
      BY <1>3
    <2> HIDE DEF u, v, T, front, n
    <2>5. /\ Occurrences(s \o v, e) = Occurrences(s \o u, e) + (IF t[i] = e THEN 1 ELSE 0)
          /\ Occurrences(v, e) = Occurrences(u, e) + (IF t[i] = e THEN 1 ELSE 0)
      <3> DEFINE x == s \o u
                 y == s \o v
      <3>1. x \in Seq(Item) /\ Longer(y, x, t[i]) /\ Longer(v, u, t[i])
        BY <2>1, <2>3 DEF Longer
      <3> HIDE DEF x, y
      <3>2. Occurrences(y, e) = Occurrences(x, e) + (IF t[i] = e THEN 1 ELSE 0)
        BY <2>1, <3>1, OccurrencesAppend
      <3>3. Occurrences(v, e) = Occurrences(u, e) + (IF t[i] = e THEN 1 ELSE 0)
        BY <2>1, <3>1, OccurrencesAppend
      <3> QED
        BY <3>2, <3>3 DEF x, y
    <2>6. Occurrences(u, e) \in Nat
      BY <2>1, OccurrencesTyped
    <2>7. Occurrences(s \o v, e) = Occurrences(s, e) + Occurrences(v, e)
      BY <1>1, <2>4, <2>5, <2>6
    <2> QED
      BY <2>7 DEF v, T, front
  <1> HIDE DEF T
  <1>4. \A i \in 0..n : i \in T
    BY <1>1, <1>2, <1>3, StepByStep
  <1>5. front(n) = s \o t /\ SubSeq(t, 1, n) = t
    OBVIOUS
  <1>6. n \in T
    BY <1>1, <1>4
  <1>7. Occurrences(front(n), e) = Occurrences(s, e) + Occurrences(SubSeq(t, 1, n), e)
    BY <1>6 DEF T
  <1> HIDE DEF front
  <1> QED
    BY <1>5, <1>7

(* A transcript splits in what a response has covered and what has come    *)
(* since.                                                                  *)
LEMMA OccurrencesSplit ==
    ASSUME NEW s \in Seq(Item), NEW c \in 0..Len(s), NEW e
    PROVE  /\ SubSeq(s, 1, c) \in Seq(Item) /\ SubSeq(s, c + 1, Len(s)) \in Seq(Item)
           /\ Occurrences(s, e) = Occurrences(SubSeq(s, 1, c), e) + Occurrences(SubSeq(s, c + 1, Len(s)), e)
  <1> DEFINE u == SubSeq(s, 1, c)
             v == SubSeq(s, c + 1, Len(s))
  <1>1. /\ u \in Seq(Item) /\ v \in Seq(Item) /\ Len(u) = c /\ Len(v) = Len(s) - c
        /\ \A i \in 1..c : u[i] = s[i]
        /\ \A i \in 1..(Len(s) - c) : v[i] = s[c + i]
    OBVIOUS
  <1> HIDE DEF u, v
  <1>2. /\ u \o v \in Seq(Item) /\ Len(u \o v) = Len(u) + Len(v)
        /\ \A i \in 1..(Len(u) + Len(v)) : (u \o v)[i] = IF i <= Len(u) THEN u[i] ELSE v[i - Len(u)]
    BY <1>1, ConcatProperties
  <1>3. ASSUME NEW i \in 1..Len(s) PROVE (u \o v)[i] = s[i]
    <2>1. CASE i <= c
      BY <1>1, <1>2, <2>1
    <2>2. CASE i > c
      <3>1. i - c \in 1..(Len(s) - c) /\ c + (i - c) = i
        BY <2>2
      <3>2. v[i - c] = s[i]
        BY <1>1, <3>1
      <3>3. (u \o v)[i] = v[i - c]
        BY <1>1, <1>2, <2>2
      <3> QED
        BY <3>2, <3>3
    <2>3. i <= c \/ i > c
      OBVIOUS
    <2> QED
      BY <2>1, <2>2, <2>3, Zenon
  <1>4. Len(u \o v) = Len(s)
    BY <1>1, <1>2
  <1>5. s = u \o v
    BY <1>2, <1>3, <1>4, SeqEqual
  <1>6. Occurrences(u \o v, e) = Occurrences(u, e) + Occurrences(v, e)
    BY <1>1, OccurrencesConcat
  <1> QED
    BY <1>1, <1>5, <1>6 DEF u, v

(* encodeItems starts from nothing and takes the items in order; a         *)
(* continued conversation takes those the model has not said itself.       *)
LEMMA EncodeSteps ==
    ASSUME NEW unseen \in Seq(Item), NEW continuing \in BOOLEAN
    PROVE  \E upTo \in [0..Len(unseen) -> Seq(Item)] :
               /\ upTo[0] = <<>> /\ encodeItems(unseen, continuing) = upTo[Len(unseen)]
               /\ \A i \in 1..Len(unseen) : upTo[i] = encoded(upTo[i - 1], unseen[i], continuing)
  <1> DEFINE S == Seq(Item)
             n == Len(unseen)
             D == [x \in S \X (1..n) |-> encoded(x[1], unseen[x[2]], continuing)]
  <1>1. n \in Nat /\ <<>> \in S /\ \A i \in 1..n : unseen[i] \in Item
    OBVIOUS
  <1>2. \A p \in S, i \in 1..n : encoded(p, unseen[i], continuing) \in S
    BY <1>1 DEF encoded
  <1>3. \A p \in S, i \in 1..n : D[<<p, i>>] = encoded(p, unseen[i], continuing)
    OBVIOUS
  <1>4. D \in [S \X (1..n) -> S]
    BY <1>2
  <1> HIDE DEF S, n, D
  <1>5. PICK f \in [0..n -> S] : f[0] = <<>> /\ \A i \in 1..n : f[i] = D[<<f[i - 1], i>>]
    <2>1. HasWalk(S, <<>>, n, D)
      BY <1>1, <1>4, Iteration
    <2> QED
      BY <2>1 DEF HasWalk
  <1>6. ASSUME NEW i \in 1..n PROVE f[i] = encoded(f[i - 1], unseen[i], continuing)
    <2>1. i - 1 \in 0..n /\ f[i - 1] \in S
      BY <1>1
    <2> QED
      BY <1>3, <1>5, <2>1
  <1>7. f = [i \in 0..n |-> IF i = 0 THEN <<>> ELSE encoded(f[i - 1], unseen[i], continuing)]
    BY <1>5, <1>6
  <1> DEFINE h == CHOOSE g : g = [i \in 0..n |-> IF i = 0 THEN <<>> ELSE encoded(g[i - 1], unseen[i], continuing)]
  <1>8. h = [i \in 0..n |-> IF i = 0 THEN <<>> ELSE encoded(h[i - 1], unseen[i], continuing)]
    BY <1>7, Zenon
  <1>9. encodeItems(unseen, continuing) = h[n]
    BY DEF encodeItems, n
  <1> HIDE DEF h
  <1>10. h[0] = <<>> /\ \A i \in 1..n : h[i] = encoded(h[i - 1], unseen[i], continuing)
    BY <1>1, <1>8
  <1>11. \A i \in 0..n : h[i] \in S
    <2> DEFINE T == {i \in 0..n : h[i] \in S}
    <2>1. 0 \in T
      BY <1>1, <1>10
    <2>2. ASSUME NEW i \in 1..n, i - 1 \in T PROVE i \in T
      <3>1. h[i - 1] \in S /\ h[i] = encoded(h[i - 1], unseen[i], continuing)
        BY <1>10, <2>2
      <3>2. h[i] \in S
        BY <1>2, <3>1
      <3> QED
        BY <3>2
    <2> HIDE DEF T
    <2>3. \A i \in 0..n : i \in T
      BY <1>1, <2>1, <2>2, StepByStep
    <2> QED
      BY <2>3 DEF T
  <1>12. h \in [0..n -> S]
    BY <1>8, <1>11
  <1> QED
    BY <1>9, <1>10, <1>12 DEF S, n

Sent(item, continuing) == continuing => item.kind \in {"user", "result"}

LEMMA EncodedOnce ==
    ASSUME NEW unseen \in Seq(Item), NEW continuing \in BOOLEAN
    PROVE  /\ encodeItems(unseen, continuing) \in Seq(Item)
           /\ \A item \in Item : Occurrences(encodeItems(unseen, continuing), item)
                                    = IF Sent(item, continuing) THEN Occurrences(unseen, item) ELSE 0
  <1> DEFINE n == Len(unseen)
             front(i) == SubSeq(unseen, 1, i)
  <1>1. PICK upTo \in [0..n -> Seq(Item)] :
            /\ upTo[0] = <<>> /\ encodeItems(unseen, continuing) = upTo[n]
            /\ \A i \in 1..n : upTo[i] = encoded(upTo[i - 1], unseen[i], continuing)
    BY EncodeSteps
  <1>2. n \in Nat
    OBVIOUS
  <1>3. front(0) = <<>> /\ front(n) = unseen
    OBVIOUS
  <1>4. ASSUME NEW i \in 1..n
        PROVE  /\ front(i - 1) \in Seq(Item) /\ unseen[i] \in Item
               /\ front(i) = Append(front(i - 1), unseen[i])
    OBVIOUS
  <1> HIDE DEF front, n
  <1>5. ASSUME NEW item \in Item
        PROVE  Occurrences(upTo[n], item) = IF Sent(item, continuing) THEN Occurrences(unseen, item) ELSE 0
    <2> DEFINE T == {i \in 0..n : Occurrences(upTo[i], item)
                                      = IF Sent(item, continuing) THEN Occurrences(front(i), item) ELSE 0}
    <2>1. 0 \in T
      BY <1>1, <1>2, <1>3, OccurrencesEmpty
    <2>2. ASSUME NEW i \in 1..n, i - 1 \in T PROVE i \in T
      <3> DEFINE one == IF unseen[i] = item THEN 1 ELSE 0
      <3>0. Occurrences(front(i), item) = Occurrences(front(i - 1), item) + (IF unseen[i] = item THEN 1 ELSE 0)
        <4> HIDE DEF T, one
        <4>1. Longer(front(i), front(i - 1), unseen[i])
          BY <1>4 DEF Longer
        <4> QED
          BY <1>4, <4>1, OccurrencesAppend
      <3>1. i - 1 \in 0..n /\ upTo[i - 1] \in Seq(Item)
        BY <1>1, <1>2
      <3>2. Occurrences(front(i), item) = Occurrences(front(i - 1), item) + one
        BY <3>0
      <3>3. Occurrences(upTo[i - 1], item) = IF Sent(item, continuing) THEN Occurrences(front(i - 1), item) ELSE 0
        BY <2>2
      <3>4. Occurrences(upTo[i - 1], item) \in Nat /\ Occurrences(front(i - 1), item) \in Nat
        BY <1>4, <3>1, OccurrencesTyped
      <3>5. CASE Sent(unseen[i], continuing)
        <4>1. upTo[i] = Append(upTo[i - 1], unseen[i])
          BY <1>1, <3>5 DEF encoded, Sent
        <4>2. Occurrences(upTo[i], item) = Occurrences(upTo[i - 1], item) + one
          <5> HIDE DEF T
          <5>1. Longer(upTo[i], upTo[i - 1], unseen[i])
            BY <4>1 DEF Longer
          <5> QED
            BY <1>4, <3>1, <5>1, OccurrencesAppend
        <4>3. one = 1 => Sent(item, continuing)
          BY <3>5
        <4> QED
          BY <3>2, <3>3, <3>4, <4>2, <4>3
      <3>6. CASE ~Sent(unseen[i], continuing)
        <4>1. upTo[i] = upTo[i - 1]
          BY <1>1, <3>6 DEF encoded, Sent
        <4>2. one = 1 => ~Sent(item, continuing)
          BY <3>6
        <4> QED
          BY <3>2, <3>3, <3>4, <4>1, <4>2
      <3> QED
        BY <3>5, <3>6
    <2> HIDE DEF T
    <2>3. \A i \in 0..n : i \in T
      BY <1>2, <2>1, <2>2, StepByStep
    <2>4. n \in T
      BY <1>2, <2>3
    <2> QED
      BY <1>3, <2>4 DEF T
  <1>6. upTo[n] \in Seq(Item)
    BY <1>2
  <1> QED
    BY <1>1, <1>5, <1>6

(* A sequence of anything, and one more element of anything.               *)
LEMMA AppendAny ==
    ASSUME NEW n \in Nat, NEW s, s = [i \in 1..n |-> s[i]], NEW e
    PROVE  /\ Len(s) = n /\ Len(Append(s, e)) = n + 1
           /\ Append(s, e) = [i \in 1..(n + 1) |-> Append(s, e)[i]]
  <1> DEFINE S == {s[i] : i \in 1..n} \cup {e}
             f == [i \in 1..n |-> s[i]]
  <1>1. f \in [1..n -> S]
    OBVIOUS
  <1>2. s \in Seq(S) /\ Len(s) = n
    BY <1>1
  <1>3. e \in S
    OBVIOUS
  <1>4. Append(s, e) \in Seq(S) /\ Len(Append(s, e)) = n + 1
    BY <1>2, <1>3
  <1> HIDE DEF S, f
  <1> QED
    BY <1>2, <1>4

(***************************************************************************)
(* What the service has replied is kept in step with what it remembers; a  *)
(* state names a response that exists and counts no more items than the    *)
(* transcript has.                                                         *)
(***************************************************************************)
Replied ==
    /\ turns \in Seq(Turns)
    /\ responses = [i \in 1..Len(turns) |-> responses[i]]
    /\ reply \in [Runs -> 0..Len(turns)]
    /\ providerState \in [Runs -> [previous : 0..Len(turns), consumed : Nat]]
    /\ \A r \in Runs : acceptable(providerState[r], Len(items[r]))

OpenAIInv == TypeOK /\ Placed /\ Inv /\ Records /\ Replied

LEMMA OpenAIInvInit == OpenAIInit => OpenAIInv
  <1> SUFFICES ASSUME OpenAIInit PROVE OpenAIInv
    OBVIOUS
  <1>1. TypeOK /\ Placed /\ Inv /\ Records
    BY TypeOKInit, InvInit, RecordsInit DEF OpenAIInit
  <1>2. Replied
    BY DEF OpenAIInit, Replied, NoState, acceptable
  <1> QED
    BY <1>1, <1>2 DEF OpenAIInv

(* Every step is one of the runtime, the service's own being none.         *)
LEMMA StepsOfTheRuntime ==
    ASSUME Replied, [OpenAINext]_allVars
    PROVE  [Next]_vars
  <1>1. ASSUME NEW r \in Runs, SendRequest(r) PROVE Next
    BY <1>1 DEF SendRequest, Next, OwnStep
  <1>2. ASSUME NEW r \in Runs, Receive(r) PROVE Next
    <2>1. turns[reply[r]] \in Turns
      BY <1>2 DEF Receive, Replied
    <2> QED
      BY <1>2, <2>1 DEF Receive, Next, DependencyReturns
  <1>3. ASSUME NEW r \in Runs, NEW t \in Turns, Respond(r, t) PROVE UNCHANGED vars
    BY <1>3 DEF Respond
  <1>4. ASSUME NEW r \in Runs, RunStep(r), ~SendRequest(r), ~Receive(r),
               \A t \in Turns : ~Respond(r, t)
        PROVE  Next
    BY <1>4 DEF RunStep, Next, OwnStep, DependencyReturns
  <1>5. CASE UNCHANGED allVars
    BY <1>5 DEF allVars
  <1>6. CASE AllReturned
    BY <1>6 DEF Next
  <1>7. ASSUME NEW r \in Runs, RunStep(r) PROVE [Next]_vars
    BY <1>1, <1>2, <1>3, <1>4, <1>7
  <1> QED
    BY <1>5, <1>6, <1>7 DEF OpenAINext

(* A transcript never gets shorter.                                        *)
Grows(r) == items'[r] = items[r] \/ \E e : items'[r] = Append(items[r], e)

LEMMA TranscriptGrows ==
    ASSUME TypeOK, Records, [Next]_vars, NEW r \in Runs
    PROVE  Len(items[r]) \in Nat /\ Len(items'[r]) \in Nat /\ Len(items[r]) <= Len(items'[r])
  <1> DEFINE Grown == Len(items[r]) <= Len(items'[r])
  <1>0. items[r] \in Seq(Item) /\ Len(items[r]) \in Nat
    BY DEF TypeOK
  <1>1. ASSUME Grows(r)
        PROVE  Len(items'[r]) \in Nat /\ Grown
    <2>1. CASE items'[r] = items[r]
      BY <1>0, <2>1
    <2>2. ASSUME NEW e, items'[r] = Append(items[r], e) PROVE Len(items'[r]) \in Nat /\ Grown
      <3>1. items[r] = [i \in 1..Len(items[r]) |-> items[r][i]]
        BY <1>0
      <3> QED
        BY <1>0, <2>2, <3>1, AppendAny
    <2> QED
      BY <1>1, <2>1, <2>2 DEF Grows
  <1>2. ASSUME NEW q \in Runs, ResolveTools(q) PROVE Grows(r)
    <2>1. CASE q = r
      <3>1. items[r] = <<>>
        BY <1>2, <2>1 DEF ResolveTools, Records, Recorded, Paired, BeforeLoop
      <3>2. items'[r] = Append(items[r], Message("user"))
        BY <1>2, <2>1, <3>1 DEF ResolveTools, TypeOK
      <3> QED
        BY <3>2 DEF Grows
    <2>2. CASE q # r
      BY <1>2, <2>2 DEF ResolveTools, TypeOK, Grows
    <2> QED
      BY <2>1, <2>2
  <1>3. ASSUME NEW q \in Runs, TakeBatch(q) \/ StartCall(q) \/ ToolReturns(q) PROVE Grows(r)
    <2>1. items' = items \/ \E e : items' = [items EXCEPT ![q] = Append(items[q], e)]
      <3>1. CASE TakeBatch(q) /\ ~turn[q].text
        BY <3>1 DEF TakeBatch, TypeOK
      <3>2. CASE TakeBatch(q) /\ turn[q].text
        BY <3>2 DEF TakeBatch
      <3>3. CASE StartCall(q)
        BY <3>3 DEF StartCall
      <3>4. CASE ToolReturns(q)
        BY <3>4 DEF ToolReturns
      <3> QED
        BY <1>3, <3>1, <3>2, <3>3, <3>4
    <2> QED
      BY <2>1 DEF TypeOK, Grows
  <1>4. ASSUME NEW q \in Runs,
               BeginRefused(q) \/ Refuse(q) \/ CallFails(q) \/ ModelReturnsLate(q)
        PROVE  items' = items
    BY <1>4 DEF BeginRefused, Refuse, CallFails, ModelReturnsLate, others
  <1>5. ASSUME NEW q \in Runs,
               \/ \E s \in Skills : Begin(q, s)
               \/ CtxDone(q) \/ EnterLoop(q) \/ CallModel(q) \/ TakeAnswer(q) \/ FinishBatch(q)
               \/ PassCheck(q) \/ CallTool(q)
        PROVE  items' = items
    BY <1>5 DEF Begin, CtxDone, EnterLoop, CallModel, TakeAnswer, FinishBatch, PassCheck, CallTool, others
  <1>6. ASSUME NEW q \in Runs,
               \/ \E t \in Turns : ModelReturns(q, t)
               \/ Published(q) \/ AuthorizerAccepts(q) \/ ToolCompletedPublished(q) \/ RunCompletedPublished(q)
        PROVE  items' = items
    BY <1>6 DEF ModelReturns, Published, AuthorizerAccepts, ToolCompletedPublished, RunCompletedPublished
  <1>7. ASSUME NEW t \in ToolNames, Register(t) PROVE items' = items
    BY <1>7 DEF Register
  <1>8. ASSUME UNCHANGED vars PROVE items' = items
    BY <1>8 DEF vars, others
  <1>9. ASSUME items' = items PROVE Grows(r)
    BY <1>9 DEF Grows
  <1>10. Grows(r)
    BY <1>9, <1>2, <1>3, <1>4, <1>5, <1>6, <1>7, <1>8 DEF Next, OwnStep, DependencyReturns, AllReturned
  <1> QED
    BY <1>0, <1>1, <1>10

LEMMA RepliedStep ==
    ASSUME OpenAIInv, [OpenAINext]_allVars
    PROVE  Replied'
  <1>0. TypeOK /\ Records /\ Replied /\ [Next]_vars
    BY StepsOfTheRuntime DEF OpenAIInv
  <1>1. \A r \in Runs : /\ Len(items[r]) \in Nat /\ Len(items'[r]) \in Nat
                        /\ Len(items[r]) <= Len(items'[r])
    BY <1>0, TranscriptGrows
  <1>2. ASSUME UNCHANGED providerState
        PROVE  \A r \in Runs : acceptable(providerState'[r], Len(items'[r]))
    <2> SUFFICES ASSUME NEW r \in Runs PROVE acceptable(providerState[r], Len(items'[r]))
      BY <1>2
    <2>1. providerState[r].consumed \in Nat /\ acceptable(providerState[r], Len(items[r]))
      BY <1>0 DEF Replied
    <2> QED
      BY <1>1, <2>1 DEF acceptable
  <1>3. ASSUME NEW r \in Runs, SendRequest(r) PROVE Replied'
    <2>1. UNCHANGED <<providerState, responses, turns>> /\ reply' = [reply EXCEPT ![r] = 0]
      BY <1>3 DEF SendRequest
    <2> QED
      BY <1>0, <1>2, <2>1 DEF Replied
  <1>4. ASSUME NEW r \in Runs, Receive(r) PROVE Replied'
    <2>1. providerState' = [providerState EXCEPT ![r] =
                               [previous |-> reply[r], consumed |-> Len(items[r])]]
          /\ reply[r] # 0 /\ UNCHANGED <<reply, responses, turns>>
      BY <1>4 DEF Receive
    <2>2. providerState' \in [Runs -> [previous : 0..Len(turns), consumed : Nat]]
      BY <1>0, <1>1, <2>1 DEF Replied
    <2>3. ASSUME NEW q \in Runs PROVE acceptable(providerState'[q], Len(items'[q]))
      <3>1. CASE q = r
        <4>1. providerState'[q] = [previous |-> reply[r], consumed |-> Len(items[r])]
          BY <1>0, <2>1, <3>1 DEF Replied
        <4> QED
          BY <1>1, <2>1, <3>1, <4>1 DEF acceptable
      <3>2. CASE q # r
        <4>1. providerState'[q] = providerState[q] /\ providerState[q].consumed \in Nat
          BY <1>0, <2>1, <3>2 DEF Replied
        <4> QED
          BY <1>0, <1>1, <4>1 DEF Replied, acceptable
      <3> QED
        BY <3>1, <3>2
    <2> QED
      BY <1>0, <2>1, <2>2, <2>3 DEF Replied
  <1>5. ASSUME NEW r \in Runs, NEW t \in Turns, Respond(r, t) PROVE Replied'
    <2>1. /\ turns' = Append(turns, t) /\ reply' = [reply EXCEPT ![r] = Len(responses) + 1]
          /\ UNCHANGED <<vars, providerState>>
      BY <1>5 DEF Respond
    <2>2. PICK c : responses' = Append(responses, c)
      BY <1>5 DEF Respond
    <2>3. turns \in Seq(Turns) /\ Len(turns) \in Nat
      BY <1>0 DEF Replied
    <2>4. Len(responses) = Len(turns)
          /\ responses' = [i \in 1..(Len(turns) + 1) |-> responses'[i]]
      BY <1>0, <2>2, <2>3, AppendAny DEF Replied
    <2>5. turns' \in Seq(Turns) /\ Len(turns') = Len(turns) + 1
      BY <2>1, <2>3
    <2>6. /\ reply' \in [Runs -> 0..Len(turns')]
          /\ providerState' \in [Runs -> [previous : 0..Len(turns'), consumed : Nat]]
      BY <1>0, <2>1, <2>3, <2>4, <2>5 DEF Replied
    <2>7. \A q \in Runs : acceptable(providerState'[q], Len(items'[q]))
      BY <1>2, <2>1
    <2> QED
      BY <2>4, <2>5, <2>6, <2>7 DEF Replied
  <1>6. ASSUME UNCHANGED provider PROVE Replied'
    BY <1>0, <1>2, <1>6 DEF provider, Replied
  <1> QED
    BY <1>3, <1>4, <1>5, <1>6 DEF OpenAINext, RunStep, allVars

LEMMA OpenAIInvStep == OpenAIInv /\ [OpenAINext]_allVars => OpenAIInv'
  <1> SUFFICES ASSUME OpenAIInv, [OpenAINext]_allVars PROVE OpenAIInv'
    OBVIOUS
  <1>1. [Next]_vars
    BY StepsOfTheRuntime DEF OpenAIInv
  <1> QED
    BY <1>1, RepliedStep, TypeOKStep, InvStep, RecordsStep DEF OpenAIInv

LEMMA OpenAIInvariance == OpenAISpec => []OpenAIInv
  BY OpenAIInvInit, OpenAIInvStep, PTL DEF OpenAISpec

(***************************************************************************)
(* With the adapter and the service as its model, a run is one of          *)
(* AgentRuntime: what is proved there of any model holds with this one.    *)
(***************************************************************************)
THEOREM AdapterIsAModel == OpenAISpec => Spec
  <1>1. OpenAIInit => Init
    BY DEF OpenAIInit
  <1>2. OpenAIInv /\ [OpenAINext]_allVars => [Next]_vars
    BY StepsOfTheRuntime DEF OpenAIInv
  <1> QED
    BY <1>1, <1>2, OpenAIInvariance, PTL DEF OpenAISpec, Spec

(***************************************************************************)
(* The state the adapter hands out is never refused when it comes back:    *)
(* the response it names exists, and the transcript it counts has not      *)
(* become shorter.                                                         *)
(***************************************************************************)
THEOREM StateComesBack == OpenAISpec => []StateAccepted
  <1>1. ASSUME Replied PROVE StateAccepted
    <2>1. Len(turns) \in Nat
      BY <1>1 DEF Replied
    <2>2. Len(responses) = Len(turns)
      BY <1>1, <2>1, AppendAny DEF Replied
    <2> QED
      BY <1>1, <2>2 DEF Replied, StateAccepted
  <1> QED
    BY <1>1, OpenAIInvariance, PTL DEF OpenAIInv

(***************************************************************************)
(* A turn as it enters the transcript.                                     *)
(***************************************************************************)
Left(calls, n, item) == {i \in n..Len(calls) : ToolCall(calls[i].id) = item}
left(calls, n, item) == Cardinality(Left(calls, n, item))
Turn == [text : BOOLEAN, calls : Seq(Call)]

LEMMA LeftTyped ==
    ASSUME NEW calls \in Seq(Call), NEW n \in Nat \ {0}, NEW item
    PROVE  /\ IsFiniteSet(Left(calls, n, item)) /\ left(calls, n, item) \in Nat
           /\ n > Len(calls) => left(calls, n, item) = 0
  <1>1. IsFiniteSet(1..Len(calls))
    BY FS_Interval
  <1>2. Left(calls, n, item) \subseteq 1..Len(calls)
    BY DEF Left
  <1>3. IsFiniteSet(Left(calls, n, item)) /\ Cardinality(Left(calls, n, item)) \in Nat
    BY <1>1, <1>2, FS_Subset, FS_CardinalityType
  <1>4. ASSUME n > Len(calls) PROVE Left(calls, n, item) = {}
    BY <1>4 DEF Left
  <1> QED
    BY <1>3, <1>4, FS_EmptySet DEF left

LEMMA LeftStep ==
    ASSUME NEW calls \in Seq(Call), NEW n \in 1..Len(calls), NEW item
    PROVE  left(calls, n, item) = left(calls, n + 1, item) + (IF ToolCall(calls[n].id) = item THEN 1 ELSE 0)
  <1>1. n + 1 \in Nat \ {0} /\ n \notin Left(calls, n + 1, item)
    BY DEF Left
  <1>2. IsFiniteSet(Left(calls, n + 1, item)) /\ left(calls, n + 1, item) \in Nat
    BY <1>1, LeftTyped
  <1>3. Left(calls, n, item)
           = IF ToolCall(calls[n].id) = item THEN Left(calls, n + 1, item) \cup {n} ELSE Left(calls, n + 1, item)
    BY DEF Left
  <1>4. CASE ToolCall(calls[n].id) = item
    <2>1. Cardinality(Left(calls, n + 1, item) \cup {n}) = Cardinality(Left(calls, n + 1, item)) + 1
      BY <1>1, <1>2, FS_AddElement
    <2> QED
      BY <1>3, <1>4, <2>1 DEF left
  <1>5. CASE ToolCall(calls[n].id) # item
    BY <1>2, <1>3, <1>5 DEF left
  <1> QED
    BY <1>4, <1>5

LEMMA OutputTyped ==
    ASSUME NEW t \in Turn
    PROVE  /\ output(t) \in Seq(Item)
           /\ \A item \in Item : Occurrences(output(t), item)
                 = (IF t.text /\ Message("assistant") = item THEN 1 ELSE 0) + left(t.calls, 1, item)
           /\ \A i \in 1..Len(output(t)) : IsCall(output(t)[i]) =>
                 \E k \in 1..Len(t.calls) : t.calls[k].id = output(t)[i].id
  <1> DEFINE said == IF t.text THEN <<Message("assistant")>> ELSE <<>>
             asked == [i \in DOMAIN t.calls |-> ToolCall(t.calls[i].id)]
  <1>1. /\ t.calls \in Seq(Call) /\ Len(t.calls) \in Nat /\ DOMAIN t.calls = 1..Len(t.calls)
        /\ \A i \in 1..Len(t.calls) : ToolCall(t.calls[i].id) \in Item
    <2>1. t.calls \in Seq(Call)
      BY DEF Turn
    <2>2. Len(t.calls) \in Nat /\ DOMAIN t.calls = 1..Len(t.calls)
      BY <2>1
    <2>3. ASSUME NEW i \in 1..Len(t.calls) PROVE ToolCall(t.calls[i].id) \in Item
      <3>1. t.calls[i] \in Call
        BY <2>1
      <3> QED
        BY <3>1 DEF Call, Item, ToolCall
    <2> QED
      BY <2>1, <2>2, <2>3
  <1>2. asked \in Seq(Item) /\ Len(asked) = Len(t.calls)
        /\ \A i \in 1..Len(t.calls) : asked[i] = ToolCall(t.calls[i].id)
    BY <1>1
  <1>3. Message("assistant") \in Item
    BY DEF Item, Message
  <1>4. said \in Seq(Item) /\ \A i \in 1..Len(said) : ~IsCall(said[i])
    BY <1>3 DEF Message, IsCall
  <1>5. output(t) = said \o asked
    BY DEF output
  <1>6. ASSUME NEW item \in Item
        PROVE  Occurrences(said, item) = IF t.text /\ Message("assistant") = item THEN 1 ELSE 0
    <2>1. CASE t.text
      <3> DEFINE nothing == <<>>
      <3>1. nothing \in Seq(Item) /\ Longer(said, nothing, Message("assistant"))
        BY <2>1 DEF Longer
      <3>2. Occurrences(nothing, item) = 0
        BY OccurrencesEmpty
      <3> HIDE DEF said, nothing, asked
      <3> QED
        BY <1>3, <2>1, <3>1, <3>2, OccurrencesAppend
    <2>2. CASE ~t.text
      BY <2>2, OccurrencesEmpty
    <2> QED
      BY <2>1, <2>2
  <1> HIDE DEF said, asked
  <1>7. ASSUME NEW item \in Item PROVE Occurrences(asked, item) = left(t.calls, 1, item)
    <2>1. Places(asked, item) = Left(t.calls, 1, item)
      BY <1>2 DEF Places, Left
    <2> QED
      BY <2>1, ByPlaces DEF left
  <1>8. ASSUME NEW item \in Item
        PROVE  Occurrences(said \o asked, item) = Occurrences(said, item) + Occurrences(asked, item)
    BY <1>2, <1>4, OccurrencesConcat
  <1>9. /\ said \o asked \in Seq(Item) /\ Len(said \o asked) = Len(said) + Len(asked)
        /\ \A i \in 1..(Len(said) + Len(asked)) :
              (said \o asked)[i] = IF i <= Len(said) THEN said[i] ELSE asked[i - Len(said)]
    BY <1>2, <1>4, ConcatProperties, ZenonT(30)
  <1>10. ASSUME NEW i \in 1..Len(said \o asked), IsCall((said \o asked)[i])
         PROVE  \E k \in 1..Len(t.calls) : t.calls[k].id = (said \o asked)[i].id
    <2>1. i > Len(said)
      BY <1>4, <1>9, <1>10
    <2>2. i - Len(said) \in 1..Len(t.calls) /\ (said \o asked)[i] = asked[i - Len(said)]
      BY <1>2, <1>4, <1>9, <2>1
    <2>3. asked[i - Len(said)] = ToolCall(t.calls[i - Len(said)].id)
      BY <1>2, <2>2
    <2>4. asked[i - Len(said)].id = t.calls[i - Len(said)].id
      BY <2>3 DEF ToolCall
    <2> QED
      BY <2>2, <2>4
  <1> QED
    BY <1>5, <1>6, <1>7, <1>8, <1>9, <1>10

(***************************************************************************)
(* What the service remembers of a run beside the run's transcript.  owed: *)
(* how often the run still has to put something the model has said in its  *)
(* transcript; due: the calls of the turn still to be answered.            *)
(***************************************************************************)
Spoken == {item \in Item : item.kind \in {"assistant", "call"}}
Calling == InCall \ {"toolCompleted"}
InTurn == {"modelCompleted", "decide", "nextCall"} \cup InCall
Ready == {"loop", "callModel"}

owed(r, item) ==
    IF pc[r] \in {"modelCompleted", "decide"} THEN Occurrences(output(turn[r]), item)
    ELSE IF pc[r] = "nextCall" THEN left(turn[r].calls, next[r], item)
    ELSE IF pc[r] \in InCall THEN left(turn[r].calls, next[r] + 1, item)
    ELSE 0
due(r) ==
    IF pc[r] \in {"modelCompleted", "decide"} THEN 1..Len(turn[r].calls)
    ELSE IF pc[r] \in {"nextCall"} \cup Calling THEN next[r]..Len(turn[r].calls)
    ELSE IF pc[r] = "toolCompleted" THEN (next[r] + 1)..Len(turn[r].calls)
    ELSE {}

known(r) == responses[providerState[r].previous]
covered(r) == providerState[r].consumed
AnsweredLater(seq, i) == \E j \in 1..Len(seq) : j > i /\ seq[j] = ToolResult(seq[i].id)
AllAnswered(seq) == \A i \in 1..Len(seq) : IsCall(seq[i]) => AnsweredLater(seq, i)
AnsweredSince(r, call) == \E j \in (covered(r) + 1)..Len(items[r]) : items[r][j] = ToolResult(call.id)

(* The last response holds what the transcript had when it came, and all   *)
(* that the model has said since; its calls are answered in it, or in what *)
(* the transcript has had since, or are due.                               *)
Heard(r) == \A item \in Item \ Spoken :
    Occurrences(known(r), item) = Occurrences(SubSeq(items[r], 1, covered(r)), item)
Said(r) == \A item \in Spoken : Occurrences(known(r), item) = Occurrences(items[r], item) + owed(r, item)
Answering(r) == \A i \in 1..Len(known(r)) : IsCall(known(r)[i]) =>
    \/ AnsweredLater(known(r), i)
    \/ AnsweredSince(r, known(r)[i])
    \/ \E k \in due(r) : turn[r].calls[k].id = known(r)[i].id

Remembered(r) == Heard(r) /\ Said(r) /\ Answering(r)

(* A request and what is remembered make up the transcript, in order.      *)
Shown(r) ==
    /\ \A item \in Item : Occurrences(conversation(request[r]), item) = Occurrences(items[r], item)
    /\ AllAnswered(conversation(request[r]))

Dialogue(r) ==
    /\ pc[r] \in BeforeLoop => providerState[r].previous = 0
    /\ pc[r] \in InTurn => providerState[r].previous # 0
    /\ pc[r] \in Ready /\ providerState[r].previous = 0 => items[r] = <<Message("user")>>
    /\ pc[r] \in InTurn \cup Ready /\ providerState[r].previous # 0 => Remembered(r)
    /\ pc[r] = "generating" /\ request[r] # NoRequest => Shown(r)
    /\ pc[r] = "generating" /\ reply[r] # 0 =>
          /\ request[r] # NoRequest
          /\ responses[reply[r]] = conversation(request[r]) \o output(turns[reply[r]])

Conversations ==
    /\ responses \in Seq(Seq(Item))
    /\ request \in [Runs -> [previous : 0..Len(responses), input : Seq(Item)]]

(***************************************************************************)
(* A step that leaves a run's own state as it is, and forgets nothing.     *)
(***************************************************************************)
Undisturbed(q) ==
    /\ pc'[q] = pc[q] /\ items'[q] = items[q] /\ turn'[q] = turn[q] /\ next'[q] = next[q]
    /\ providerState'[q] = providerState[q] /\ request'[q] = request[q] /\ reply'[q] = reply[q]

NothingForgotten ==
    /\ \A i \in 1..Len(responses) : responses'[i] = responses[i]
    /\ \A i \in 1..Len(turns) : turns'[i] = turns[i]

LEMMA Sizes ==
    ASSUME Replied
    PROVE  /\ Len(turns) \in Nat /\ Len(responses) = Len(turns)
           /\ \A r \in Runs : reply[r] \in 0..Len(responses) /\ providerState[r].previous \in 0..Len(responses)
                              /\ providerState[r].consumed \in Nat
  <1>1. Len(turns) \in Nat
    BY DEF Replied
  <1>2. Len(responses) = Len(turns)
    BY <1>1, AppendAny DEF Replied
  <1> QED
    BY <1>1, <1>2 DEF Replied

LEMMA ConversationTyped ==
    ASSUME Conversations, NEW r \in Runs
    PROVE  conversation(request[r]) \in Seq(Item)
  <1>1. request[r].previous \in 0..Len(responses) /\ request[r].input \in Seq(Item)
    BY DEF Conversations
  <1>2. CASE request[r].previous = 0
    BY <1>1, <1>2 DEF conversation
  <1>3. CASE request[r].previous # 0
    <2>1. responses[request[r].previous] \in Seq(Item)
      BY <1>1, <1>3 DEF Conversations
    <2> QED
      BY <1>1, <1>3, <2>1, ConcatProperties DEF conversation
  <1> QED
    BY <1>2, <1>3

LEMMA UndisturbedKeeps ==
    ASSUME Replied, Conversations, NEW q \in Runs, Dialogue(q), Undisturbed(q), NothingForgotten
    PROVE  Dialogue(q)'
  <1>1. reply[q] \in 0..Len(responses) /\ providerState[q].previous \in 0..Len(responses) /\ Len(responses) = Len(turns)
    BY Sizes
  <1>2. request[q].previous \in 0..Len(responses)
    BY DEF Conversations
  <1>3. conversation(request[q])' = conversation(request[q])
    <2>1. request'[q] = request[q]
      BY DEF Undisturbed
    <2>2. request[q].previous # 0 => responses'[request[q].previous] = responses[request[q].previous]
      BY <1>2 DEF NothingForgotten
    <2>3. CASE request[q].previous = 0
      BY <2>1, <2>3 DEF conversation
    <2>4. CASE request[q].previous # 0
      BY <2>1, <2>2, <2>4 DEF conversation
    <2> QED
      BY <2>3, <2>4
  <1>4. reply[q] # 0 => responses'[reply[q]] = responses[reply[q]] /\ turns'[reply[q]] = turns[reply[q]]
    BY <1>1 DEF NothingForgotten
  <1>5. providerState[q].previous # 0 => known(q)' = known(q) /\ covered(q)' = covered(q)
    BY <1>1 DEF Undisturbed, NothingForgotten, known, covered
  <1>6. due(q)' = due(q) /\ \A item : owed(q, item)' = owed(q, item)
    BY DEF Undisturbed, due, owed
  <1>7. providerState[q].previous # 0 /\ Remembered(q) => Remembered(q)'
    <2> SUFFICES ASSUME providerState[q].previous # 0, Remembered(q) PROVE Remembered(q)'
      OBVIOUS
    <2>1. Heard(q)'
      BY <1>5 DEF Remembered, Heard, Undisturbed
    <2>2. Said(q)'
      BY <1>5, <1>6 DEF Remembered, Said, Undisturbed
    <2>3. Answering(q)'
      BY <1>5, <1>6 DEF Remembered, Answering, AnsweredSince, Undisturbed
    <2> QED
      BY <2>1, <2>2, <2>3 DEF Remembered
  <1>8. Shown(q) => Shown(q)'
    BY <1>3 DEF Shown, Undisturbed
  <1>9. UNCHANGED <<pc[q], items[q], providerState[q], request[q], reply[q]>>
    BY DEF Undisturbed
  <1> QED
    BY <1>3, <1>4, <1>7, <1>8, <1>9 DEF Dialogue

(***************************************************************************)
(* A step of a run between two requests: what was to be put in the         *)
(* transcript has been put there or still is to be, and a call that was    *)
(* due still is or has its answer.                                         *)
(***************************************************************************)
Continued(r) ==
    /\ \A item : Occurrences(SubSeq(items'[r], 1, covered(r)), item)
                    = Occurrences(SubSeq(items[r], 1, covered(r)), item)
    /\ \A j \in (covered(r) + 1)..Len(items[r]) :
          j \in (covered(r) + 1)..Len(items'[r]) /\ items'[r][j] = items[r][j]

Settled(r) ==
    /\ \A item \in Spoken : Occurrences(items'[r], item) + owed(r, item)' = Occurrences(items[r], item) + owed(r, item)
    /\ \A k \in due(r) :
          \/ k \in due(r)' /\ turn'[r].calls[k].id = turn[r].calls[k].id
          \/ \E j \in (covered(r) + 1)..Len(items'[r]) : items'[r][j] = ToolResult(turn[r].calls[k].id)

LEMMA CoveredTyped ==
    ASSUME TypeOK, Replied, NEW r \in Runs
    PROVE  items[r] \in Seq(Item) /\ Len(items[r]) \in Nat /\ covered(r) \in 0..Len(items[r])
  <1>1. items[r] \in Seq(Item) /\ Len(items[r]) \in Nat
    BY DEF TypeOK
  <1>2. providerState[r].consumed \in Nat /\ acceptable(providerState[r], Len(items[r]))
    BY Sizes DEF Replied
  <1> QED
    BY <1>1, <1>2 DEF acceptable, NoState, covered

LEMMA UnchangedContinues ==
    ASSUME TypeOK, Replied, NEW r \in Runs, items'[r] = items[r]
    PROVE  Continued(r)
  BY CoveredTyped DEF Continued

LEMMA LongerContinues ==
    ASSUME TypeOK, Replied, NEW r \in Runs, NEW e \in Item, Longer(items'[r], items[r], e)
    PROVE  /\ Continued(r)
           /\ Len(items'[r]) = Len(items[r]) + 1 /\ items'[r][Len(items[r]) + 1] = e
           /\ \A item : Occurrences(items'[r], item) = Occurrences(items[r], item) + (IF e = item THEN 1 ELSE 0)
  <1> DEFINE before == items[r]
             after == items'[r]
             c == covered(r)
  <1>1. before \in Seq(Item) /\ Len(before) \in Nat /\ c \in 0..Len(before)
    BY CoveredTyped
  <1>2. Longer(after, before, e)
    OBVIOUS
  <1> HIDE DEF before, after, c
  <1>3. /\ after \in Seq(Item) /\ Len(after) = Len(before) + 1 /\ after[Len(before) + 1] = e
        /\ \A j \in 1..Len(before) : after[j] = before[j]
    BY <1>1, <1>2 DEF Longer
  <1>4. SubSeq(after, 1, c) = SubSeq(before, 1, c)
    BY <1>1, <1>3
  <1>5. \A item : Occurrences(after, item) = Occurrences(before, item) + (IF e = item THEN 1 ELSE 0)
    BY <1>1, <1>2, OccurrencesAppend
  <1>6. \A j \in (c + 1)..Len(before) : j \in (c + 1)..Len(after) /\ after[j] = before[j]
    BY <1>1, <1>3
  <1> QED
    BY <1>3, <1>4, <1>5, <1>6 DEF before, after, c, Continued

LEMMA RememberedKept ==
    ASSUME NEW r \in Runs, Remembered(r), Continued(r), Settled(r),
           UNCHANGED <<providerState, responses>>
    PROVE  Remembered(r)'
  <1>1. known(r)' = known(r) /\ covered(r)' = covered(r)
    BY DEF known, covered
  <1>2. Heard(r)'
    BY <1>1 DEF Remembered, Heard, Continued
  <1>3. Said(r)'
    BY <1>1 DEF Remembered, Said, Settled
  <1>4. ASSUME NEW i \in 1..Len(known(r)), IsCall(known(r)[i])
        PROVE  \/ AnsweredLater(known(r), i)
               \/ \E j \in (covered(r) + 1)..Len(items'[r]) : items'[r][j] = ToolResult(known(r)[i].id)
               \/ \E k \in due(r)' : turn'[r].calls[k].id = known(r)[i].id
    <2>1. CASE AnsweredLater(known(r), i)
      BY <2>1
    <2>2. CASE AnsweredSince(r, known(r)[i])
      BY <2>2 DEF AnsweredSince, Continued
    <2>3. ASSUME NEW k \in due(r), turn[r].calls[k].id = known(r)[i].id
          PROVE  \/ \E j \in (covered(r) + 1)..Len(items'[r]) : items'[r][j] = ToolResult(known(r)[i].id)
                 \/ \E m \in due(r)' : turn'[r].calls[m].id = known(r)[i].id
      BY <2>3 DEF Settled
    <2> QED
      BY <1>4, <2>1, <2>2, <2>3 DEF Remembered, Answering
  <1>5. Answering(r)'
    BY <1>1, <1>4 DEF Answering, AnsweredSince
  <1> QED
    BY <1>2, <1>3, <1>5 DEF Remembered

Moves == {<<"modelCompleted", "decide">>, <<"loop", "callModel">>, <<"toolStarted", "authorizing">>,
          <<"authorizing", "granted">>, <<"granted", "callTool">>, <<"callTool", "executing">>}

LEMMA QuietDialogue ==
    ASSUME TypeOK, Replied, NEW r \in Runs, Dialogue(r), NEW label,
           pc' = [pc EXCEPT ![r] = label], UNCHANGED <<items, turn, next, provider>>,
           \/ <<pc[r], label>> \in Moves
           \/ pc[r] \in BeforeLoop /\ label \in BeforeLoop
           \/ label \in {"ended", "runCompleted"}
    PROVE  Dialogue(r)'
  <1>1. pc'[r] = label
    BY DEF TypeOK
  <1>2. UNCHANGED <<providerState, responses>>
    BY DEF provider
  <1>3. CASE label \in {"ended", "runCompleted"}
    BY <1>1, <1>3 DEF Dialogue, BeforeLoop, InTurn, InCall, Ready
  <1>4. CASE pc[r] \in BeforeLoop /\ label \in BeforeLoop
    BY <1>1, <1>2, <1>4 DEF Dialogue, BeforeLoop, InTurn, InCall, Ready
  <1>5. CASE <<pc[r], label>> \in Moves
    <2>1. /\ pc[r] \in InTurn <=> pc'[r] \in InTurn
          /\ pc[r] \in Ready <=> pc'[r] \in Ready
          /\ pc[r] \in InTurn \cup Ready
          /\ pc'[r] \notin BeforeLoop \cup {"generating"}
      BY <1>1, <1>5 DEF Moves, BeforeLoop, InTurn, InCall, Ready
    <2>2. due(r)' = due(r) /\ \A item : owed(r, item)' = owed(r, item)
      BY <1>1, <1>5 DEF Moves, due, owed, Calling, InCall
    <2>3. Settled(r) /\ Continued(r)
      BY <2>2, UnchangedContinues DEF Settled
    <2>4. Remembered(r) => Remembered(r)'
      BY <1>2, <2>3, RememberedKept
    <2> QED
      BY <1>2, <2>1, <2>4 DEF Dialogue
  <1> QED
    BY <1>3, <1>4, <1>5

(***************************************************************************)
(* The steps that put something in the transcript.                         *)
(***************************************************************************)
LEMMA TurnTyped ==
    ASSUME TypeOK, NEW r \in Runs
    PROVE  turn[r] \in Turn /\ turn[r].calls \in Seq(Call) /\ Len(turn[r].calls) \in Nat
  <1>1. turn[r] \in Turn
    BY DEF TypeOK, Turn
  <1> QED
    BY <1>1 DEF Turn

LEMMA CarriedOn ==
    ASSUME NEW r \in Runs, Dialogue(r), pc[r] \in InTurn, pc'[r] \in InTurn \cup Ready, UNCHANGED provider,
           Continued(r), Settled(r)
    PROVE  Dialogue(r)'
  <1>1. UNCHANGED <<providerState, responses>>
    BY DEF provider
  <1>2. providerState[r].previous # 0 /\ Remembered(r)
    BY DEF Dialogue
  <1>3. Remembered(r)'
    BY <1>1, <1>2, RememberedKept
  <1>4. pc'[r] \notin BeforeLoop \cup {"generating"}
    BY DEF InTurn, InCall, Ready, BeforeLoop
  <1> QED
    BY <1>1, <1>2, <1>3, <1>4 DEF Dialogue

LEMMA TakeBatchDialogue ==
    ASSUME TypeOK, Replied, NEW r \in Runs, Dialogue(r), TakeBatch(r), UNCHANGED provider
    PROVE  Dialogue(r)'
  <1> DEFINE calls == turn[r].calls
  <1>1. /\ pc[r] = "decide" /\ pc'[r] = "nextCall" /\ next'[r] = 1 /\ turn'[r] = turn[r]
        /\ items'[r] = IF turn[r].text THEN Append(items[r], Message("assistant")) ELSE items[r]
    BY DEF TakeBatch, Goto, TypeOK
  <1>2. turn[r] \in Turn /\ calls \in Seq(Call) /\ Len(calls) \in Nat
    BY TurnTyped
  <1>3. \A item \in Item : Occurrences(output(turn[r]), item)
           = (IF turn[r].text /\ Message("assistant") = item THEN 1 ELSE 0) + left(calls, 1, item)
    BY <1>2, OutputTyped
  <1>4. Message("assistant") \in Item
    BY DEF Message, Item
  <1>5. /\ Continued(r)
        /\ \A item \in Item : Occurrences(items'[r], item)
              = Occurrences(items[r], item) + (IF turn[r].text /\ Message("assistant") = item THEN 1 ELSE 0)
    <2>1. CASE turn[r].text
      <3>1. Longer(items'[r], items[r], Message("assistant"))
        BY <1>1, <2>1 DEF Longer
      <3> QED
        BY <1>4, <2>1, <3>1, LongerContinues, ZenonT(30)
    <2>2. CASE ~turn[r].text
      <3>1. items'[r] = items[r]
        BY <1>1, <2>2
      <3>2. \A item : Occurrences(items[r], item) \in Nat
        BY CoveredTyped, OccurrencesTyped
      <3> QED
        BY <2>2, <3>1, <3>2, UnchangedContinues
    <2> QED
      BY <2>1, <2>2
  <1>6. Settled(r)
    <2>1. \A item : Occurrences(items[r], item) \in Nat /\ left(calls, 1, item) \in Nat
      <3>1. items[r] \in Seq(Item) /\ 1 \in Nat \ {0}
        BY CoveredTyped
      <3>2. \A item : Occurrences(items[r], item) \in Nat
        BY <3>1, OccurrencesTyped
      <3>3. \A item : left(calls, 1, item) \in Nat
        BY <1>2, <3>1, LeftTyped
      <3> QED
        BY <3>2, <3>3
    <2>2. \A item : owed(r, item) = Occurrences(output(turn[r]), item) /\ owed(r, item)' = left(calls, 1, item)
      BY <1>1 DEF owed
    <2>3. \A item \in Spoken : Occurrences(items'[r], item) + owed(r, item)' = Occurrences(items[r], item) + owed(r, item)
      BY <1>3, <1>5, <2>1, <2>2 DEF Spoken
    <2>4. due(r)' = due(r)
      BY <1>1 DEF due
    <2> QED
      BY <1>1, <2>3, <2>4 DEF Settled
  <1> QED
    BY <1>1, <1>5, <1>6, CarriedOn DEF InTurn, Ready

LEMMA StartCallDialogue ==
    ASSUME TypeOK, Placed, Replied, NEW r \in Runs, Dialogue(r), StartCall(r), UNCHANGED provider
    PROVE  Dialogue(r)'
  <1> DEFINE calls == turn[r].calls
             n == next[r]
             call == ToolCall(calls[n].id)
  <1>1. /\ pc[r] = "nextCall" /\ pc'[r] = "toolStarted" /\ next'[r] = n /\ turn'[r] = turn[r]
        /\ items'[r] = Append(items[r], call)
    BY DEF StartCall, Goto, TypeOK, current
  <1>2. calls \in Seq(Call) /\ n \in 1..Len(calls)
    <2>1. n >= 1 /\ n \in Nat /\ n <= Len(calls)
      BY <1>1 DEF Placed, StartCall, pending, TypeOK
    <2> QED
      BY <2>1, TurnTyped
  <1>3. call \in Item
    <2>1. calls[n] \in Call
      BY <1>2
    <2> QED
      BY <2>1 DEF Call, ToolCall, Item
  <1>4. \A item : left(calls, n, item) = left(calls, n + 1, item) + (IF call = item THEN 1 ELSE 0)
    BY <1>2, LeftStep
  <1>5. Longer(items'[r], items[r], call)
    BY <1>1 DEF Longer
  <1>6. /\ Continued(r)
        /\ \A item : Occurrences(items'[r], item) = Occurrences(items[r], item) + (IF call = item THEN 1 ELSE 0)
    BY <1>3, <1>5, LongerContinues
  <1>7. Settled(r)
    <2>1. \A item : Occurrences(items[r], item) \in Nat /\ left(calls, n + 1, item) \in Nat
      <3>1. items[r] \in Seq(Item) /\ n + 1 \in Nat \ {0}
        BY <1>2, CoveredTyped
      <3>2. \A item : Occurrences(items[r], item) \in Nat
        BY <3>1, OccurrencesTyped
      <3>3. \A item : left(calls, n + 1, item) \in Nat
        BY <1>2, <3>1, LeftTyped
      <3> QED
        BY <3>2, <3>3
    <2>2. \A item : owed(r, item) = left(calls, n, item) /\ owed(r, item)' = left(calls, n + 1, item)
      BY <1>1 DEF owed, InCall
    <2>3. \A item \in Spoken : Occurrences(items'[r], item) + owed(r, item)' = Occurrences(items[r], item) + owed(r, item)
      BY <1>4, <1>6, <2>1, <2>2
    <2>4. due(r)' = due(r)
      BY <1>1 DEF due, Calling, InCall
    <2> QED
      BY <1>1, <2>3, <2>4 DEF Settled
  <1> QED
    BY <1>1, <1>6, <1>7, CarriedOn DEF InTurn, InCall, Ready

LEMMA ToolReturnsDialogue ==
    ASSUME TypeOK, Placed, Replied, NEW r \in Runs, Dialogue(r), ToolReturns(r), UNCHANGED provider
    PROVE  Dialogue(r)'
  <1> DEFINE calls == turn[r].calls
             n == next[r]
             result == ToolResult(calls[n].id)
  <1>1. /\ pc[r] = "executing" /\ pc'[r] = "toolCompleted" /\ next'[r] = n /\ turn'[r] = turn[r]
        /\ items'[r] = Append(items[r], result)
    BY DEF ToolReturns, Goto, TypeOK, current
  <1>2. calls \in Seq(Call) /\ n \in 1..Len(calls)
    BY <1>1, TurnTyped DEF Placed, InCall
  <1>3. result \in Item \ Spoken
    <2>1. calls[n] \in Call
      BY <1>2
    <2> QED
      BY <2>1 DEF Call, ToolResult, Item, Spoken
  <1>4. Longer(items'[r], items[r], result)
    BY <1>1 DEF Longer
  <1>5. /\ Continued(r)
        /\ Len(items'[r]) = Len(items[r]) + 1 /\ items'[r][Len(items[r]) + 1] = result
        /\ \A item : Occurrences(items'[r], item) = Occurrences(items[r], item) + (IF result = item THEN 1 ELSE 0)
    BY <1>3, <1>4, LongerContinues
  <1>6. Settled(r)
    <2>1. \A item : Occurrences(items[r], item) \in Nat
      BY CoveredTyped, OccurrencesTyped
    <2>2. \A item : owed(r, item)' = owed(r, item)
      BY <1>1 DEF owed, InCall
    <2>3. \A item \in Spoken : Occurrences(items'[r], item) + owed(r, item)' = Occurrences(items[r], item) + owed(r, item)
      BY <1>3, <1>5, <2>1, <2>2
    <2>4. due(r) = n..Len(calls) /\ due(r)' = (n + 1)..Len(calls)
      BY <1>1 DEF due, Calling, InCall
    <2>5. Len(items[r]) + 1 \in (covered(r) + 1)..Len(items'[r])
      BY <1>5, CoveredTyped
    <2>6. ASSUME NEW k \in due(r), k \notin due(r)' PROVE items'[r][Len(items[r]) + 1] = ToolResult(calls[k].id)
      <3>1. k = n
        BY <1>2, <2>4, <2>6
      <3> QED
        BY <1>5, <3>1
    <2> QED
      BY <1>1, <2>3, <2>5, <2>6 DEF Settled
  <1> QED
    BY <1>1, <1>5, <1>6, CarriedOn DEF InTurn, InCall, Ready

LEMMA ToolCompletedDialogue ==
    ASSUME TypeOK, Placed, Replied, NEW r \in Runs, Dialogue(r), ToolCompletedPublished(r), UNCHANGED provider
    PROVE  Dialogue(r)'
  <1>1. /\ pc[r] = "toolCompleted" /\ pc'[r] = "nextCall" /\ next'[r] = next[r] + 1 /\ turn'[r] = turn[r]
        /\ items'[r] = items[r]
    BY DEF ToolCompletedPublished, Goto, TypeOK
  <1>2. due(r)' = due(r) /\ \A item : owed(r, item)' = owed(r, item)
    BY <1>1 DEF due, owed, Calling, InCall
  <1>3. Continued(r) /\ Settled(r)
    BY <1>1, <1>2, UnchangedContinues DEF Settled
  <1> QED
    BY <1>1, <1>3, CarriedOn DEF InTurn, InCall, Ready

LEMMA FinishBatchDialogue ==
    ASSUME TypeOK, Placed, Replied, NEW r \in Runs, Dialogue(r), FinishBatch(r), UNCHANGED provider
    PROVE  Dialogue(r)'
  <1> DEFINE calls == turn[r].calls
  <1>1. /\ pc[r] = "nextCall" /\ pc'[r] = "loop" /\ turn'[r] = turn[r] /\ items'[r] = items[r]
    BY DEF FinishBatch, Goto, TypeOK
  <1>2. calls \in Seq(Call) /\ next[r] \in Nat \ {0} /\ next[r] > Len(calls)
    BY <1>1, TurnTyped DEF Placed, FinishBatch, pending, TypeOK
  <1>3. due(r) = {} /\ \A item : owed(r, item)' = owed(r, item)
    <2>1. due(r) = {}
      BY <1>1, <1>2 DEF due
    <2>2. \A item : owed(r, item) = 0
      BY <1>1, <1>2, LeftTyped DEF owed
    <2>3. \A item : owed(r, item)' = 0
      BY <1>1 DEF owed, InCall
    <2> QED
      BY <2>1, <2>2, <2>3
  <1>4. Continued(r) /\ Settled(r)
    BY <1>1, <1>3, UnchangedContinues DEF Settled
  <1> QED
    BY <1>1, <1>4, CarriedOn DEF InTurn, InCall, Ready

LEMMA ResolveToolsDialogue ==
    ASSUME TypeOK, NEW r \in Runs, Dialogue(r), ResolveTools(r), UNCHANGED provider
    PROVE  Dialogue(r)'
  <1>1. pc[r] = "resolving" /\ pc'[r] = "loop" /\ items'[r] = <<Message("user")>>
    BY DEF ResolveTools, Goto, TypeOK
  <1>2. providerState[r].previous = 0 /\ providerState'[r] = providerState[r]
    BY <1>1 DEF Dialogue, BeforeLoop, provider
  <1> QED
    BY <1>1, <1>2 DEF Dialogue, BeforeLoop, InTurn, InCall, Ready

(***************************************************************************)
(* A request: what the service remembers and what it is sent.              *)
(***************************************************************************)
LEMMA FirstRequest ==
    ASSUME NEW input \in Seq(Item), NEW transcript, transcript = <<Message("user")>>,
           \A item \in Item : Occurrences(input, item) = Occurrences(transcript, item)
    PROVE  AllAnswered(input)
  <1>1. Message("user") \in Item /\ transcript \in Seq(Item) /\ Len(transcript) = 1
        /\ transcript[1] = Message("user")
    BY DEF Message, Item
  <1>2. ASSUME NEW i \in 1..Len(input) PROVE ~IsCall(input[i])
    <2>1. input[i] \in Item /\ Occurrences(input, input[i]) # 0
      BY OccurrencesTyped
    <2>2. Occurrences(transcript, input[i]) # 0
      BY <2>1
    <2>3. PICK j \in 1..Len(transcript) : transcript[j] = input[i]
      BY <1>1, <2>2, OccurrencesTyped
    <2> QED
      BY <1>1, <2>3 DEF Message, IsCall
  <1> QED
    BY <1>2 DEF AllAnswered

Joins(all, past, more) == all = past \o more

LEMMA Joined ==
    ASSUME NEW past \in Seq(Item), NEW more \in Seq(Item), NEW all, Joins(all, past, more)
    PROVE  /\ all \in Seq(Item) /\ Len(all) = Len(past) + Len(more) /\ Len(past) \in Nat /\ Len(more) \in Nat
           /\ \A i \in 1..Len(past) : i \in 1..Len(all) /\ all[i] = past[i]
           /\ \A j \in 1..Len(more) : Len(past) + j \in 1..Len(all) /\ all[Len(past) + j] = more[j]
           /\ \A i \in 1..Len(all) : i \notin 1..Len(past) => i - Len(past) \in 1..Len(more) /\ all[i] = more[i - Len(past)]
           /\ \A item : Occurrences(all, item) = Occurrences(past, item) + Occurrences(more, item)
  <1> DEFINE both == past \o more
             p == Len(past)
             m == Len(more)
  <1>1. /\ both \in Seq(Item) /\ Len(both) = p + m /\ p \in Nat /\ m \in Nat
        /\ \A i \in 1..(p + m) : both[i] = IF i <= p THEN past[i] ELSE more[i - p]
    BY ConcatProperties
  <1>2. \A item : Occurrences(both, item) = Occurrences(past, item) + Occurrences(more, item)
    BY OccurrencesConcat
  <1>3. all = both
    BY DEF Joins
  <1> HIDE DEF both, p, m
  <1>4. \A i \in 1..p : i \in 1..(p + m) /\ both[i] = past[i]
    BY <1>1
  <1>5. \A j \in 1..m : p + j \in 1..(p + m) /\ both[p + j] = more[j]
    <2> SUFFICES ASSUME NEW j \in 1..m PROVE p + j \in 1..(p + m) /\ both[p + j] = more[j]
      OBVIOUS
    <2>1. p + j \in 1..(p + m) /\ ~(p + j <= p) /\ (p + j) - p = j
      BY <1>1
    <2> QED
      BY <1>1, <2>1
  <1>6. \A i \in 1..(p + m) : i \notin 1..p => i - p \in 1..m /\ both[i] = more[i - p]
    BY <1>1
  <1> QED
    BY <1>1, <1>2, <1>3, <1>4, <1>5, <1>6, Zenon DEF p, m

AnsweredIn(past, more) == \A i \in 1..Len(past) : IsCall(past[i]) =>
    AnsweredLater(past, i) \/ \E j \in 1..Len(more) : more[j] = ToolResult(past[i].id)

LEMMA JoinedAnswered ==
    ASSUME NEW past \in Seq(Item), NEW more \in Seq(Item), NEW all, Joins(all, past, more), AnsweredIn(past, more)
    PROVE  \A i \in 1..Len(all) : IsCall(all[i]) =>
              AnsweredLater(all, i) \/ \E j \in 1..Len(more) : all[i] = more[j]
  <1> SUFFICES ASSUME NEW i \in 1..Len(all), IsCall(all[i])
               PROVE  AnsweredLater(all, i) \/ \E j \in 1..Len(more) : all[i] = more[j]
    OBVIOUS
  <1> DEFINE p == Len(past)
  <1>1. /\ p \in Nat /\ \A k \in 1..p : k \in 1..Len(all) /\ all[k] = past[k]
        /\ \A j \in 1..Len(more) : j \in Nat /\ p + j \in 1..Len(all) /\ all[p + j] = more[j]
        /\ i \notin 1..p => i - p \in 1..Len(more) /\ all[i] = more[i - p]
    BY Joined
  <1> HIDE DEF p
  <1>2. CASE i \notin 1..p
    BY <1>1, <1>2
  <1>3. CASE i \in 1..p
    <2>1. all[i] = past[i]
      BY <1>1, <1>3
    <2>2. CASE AnsweredLater(past, i)
      BY <1>1, <2>1, <2>2 DEF AnsweredLater, p
    <2>3. ASSUME NEW j \in 1..Len(more), more[j] = ToolResult(past[i].id) PROVE AnsweredLater(all, i)
      <3>1. p + j \in 1..Len(all) /\ p + j > i /\ all[p + j] = ToolResult(all[i].id)
        BY <1>1, <1>3, <2>1, <2>3
      <3> QED
        BY <3>1 DEF AnsweredLater
    <2> QED
      BY <1>3, <2>1, <2>2, <2>3 DEF AnsweredIn, p
  <1> QED
    BY <1>2, <1>3

(* What the model was last told and what has been said since are counted   *)
(* once each; what it said itself is not sent.                             *)
Recalled(past, transcript, c) ==
    /\ \A item \in Item \ Spoken : Occurrences(past, item) = Occurrences(SubSeq(transcript, 1, c), item)
    /\ \A item \in Spoken : Occurrences(past, item) = Occurrences(transcript, item)
AnsweredAfter(past, transcript, c) == \A i \in 1..Len(past) : IsCall(past[i]) =>
    AnsweredLater(past, i) \/ \E j \in (c + 1)..Len(transcript) : transcript[j] = ToolResult(past[i].id)
uncovered(transcript, c) == SubSeq(transcript, c + 1, Len(transcript))

LEMMA NextRequestSent ==
    ASSUME NEW transcript \in Seq(Item), NEW c \in 0..Len(transcript)
    PROVE  LET input == encodeItems(uncovered(transcript, c), TRUE) IN
           /\ input \in Seq(Item)
           /\ \A item \in Spoken : Occurrences(input, item) = 0
           /\ \A item \in Item \ Spoken : Occurrences(input, item) = Occurrences(uncovered(transcript, c), item)
  <1>1. uncovered(transcript, c) \in Seq(Item)
    BY DEF uncovered
  <1>2. \A item \in Item : Sent(item, TRUE) <=> item \notin Spoken
    BY DEF Sent, Spoken, Item
  <1> QED
    BY <1>1, <1>2, EncodedOnce DEF Spoken

LEMMA NextRequestShown ==
    ASSUME NEW past \in Seq(Item), NEW transcript \in Seq(Item), NEW c \in 0..Len(transcript),
           Recalled(past, transcript, c), NEW item \in Item
    PROVE  Occurrences(past \o encodeItems(uncovered(transcript, c), TRUE), item) = Occurrences(transcript, item)
  <1> DEFINE old == SubSeq(transcript, 1, c)
             new == uncovered(transcript, c)
             input == encodeItems(new, TRUE)
  <1>1. old \in Seq(Item) /\ new \in Seq(Item)
        /\ Occurrences(transcript, item) = Occurrences(old, item) + Occurrences(new, item)
    BY OccurrencesSplit DEF uncovered
  <1>2. /\ input \in Seq(Item) /\ (item \in Spoken => Occurrences(input, item) = 0)
        /\ item \notin Spoken => Occurrences(input, item) = Occurrences(new, item)
    BY NextRequestSent
  <1>3. /\ item \in Spoken => Occurrences(past, item) = Occurrences(transcript, item)
        /\ item \notin Spoken => Occurrences(past, item) = Occurrences(old, item)
    BY DEF Recalled
  <1> HIDE DEF old, new, input
  <1>4. Occurrences(past, item) \in Nat /\ Occurrences(old, item) \in Nat /\ Occurrences(new, item) \in Nat
    BY <1>1, OccurrencesTyped
  <1>5. Occurrences(past \o input, item) = Occurrences(past, item) + Occurrences(input, item)
    BY <1>2, OccurrencesConcat
  <1>6. Occurrences(past, item) + Occurrences(input, item) = Occurrences(transcript, item)
    BY <1>1, <1>2, <1>3, <1>4
  <1> QED
    BY <1>5, <1>6 DEF new, input

LEMMA NextRequestAnswered ==
    ASSUME NEW past \in Seq(Item), NEW transcript \in Seq(Item), NEW c \in 0..Len(transcript),
           AnsweredAfter(past, transcript, c)
    PROVE  AllAnswered(past \o encodeItems(uncovered(transcript, c), TRUE))
  <1> DEFINE new == uncovered(transcript, c)
             input == encodeItems(new, TRUE)
             all == past \o input
  <1>1. new \in Seq(Item) /\ \A j \in (c + 1)..Len(transcript) : j - c \in 1..Len(new) /\ new[j - c] = transcript[j]
    BY DEF uncovered
  <1>2. /\ input \in Seq(Item) /\ \A item \in Spoken : Occurrences(input, item) = 0
        /\ \A item \in Item \ Spoken : Occurrences(input, item) = Occurrences(new, item)
    BY NextRequestSent
  <1> HIDE DEF new, input
  <1>3. ASSUME NEW j \in 1..Len(input) PROVE ~IsCall(input[j])
    <2>1. input[j] \in Item
      BY <1>2
    <2>2. Occurrences(input, input[j]) # 0
      BY <1>2, OccurrencesTyped
    <2>3. input[j] \notin Spoken
      BY <1>2, <2>2
    <2> QED
      BY <2>1, <2>3 DEF Spoken, IsCall
  <1>4. ASSUME NEW i \in 1..Len(past), NEW j \in (c + 1)..Len(transcript), transcript[j] = ToolResult(past[i].id)
        PROVE  \E k \in 1..Len(input) : input[k] = ToolResult(past[i].id)
    <2> DEFINE result == ToolResult(past[i].id)
    <2>1. result \in Item \ Spoken
      <3>1. past[i] \in Item
        OBVIOUS
      <3> QED
        BY <3>1 DEF Item, Spoken, ToolResult
    <2>2. j - c \in 1..Len(new) /\ new[j - c] = result
      BY <1>1, <1>4
    <2> HIDE DEF result
    <2>3. Occurrences(new, result) # 0
      BY <1>1, <2>2, OccurrencesTyped
    <2>4. Occurrences(input, result) # 0
      BY <1>2, <2>1, <2>3
    <2>5. \E k \in 1..Len(input) : input[k] = result
      BY <1>2, <2>4, OccurrencesTyped
    <2> QED
      BY <2>5 DEF result
  <1>5. AnsweredIn(past, input)
    BY <1>4 DEF AnsweredAfter, AnsweredIn
  <1>0. Joins(all, past, input)
    BY DEF Joins
  <1> HIDE DEF all
  <1>6. \A i \in 1..Len(all) : IsCall(all[i]) => AnsweredLater(all, i) \/ \E j \in 1..Len(input) : all[i] = input[j]
    BY <1>0, <1>2, <1>5, JoinedAnswered
  <1>7. \A i \in 1..Len(all) : IsCall(all[i]) => AnsweredLater(all, i)
    BY <1>3, <1>6
  <1> QED
    BY <1>7 DEF AllAnswered, all, input, new

LEMMA SendRequestDialogue ==
    ASSUME TypeOK, Replied, Conversations, NEW r \in Runs, Dialogue(r), SendRequest(r)
    PROVE  Dialogue(r)' /\ Conversations'
  <1> DEFINE state == providerState[r]
             c == state.consumed
             transcript == items[r]
             input == encodeItems(uncovered(transcript, c), state.previous # 0)
             sent == [previous |-> state.previous, input |-> input]
  <1>1. /\ pc[r] = "callModel" /\ pc'[r] = "generating" /\ items' = items
        /\ UNCHANGED <<providerState, responses, turns>> /\ reply' = [reply EXCEPT ![r] = 0]
    BY DEF SendRequest, CallModel, Goto, TypeOK
  <1>2. /\ transcript \in Seq(Item) /\ c \in 0..Len(transcript) /\ acceptable(state, Len(transcript))
        /\ state.previous \in 0..Len(responses)
    BY CoveredTyped, Sizes DEF covered, Replied
  <1>3. request' = [request EXCEPT ![r] = sent]
    BY <1>2 DEF SendRequest, uncovered
  <1>4. uncovered(transcript, c) \in Seq(Item)
    BY <1>2 DEF uncovered
  <1>5. input \in Seq(Item)
    BY <1>4, EncodedOnce
  <1>6. Conversations'
    <2>1. sent \in [previous : 0..Len(responses), input : Seq(Item)]
      BY <1>2, <1>5
    <2> HIDE DEF sent
    <2> QED
      BY <1>1, <1>3, <2>1 DEF Conversations
  <1>7. request'[r] = sent /\ conversation(request[r])' = (IF state.previous = 0 THEN <<>> ELSE known(r)) \o input
    <2>1. request'[r] = sent
      BY <1>3 DEF Conversations
    <2>2. sent.previous = state.previous /\ sent.input = input
      OBVIOUS
    <2> HIDE DEF sent, input
    <2> QED
      BY <1>1, <2>1, <2>2 DEF conversation, known
  <1> DEFINE shown == conversation(request[r])'
  <1>8. /\ \A item \in Item : Occurrences(shown, item) = Occurrences(transcript, item)
        /\ AllAnswered(shown)
    <2>1. CASE state.previous = 0
      <3>1. c = 0 /\ transcript = <<Message("user")>>
        BY <1>1, <1>2, <2>1 DEF acceptable, NoState, Dialogue, Ready
      <3>2. uncovered(transcript, c) = transcript
        <4>1. transcript \in Seq(Item) /\ c + 1 = 1
          BY <1>2, <3>1
        <4> HIDE DEF transcript, c
        <4>2. SubSeq(transcript, 1, Len(transcript)) = transcript
          BY <4>1
        <4> QED
          BY <4>1, <4>2 DEF uncovered
      <3>3. shown = input
        BY <1>5, <1>7, <2>1
      <3>4. input = encodeItems(transcript, FALSE)
        BY <2>1, <3>2
      <3> HIDE DEF input, shown, transcript
      <3>5. \A item \in Item : Occurrences(input, item) = Occurrences(transcript, item)
        BY <1>2, <3>4, EncodedOnce DEF Sent
      <3>6. AllAnswered(input)
        BY <1>5, <3>1, <3>5, FirstRequest
      <3> QED
        BY <3>3, <3>5, <3>6
    <2>2. CASE state.previous # 0
      <3>1. known(r) \in Seq(Item)
        BY <1>2, <2>2 DEF Conversations, known
      <3>2. Remembered(r)
        BY <1>1, <2>2 DEF Dialogue, Ready
      <3>3. due(r) = {} /\ \A item : owed(r, item) = 0
        BY <1>1 DEF due, owed, Calling, InCall
      <3>4. Recalled(known(r), transcript, c)
        <4>1. \A item : Occurrences(transcript, item) \in Nat
          BY <1>2, OccurrencesTyped
        <4> QED
          BY <3>2, <3>3, <4>1 DEF Remembered, Heard, Said, Recalled, covered
      <3>5. AnsweredAfter(known(r), transcript, c)
        BY <3>2, <3>3 DEF Remembered, Answering, AnsweredSince, AnsweredAfter, covered
      <3>6. shown = known(r) \o encodeItems(uncovered(transcript, c), TRUE)
        BY <1>7, <2>2
      <3> HIDE DEF shown, transcript, c
      <3> QED
        BY <1>2, <3>1, <3>4, <3>5, <3>6, NextRequestShown, NextRequestAnswered
    <2> QED
      BY <2>1, <2>2
  <1>9. Shown(r)'
    BY <1>1, <1>8 DEF Shown
  <1>10. reply'[r] = 0
    BY <1>1 DEF Replied
  <1> QED
    BY <1>1, <1>6, <1>9, <1>10 DEF Dialogue, BeforeLoop, InTurn, InCall, Ready

LEMMA RespondDialogue ==
    ASSUME Replied, Conversations, NEW r \in Runs, NEW t \in Turns, Dialogue(r), Respond(r, t)
    PROVE  Dialogue(r)' /\ Conversations' /\ NothingForgotten
  <1> DEFINE answer == conversation(request[r]) \o output(t)
  <1>1. /\ pc[r] = "generating" /\ request[r] # NoRequest
        /\ responses' = Append(responses, answer) /\ turns' = Append(turns, t)
        /\ reply' = [reply EXCEPT ![r] = Len(responses) + 1]
        /\ UNCHANGED <<vars, providerState, request>>
    BY DEF Respond
  <1>2. UNCHANGED <<pc, items>>
    BY <1>1 DEF vars, others
  <1>3. answer \in Seq(Item)
    <2>1. t \in Turn
      BY ConfigAssumption DEF Turn
    <2>2. conversation(request[r]) \in Seq(Item) /\ output(t) \in Seq(Item)
      BY <2>1, ConversationTyped, OutputTyped
    <2> QED
      BY <2>2, ConcatProperties
  <1> HIDE DEF answer
  <1>4. responses \in Seq(Seq(Item)) /\ turns \in Seq(Turns) /\ Len(responses) = Len(turns) /\ Len(responses) \in Nat
    BY Sizes DEF Conversations, Replied
  <1>5. /\ responses' \in Seq(Seq(Item)) /\ Len(responses') = Len(responses) + 1
        /\ responses'[Len(responses) + 1] = answer
        /\ \A i \in 1..Len(responses) : responses'[i] = responses[i]
    BY <1>1, <1>3, <1>4
  <1>6. turns'[Len(turns) + 1] = t /\ \A i \in 1..Len(turns) : turns'[i] = turns[i]
    BY <1>1, <1>4
  <1>7. NothingForgotten
    BY <1>5, <1>6 DEF NothingForgotten
  <1>8. Conversations'
    BY <1>1, <1>4, <1>5 DEF Conversations
  <1>9. conversation(request[r])' = conversation(request[r])
    <2>1. request'[r] = request[r] /\ request[r].previous \in 0..Len(responses)
      BY <1>1 DEF Conversations
    <2>2. CASE request[r].previous = 0
      BY <2>1, <2>2 DEF conversation
    <2>3. CASE request[r].previous # 0
      <3>1. responses'[request[r].previous] = responses[request[r].previous]
        BY <1>5, <2>1, <2>3
      <3> QED
        BY <2>1, <2>3, <3>1 DEF conversation
    <2> QED
      BY <2>2, <2>3
  <1>10. Shown(r)'
    BY <1>1, <1>2, <1>9 DEF Dialogue, Shown
  <1>11. reply'[r] = Len(responses) + 1
    BY <1>1 DEF Replied
  <1>12. responses'[reply'[r]] = conversation(request[r])' \o output(turns'[reply'[r]])
    BY <1>4, <1>5, <1>6, <1>9, <1>11 DEF answer
  <1>13. pc'[r] = "generating" /\ request'[r] # NoRequest
    BY <1>1, <1>2
  <1>14. Dialogue(r)'
    BY <1>10, <1>12, <1>13 DEF Dialogue, BeforeLoop, InTurn, InCall, Ready
  <1> QED
    BY <1>7, <1>8, <1>14

LEMMA ReceiveDialogue ==
    ASSUME TypeOK, Replied, Conversations, NEW r \in Runs, Dialogue(r), Receive(r)
    PROVE  Dialogue(r)' /\ Conversations'
  <1> DEFINE t == turns[reply[r]]
             past == conversation(request[r])
             all == responses[reply[r]]
  <1>1. /\ pc[r] = "generating" /\ reply[r] # 0 /\ pc'[r] = "modelCompleted" /\ turn'[r] = t /\ items' = items
        /\ UNCHANGED <<request, reply, responses, turns>>
    BY DEF Receive, ModelReturns, Goto, TypeOK
  <1>2. providerState'[r] = [previous |-> reply[r], consumed |-> Len(items[r])]
    BY DEF Receive, Replied
  <1>3. known(r)' = all /\ covered(r)' = Len(items[r]) /\ providerState'[r].previous # 0
    BY <1>1, <1>2 DEF known, covered
  <1>4. Shown(r) /\ all = past \o output(t)
    BY <1>1 DEF Dialogue
  <1>5. t \in Turn
    <2>1. t \in Turns
      BY <1>1, Sizes DEF Replied
    <2> QED
      BY <2>1, ConfigAssumption DEF Turn
  <1>6. past \in Seq(Item) /\ output(t) \in Seq(Item) /\ items[r] \in Seq(Item)
    BY <1>5, ConversationTyped, OutputTyped DEF TypeOK
  <1>7. \A item \in Item : Occurrences(past, item) = Occurrences(items[r], item)
    BY <1>4 DEF Shown
  <1>8. due(r)' = 1..Len(t.calls) /\ \A item : owed(r, item)' = Occurrences(output(t), item)
    BY <1>1 DEF due, owed
  <1>9. \A i \in 1..Len(output(t)) : IsCall(output(t)[i]) => \E k \in 1..Len(t.calls) : t.calls[k].id = output(t)[i].id
    BY <1>5, OutputTyped
  <1>10. \A item \in Item \ Spoken : Occurrences(output(t), item) = 0
    <2> SUFFICES ASSUME NEW item \in Item \ Spoken PROVE Occurrences(output(t), item) = 0
      OBVIOUS
    <2>1. Occurrences(output(t), item) = (IF t.text /\ Message("assistant") = item THEN 1 ELSE 0) + left(t.calls, 1, item)
      BY <1>5, OutputTyped
    <2>2. Message("assistant") # item /\ \A id : ToolCall(id) # item
      BY DEF Message, ToolCall, Spoken
    <2>3. Left(t.calls, 1, item) = {}
      BY <2>2 DEF Left
    <2>4. left(t.calls, 1, item) = 0
      BY <2>3, FS_EmptySet DEF left
    <2> QED
      BY <2>1, <2>2, <2>4
  <1> DEFINE said == output(t)
  <1>11. Joins(all, past, said)
    BY <1>4 DEF Joins
  <1> HIDE DEF all, past, said
  <1>12. \A item : Occurrences(all, item) = Occurrences(past, item) + Occurrences(said, item)
    BY <1>6, <1>11, Joined DEF said
  <1>13. \A item : Occurrences(past, item) \in Nat /\ Occurrences(said, item) \in Nat
    <2>1. \A item : Occurrences(past, item) \in Nat
      BY <1>6, OccurrencesTyped
    <2>2. \A item : Occurrences(said, item) \in Nat
      BY <1>6, OccurrencesTyped DEF said
    <2> QED
      BY <2>1, <2>2
  <1>14. SubSeq(items[r], 1, Len(items[r])) = items[r]
    BY <1>6
  <1>15. Heard(r)'
    <2> SUFFICES ASSUME NEW item \in Item \ Spoken
                 PROVE  Occurrences(all, item) = Occurrences(items[r], item)
      BY <1>1, <1>3, <1>14 DEF Heard
    <2>1. Occurrences(said, item) = 0
      BY <1>10 DEF said
    <2> QED
      BY <1>7, <1>12, <1>13, <2>1
  <1>16. Said(r)'
    <2> SUFFICES ASSUME NEW item \in Spoken
                 PROVE  Occurrences(all, item) = Occurrences(items[r], item) + Occurrences(said, item)
      BY <1>1, <1>3, <1>8 DEF Said, said
    <2> QED
      BY <1>7, <1>12 DEF Spoken
  <1>17. AnsweredIn(past, said)
    BY <1>4 DEF Shown, AllAnswered, AnsweredIn, past
  <1>18. \A i \in 1..Len(all) : IsCall(all[i]) => AnsweredLater(all, i) \/ \E j \in 1..Len(said) : all[i] = said[j]
    BY <1>6, <1>11, <1>17, JoinedAnswered DEF said
  <1>19. Answering(r)'
    <2> SUFFICES ASSUME NEW i \in 1..Len(all), IsCall(all[i])
                 PROVE  AnsweredLater(all, i) \/ \E k \in 1..Len(t.calls) : t.calls[k].id = all[i].id
      BY <1>1, <1>3, <1>8 DEF Answering
    <2> QED
      BY <1>9, <1>18 DEF said
  <1>20. Dialogue(r)'
    BY <1>1, <1>3, <1>15, <1>16, <1>19 DEF Remembered, Dialogue, BeforeLoop, InTurn, InCall, Ready
  <1>21. Conversations'
    BY <1>1 DEF Conversations
  <1> QED
    BY <1>20, <1>21

(***************************************************************************)
(* Every step keeps every run's dialogue.                                  *)
(***************************************************************************)
LEMMA DialogueInit == OpenAIInit => Conversations /\ \A r \in Runs : Dialogue(r)
  <1> SUFFICES ASSUME OpenAIInit PROVE Conversations /\ \A r \in Runs : Dialogue(r)
    OBVIOUS
  <1>1. responses = <<>> /\ request = [r \in Runs |-> NoRequest] /\ NoRequest = [previous |-> 0, input |-> <<>>]
    BY DEF OpenAIInit, NoRequest
  <1>2. <<>> \in Seq(Seq(Item)) /\ Len(<<>>) = 0 /\ <<>> \in Seq(Item)
    OBVIOUS
  <1>3. NoRequest \in [previous : 0..Len(responses), input : Seq(Item)]
    BY <1>1, <1>2
  <1>4. Conversations
    BY <1>1, <1>2, <1>3 DEF Conversations
  <1>5. ASSUME NEW r \in Runs PROVE pc[r] = "idle" /\ providerState[r].previous = 0
    BY DEF OpenAIInit, Init, NoState
  <1>6. ASSUME NEW r \in Runs PROVE Dialogue(r)
    BY <1>5 DEF Dialogue, BeforeLoop, InTurn, InCall, Ready
  <1> QED
    BY <1>4, <1>6

(* The steps of the runtime that leave the adapter alone.                  *)
LEMMA RuntimeDialogue ==
    ASSUME TypeOK, Placed, Replied, NEW r \in Runs, Dialogue(r), UNCHANGED provider,
           \/ \E s \in Skills : Begin(r, s)
           \/ BeginRefused(r) \/ CallFails(r) \/ Refuse(r) \/ ModelReturnsLate(r) \/ ResolveTools(r)
           \/ EnterLoop(r) \/ Published(r) \/ TakeAnswer(r) \/ TakeBatch(r)
           \/ FinishBatch(r) \/ StartCall(r) \/ AuthorizerAccepts(r) \/ PassCheck(r)
           \/ CallTool(r) \/ ToolReturns(r) \/ ToolCompletedPublished(r) \/ RunCompletedPublished(r)
    PROVE  Dialogue(r)' /\ \A q \in Runs \ {r} : Undisturbed(q)
  <1>1. ASSUME NEW label, pc' = [pc EXCEPT ![r] = label], UNCHANGED <<items, turn, next>>
        PROVE  \A q \in Runs \ {r} : Undisturbed(q)
    BY <1>1 DEF TypeOK, Undisturbed, provider
  <1>2. ASSUME NEW s \in Skills, Begin(r, s) PROVE Dialogue(r)' /\ \A q \in Runs \ {r} : Undisturbed(q)
    <2>1. pc[r] = "idle" /\ pc' = [pc EXCEPT ![r] = "runStarted"] /\ UNCHANGED <<items, turn, next>>
      BY <1>2 DEF Begin, Goto
    <2> QED
      BY <1>1, <2>1, QuietDialogue DEF BeforeLoop
  <1>3. ASSUME BeginRefused(r) \/ CallFails(r) \/ Refuse(r) \/ ModelReturnsLate(r)
        PROVE  Dialogue(r)' /\ \A q \in Runs \ {r} : Undisturbed(q)
    <2>1. pc' = [pc EXCEPT ![r] = "ended"] /\ UNCHANGED <<items, turn, next>>
      BY <1>3, ErrorEnds DEF others
    <2> QED
      BY <1>1, <2>1, QuietDialogue
  <1>4. ASSUME EnterLoop(r) \/ PassCheck(r) \/ CallTool(r) \/ AuthorizerAccepts(r)
        PROVE  Dialogue(r)' /\ \A q \in Runs \ {r} : Undisturbed(q)
    <2>1. /\ UNCHANGED <<items, turn, next>>
          /\ \E label : pc' = [pc EXCEPT ![r] = label] /\ <<pc[r], label>> \in Moves
      BY <1>4 DEF EnterLoop, PassCheck, CallTool, AuthorizerAccepts, Goto, Moves, others
    <2> QED
      BY <1>1, <2>1, QuietDialogue
  <1>5. ASSUME Published(r) PROVE Dialogue(r)' /\ \A q \in Runs \ {r} : Undisturbed(q)
    <2>1. /\ UNCHANGED <<items, turn, next>> /\ pc' = [pc EXCEPT ![r] = After[pc[r]]]
          /\ pc[r] \in {"runStarted", "skillSelected", "modelCompleted", "toolStarted"}
      BY <1>5 DEF Published, Goto, After
    <2>2. CASE pc[r] \in {"runStarted", "skillSelected"}
      <3>1. pc[r] \in BeforeLoop /\ After[pc[r]] \in BeforeLoop
        BY <2>2 DEF After, BeforeLoop
      <3> QED
        BY <1>1, <2>1, <3>1, QuietDialogue
    <2>3. CASE pc[r] \in {"modelCompleted", "toolStarted"}
      <3>1. <<pc[r], After[pc[r]]>> \in Moves
        BY <2>3 DEF After, Moves
      <3> QED
        BY <1>1, <2>1, <3>1, QuietDialogue
    <2> QED
      BY <2>1, <2>2, <2>3
  <1>6. ASSUME TakeAnswer(r) PROVE Dialogue(r)' /\ \A q \in Runs \ {r} : Undisturbed(q)
    <2>1. pc' = [pc EXCEPT ![r] = "runCompleted"] /\ UNCHANGED <<items, turn, next>>
      BY <1>6 DEF TakeAnswer, Goto, others
    <2> QED
      BY <1>1, <2>1, QuietDialogue
  <1>7. ASSUME RunCompletedPublished(r) PROVE Dialogue(r)' /\ \A q \in Runs \ {r} : Undisturbed(q)
    <2>1. pc' = [pc EXCEPT ![r] = "ended"] /\ UNCHANGED <<items, turn, next>>
      BY <1>7 DEF RunCompletedPublished, Return
    <2> QED
      BY <1>1, <2>1, QuietDialogue
  <1>8. ASSUME ResolveTools(r) \/ StartCall(r) \/ ToolReturns(r)
        PROVE  Dialogue(r)' /\ \A q \in Runs \ {r} : Undisturbed(q)
    <2>1. \A q \in Runs \ {r} : Undisturbed(q)
      BY <1>8 DEF ResolveTools, StartCall, ToolReturns, Goto, Undisturbed, provider, TypeOK
    <2> QED
      BY <1>8, <2>1, ResolveToolsDialogue, StartCallDialogue, ToolReturnsDialogue
  <1>9. ASSUME TakeBatch(r) \/ FinishBatch(r) \/ ToolCompletedPublished(r)
        PROVE  Dialogue(r)' /\ \A q \in Runs \ {r} : Undisturbed(q)
    <2>1. \A q \in Runs \ {r} : Undisturbed(q)
      BY <1>9 DEF TakeBatch, FinishBatch, ToolCompletedPublished, Goto, Undisturbed, provider, TypeOK
    <2> QED
      BY <1>9, <2>1, TakeBatchDialogue, FinishBatchDialogue, ToolCompletedDialogue
  <1> QED
    BY <1>2, <1>3, <1>4, <1>5, <1>6, <1>7, <1>8, <1>9

LEMMA DialogueStep ==
    ASSUME OpenAIInv, Conversations, \A r \in Runs : Dialogue(r), [OpenAINext]_allVars
    PROVE  Conversations' /\ \A r \in Runs : Dialogue(r)'
  <1>1. TypeOK /\ Placed /\ Replied
    BY DEF OpenAIInv
  <1>2. ASSUME NEW r \in Runs, Dialogue(r)', \A q \in Runs \ {r} : Undisturbed(q), NothingForgotten
        PROVE  \A q \in Runs : Dialogue(q)'
    BY <1>1, <1>2, UndisturbedKeeps
  <1>3. ASSUME UNCHANGED provider PROVE NothingForgotten /\ Conversations'
    BY <1>3 DEF provider, NothingForgotten, Conversations
  <1>4. ASSUME NEW r \in Runs, SendRequest(r) PROVE Conversations' /\ \A q \in Runs : Dialogue(q)'
    <2>1. Dialogue(r)' /\ Conversations'
      BY <1>1, <1>4, SendRequestDialogue
    <2>2. NothingForgotten
      BY <1>4 DEF SendRequest, NothingForgotten
    <2>3. \A q \in Runs \ {r} : Undisturbed(q)
      BY <1>1, <1>4 DEF SendRequest, CallModel, Goto, Undisturbed, TypeOK, Replied, Conversations
    <2> QED
      BY <1>2, <2>1, <2>2, <2>3
  <1>5. ASSUME NEW r \in Runs, Receive(r) PROVE Conversations' /\ \A q \in Runs : Dialogue(q)'
    <2>1. Dialogue(r)' /\ Conversations'
      BY <1>1, <1>5, ReceiveDialogue
    <2>2. NothingForgotten
      BY <1>5 DEF Receive, NothingForgotten
    <2>3. \A q \in Runs \ {r} : Undisturbed(q)
      BY <1>1, <1>5 DEF Receive, ModelReturns, Goto, Undisturbed, TypeOK, Replied
    <2> QED
      BY <1>2, <2>1, <2>2, <2>3
  <1>6. ASSUME NEW r \in Runs, NEW t \in Turns, Respond(r, t) PROVE Conversations' /\ \A q \in Runs : Dialogue(q)'
    <2>1. Dialogue(r)' /\ Conversations' /\ NothingForgotten
      BY <1>1, <1>6, RespondDialogue
    <2>2. \A q \in Runs \ {r} : Undisturbed(q)
      BY <1>1, <1>6 DEF Respond, vars, others, Undisturbed, Replied
    <2> QED
      BY <1>2, <2>1, <2>2
  <1>7. ASSUME UNCHANGED <<pc, items, turn, next>>, UNCHANGED provider
        PROVE  Conversations' /\ \A q \in Runs : Dialogue(q)'
    <2>1. \A q \in Runs : Undisturbed(q)
      BY <1>7 DEF Undisturbed, provider
    <2> QED
      BY <1>1, <1>3, <1>7, <2>1, UndisturbedKeeps
  <1>8. ASSUME NEW r \in Runs, RunStep(r), ~SendRequest(r), ~Receive(r), \A t \in Turns : ~Respond(r, t)
        PROVE  Conversations' /\ \A q \in Runs : Dialogue(q)'
    <2>1. UNCHANGED provider
      BY <1>8 DEF RunStep
    <2>2. CASE CtxDone(r)
      <3>1. UNCHANGED <<pc, items, turn, next>>
        BY <2>2 DEF CtxDone
      <3> QED
        BY <1>7, <2>1, <3>1
    <2>3. CASE ~CtxDone(r)
      <3>1. Dialogue(r)' /\ \A q \in Runs \ {r} : Undisturbed(q)
        BY <1>1, <1>8, <2>1, <2>3, RuntimeDialogue DEF RunStep
      <3> QED
        BY <1>2, <1>3, <2>1, <3>1
    <2> QED
      BY <2>2, <2>3
  <1>9. CASE AllReturned /\ UNCHANGED provider
    BY <1>7, <1>9 DEF AllReturned, vars, others
  <1>10. CASE UNCHANGED allVars
    BY <1>7, <1>10 DEF allVars, vars, others, provider
  <1> QED
    BY <1>4, <1>5, <1>6, <1>8, <1>9, <1>10 DEF OpenAINext

LEMMA DialoguesKept == OpenAISpec => [](Conversations /\ \A r \in Runs : Dialogue(r))
  <1>1. OpenAIInv /\ Conversations /\ (\A r \in Runs : Dialogue(r)) /\ [OpenAINext]_allVars
           => (Conversations /\ \A r \in Runs : Dialogue(r))'
    BY DialogueStep
  <1> QED
    BY <1>1, DialogueInit, OpenAIInvariance, PTL DEF OpenAISpec

(***************************************************************************)
(* With every request the model has in front of it exactly the items of    *)
(* the run's transcript, each as often as it is there: nothing is lost,    *)
(* nothing is said twice, and nothing of another run is among them.        *)
(***************************************************************************)
THEOREM WholeTranscriptShown == OpenAISpec => []ModelSeesTranscript
  <1>1. ASSUME TypeOK, Conversations, \A r \in Runs : Dialogue(r) PROVE ModelSeesTranscript
    <2> SUFFICES ASSUME NEW r \in Runs, pc[r] = "generating", request[r] # NoRequest,
                        NEW item \in Range(items[r]) \cup Range(conversation(request[r]))
                 PROVE  Occurrences(conversation(request[r]), item) = Occurrences(items[r], item)
      BY DEF ModelSeesTranscript
    <2>1. items[r] \in Seq(Item) /\ conversation(request[r]) \in Seq(Item)
      BY <1>1, ConversationTyped DEF TypeOK
    <2>2. item \in Item
      BY <2>1 DEF Range
    <2> QED
      BY <1>1, <2>2 DEF Dialogue, Shown
  <1> QED
    BY <1>1, OpenAIInvariance, DialoguesKept, PTL DEF OpenAIInv

(***************************************************************************)
(* No result without its call before it.  A result that is sent goes       *)
(* ahead of nothing: its call is in the transcript, hence in what the      *)
(* model is shown, and there only among what the service remembers.        *)
(***************************************************************************)
CalledBefore(seq, j) == \E i \in 1..Len(seq) : i < j /\ seq[i] = ToolCall(seq[j].id)
AllCalled(seq) == \A j \in 1..Len(seq) : IsResult(seq[j]) => CalledBefore(seq, j)

(* The input of a continued conversation has no call; that of a new one is *)
(* the user's message.                                                     *)
Sendings == \A r \in Runs : \A i \in 1..Len(request[r].input) :
    IF request[r].previous = 0 THEN ~IsResult(request[r].input[i]) ELSE ~IsCall(request[r].input[i])

MemoriesCalled == \A k \in 1..Len(responses) : AllCalled(responses[k])

(* Sequences put together: the results of the second find their calls in   *)
(* the first, or have none.                                                *)
LEMMA JoinedCalled ==
    ASSUME NEW past \in Seq(Item), NEW more \in Seq(Item), AllCalled(past),
           \A j \in 1..Len(more) : IsResult(more[j]) =>
               \E i \in 1..Len(past) : past[i] = ToolCall(more[j].id)
    PROVE  AllCalled(past \o more)
  <1> DEFINE all == past \o more
  <1>1. Joins(all, past, more)
    BY DEF Joins
  <1> HIDE DEF all
  <1>2. /\ Len(all) = Len(past) + Len(more) /\ Len(past) \in Nat /\ Len(more) \in Nat
        /\ \A i \in 1..Len(past) : i \in 1..Len(all) /\ all[i] = past[i]
        /\ \A i \in 1..Len(all) : i \notin 1..Len(past) =>
               i - Len(past) \in 1..Len(more) /\ all[i] = more[i - Len(past)]
    BY <1>1, Joined
  <1>3. ASSUME NEW j \in 1..Len(all), IsResult(all[j]) PROVE CalledBefore(all, j)
    <2>1. CASE j \in 1..Len(past)
      <3>1. all[j] = past[j]
        BY <1>2, <2>1
      <3>2. PICK i \in 1..Len(past) : i < j /\ past[i] = ToolCall(past[j].id)
        BY <1>3, <2>1, <3>1 DEF AllCalled, CalledBefore
      <3> QED
        BY <1>2, <3>1, <3>2 DEF CalledBefore
    <2>2. CASE j \notin 1..Len(past)
      <3>1. j - Len(past) \in 1..Len(more) /\ all[j] = more[j - Len(past)]
        BY <1>2, <2>2
      <3>2. PICK i \in 1..Len(past) : past[i] = ToolCall(all[j].id)
        BY <1>3, <3>1
      <3>3. i < j
        BY <1>2, <2>2
      <3> QED
        BY <1>2, <3>2, <3>3 DEF CalledBefore
    <2> QED
      BY <2>1, <2>2
  <1> QED
    BY <1>3 DEF AllCalled, all

(* In a transcript a result stands right behind its call.                  *)
LEMMA CalledInTranscript ==
    ASSUME TypeOK, TranscriptPaired, NEW r \in Runs, pc[r] \in {"callModel", "generating"},
           NEW j \in 1..Len(items[r]), IsResult(items[r][j])
    PROVE  \E i \in 1..Len(items[r]) : items[r][i] = ToolCall(items[r][j].id)
  <1>1. items[r] \in Seq(Item) /\ DOMAIN items[r] = 1..Len(items[r]) /\ Len(items[r]) \in Nat
    BY DEF TypeOK
  <1>2. j > 1 /\ IsCall(items[r][j - 1])
    BY <1>1 DEF TranscriptPaired
  <1>3. j - 1 \in 1..Len(items[r]) /\ (j - 1) + 1 = j
    BY <1>1, <1>2
  <1>4. items[r][j] = ToolResult(items[r][j - 1].id)
    BY <1>1, <1>2, <1>3 DEF TranscriptPaired
  <1>5. items[r][j - 1] \in Item
    BY <1>1, <1>3
  <1>6. items[r][j - 1] = ToolCall(items[r][j].id)
    BY <1>2, <1>4, <1>5 DEF Item, IsCall, ToolCall, ToolResult
  <1> QED
    BY <1>3, <1>6

(* Whatever is sent after what is remembered, without a call of its own.   *)
LEMMA ContinuedCalled ==
    ASSUME NEW past \in Seq(Item), NEW more \in Seq(Item), NEW transcript \in Seq(Item), AllCalled(past),
           \A j \in 1..Len(more) : ~IsCall(more[j]),
           \A item \in Item : Occurrences(past \o more, item) = Occurrences(transcript, item),
           \A j \in 1..Len(transcript) : IsResult(transcript[j]) =>
               \E i \in 1..Len(transcript) : transcript[i] = ToolCall(transcript[j].id)
    PROVE  AllCalled(past \o more)
  <1> DEFINE all == past \o more
  <1>1. Joins(all, past, more) /\ \A item \in Item : Occurrences(all, item) = Occurrences(transcript, item)
    BY DEF Joins
  <1> HIDE DEF all
  <1>2. /\ all \in Seq(Item)
        /\ \A j \in 1..Len(more) : Len(past) + j \in 1..Len(all) /\ all[Len(past) + j] = more[j]
        /\ \A i \in 1..Len(past) : all[i] = past[i]
        /\ \A i \in 1..Len(all) : i \notin 1..Len(past) =>
               i - Len(past) \in 1..Len(more) /\ all[i] = more[i - Len(past)]
    BY <1>1, Joined
  <1>3. ASSUME NEW j \in 1..Len(more), IsResult(more[j])
        PROVE  \E i \in 1..Len(past) : past[i] = ToolCall(more[j].id)
    <2> DEFINE call == ToolCall(more[j].id)
    <2>1. more[j] \in Item
      OBVIOUS
    <2>2. PICK k \in 1..Len(transcript) : transcript[k] = more[j]
      <3>1. Occurrences(all, more[j]) # 0
        BY <1>2, OccurrencesTyped
      <3>2. Occurrences(transcript, more[j]) # 0
        BY <1>1, <2>1, <3>1
      <3> QED
        BY <3>2, OccurrencesTyped
    <2>3. \E l \in 1..Len(transcript) : transcript[l] = call
      BY <1>3, <2>2
    <2>4. call \in Item /\ IsCall(call)
      BY <2>1 DEF Item, ToolCall, IsCall
    <2> HIDE DEF call
    <2>5. PICK i \in 1..Len(all) : all[i] = call
      <3>1. Occurrences(transcript, call) # 0
        BY <2>3, OccurrencesTyped
      <3>2. Occurrences(all, call) # 0
        BY <1>1, <2>4, <3>1
      <3> QED
        BY <1>2, <3>2, OccurrencesTyped
    <2>6. i \in 1..Len(past)
      BY <1>2, <2>4, <2>5
    <2> QED
      BY <1>2, <2>5, <2>6 DEF call
  <1> QED
    BY <1>3, JoinedCalled

LEMMA ShownCalled ==
    ASSUME TypeOK, TranscriptPaired, Conversations, Sendings, MemoriesCalled,
           NEW r \in Runs, pc[r] = "generating", request[r] # NoRequest, Dialogue(r)
    PROVE  AllCalled(conversation(request[r]))
  <1> DEFINE past == responses[request[r].previous]
             more == request[r].input
  <1>1. request[r].previous \in 0..Len(responses) /\ more \in Seq(Item)
    BY DEF Conversations
  <1>2. CASE request[r].previous = 0
    <2>1. conversation(request[r]) = more
      BY <1>1, <1>2 DEF conversation
    <2>2. \A i \in 1..Len(more) : ~IsResult(more[i])
      BY <1>2 DEF Sendings
    <2> HIDE DEF more
    <2>3. AllCalled(more)
      BY <2>2 DEF AllCalled
    <2> QED
      BY <2>1, <2>3
  <1>3. CASE request[r].previous # 0
    <2>1. past \in Seq(Item) /\ AllCalled(past)
      BY <1>1, <1>3 DEF Conversations, MemoriesCalled
    <2>2. conversation(request[r]) = past \o more
      BY <1>3 DEF conversation
    <2>3. \A j \in 1..Len(more) : ~IsCall(more[j])
      BY <1>3 DEF Sendings
    <2>4. items[r] \in Seq(Item)
      BY DEF TypeOK
    <2>5. \A item \in Item : Occurrences(past \o more, item) = Occurrences(items[r], item)
      BY <2>2 DEF Dialogue, Shown
    <2>6. \A j \in 1..Len(items[r]) : IsResult(items[r][j]) =>
              \E i \in 1..Len(items[r]) : items[r][i] = ToolCall(items[r][j].id)
      BY CalledInTranscript
    <2> HIDE DEF past, more
    <2>7. AllCalled(past \o more)
      BY <1>1, <2>1, <2>3, <2>4, <2>5, <2>6, ContinuedCalled
    <2> QED
      BY <2>2, <2>7
  <1> QED
    BY <1>2, <1>3

(* What the model says has no result in it.                                *)
LEMMA NothingAnsweredInOutput ==
    ASSUME NEW t \in Turn
    PROVE  output(t) \in Seq(Item) /\ \A i \in 1..Len(output(t)) : ~IsResult(output(t)[i])
  <1> DEFINE said == IF t.text THEN <<Message("assistant")>> ELSE <<>>
             asked == [i \in DOMAIN t.calls |-> ToolCall(t.calls[i].id)]
  <1>1. output(t) \in Seq(Item)
    BY OutputTyped
  <1>2. t.calls \in Seq(Call)
    BY DEF Turn
  <1>3. Message("assistant") \in Item /\ \A i \in 1..Len(t.calls) : ToolCall(t.calls[i].id) \in Item
    <2>1. \A i \in 1..Len(t.calls) : t.calls[i] \in Call
      BY <1>2
    <2> QED
      BY <2>1 DEF Item, Message, ToolCall, Call
  <1>4. said \in Seq(Item) /\ \A i \in 1..Len(said) : ~IsResult(said[i])
    BY <1>3 DEF Message, IsResult
  <1>5. asked \in Seq(Item) /\ \A i \in 1..Len(asked) : ~IsResult(asked[i])
    BY <1>2, <1>3 DEF ToolCall, IsResult
  <1>6. Joins(output(t), said, asked)
    BY DEF output, Joins
  <1> HIDE DEF said, asked
  <1>7. ASSUME NEW i \in 1..Len(output(t)) PROVE ~IsResult(output(t)[i])
    BY <1>4, <1>5, <1>6, Joined
  <1> QED
    BY <1>1, <1>7

LEMMA SendRequestSends ==
    ASSUME TypeOK, Replied, Conversations, Sendings, NEW r \in Runs, Dialogue(r), SendRequest(r)
    PROVE  Sendings'
  <1> DEFINE state == providerState[r]
             input == encodeItems(uncovered(items[r], state.consumed), state.previous # 0)
             sent == [previous |-> state.previous, input |-> input]
  <1>1. /\ items[r] \in Seq(Item) /\ state.consumed \in 0..Len(items[r])
        /\ acceptable(state, Len(items[r])) /\ pc[r] = "callModel"
    BY CoveredTyped DEF covered, Replied, SendRequest, CallModel
  <1>2. request' = [request EXCEPT ![r] = sent]
    BY <1>1 DEF SendRequest, uncovered
  <1>3. input \in Seq(Item)
    <2>1. uncovered(items[r], state.consumed) \in Seq(Item)
      BY <1>1 DEF uncovered
    <2> QED
      BY <2>1, EncodedOnce
  <1>4. ASSUME NEW i \in 1..Len(input)
        PROVE  IF state.previous = 0 THEN ~IsResult(input[i]) ELSE ~IsCall(input[i])
    <2>1. input[i] \in Item /\ Occurrences(input, input[i]) # 0
      BY <1>3, OccurrencesTyped
    <2>2. CASE state.previous = 0
      <3>1. state.consumed = 0 /\ items[r] = <<Message("user")>>
        BY <1>1, <2>2 DEF acceptable, NoState, Dialogue, Ready
      <3>2. uncovered(items[r], 0) \in Seq(Item) /\ uncovered(items[r], 0) = <<Message("user")>>
        <4>1. 0 + 1 = 1 /\ SubSeq(items[r], 1, Len(items[r])) = items[r]
          BY <1>1
        <4> QED
          BY <1>1, <3>1, <4>1 DEF uncovered
      <3>3. Occurrences(uncovered(items[r], 0), input[i]) # 0
        BY <2>1, <2>2, <3>1, <3>2, EncodedOnce
      <3>4. PICK j \in 1..Len(uncovered(items[r], 0)) : uncovered(items[r], 0)[j] = input[i]
        BY <3>2, <3>3, OccurrencesTyped
      <3>5. input[i] = Message("user")
        BY <3>2, <3>4
      <3> QED
        BY <2>2, <3>5 DEF Message, IsResult
    <2>3. CASE state.previous # 0
      <3>1. \A item \in Spoken : Occurrences(input, item) = 0
        BY <1>1, <2>3, NextRequestSent
      <3>2. input[i] \notin Spoken
        BY <2>1, <3>1
      <3> QED
        BY <2>1, <2>3, <3>2 DEF Spoken, IsCall
    <2> QED
      BY <2>2, <2>3
  <1> HIDE DEF input
  <1>5. sent.previous = state.previous /\ sent.input = input
    OBVIOUS
  <1>6. \A q \in Runs : request'[q] = IF q = r THEN sent ELSE request[q]
    BY <1>2 DEF Conversations
  <1> HIDE DEF sent
  <1> QED
    BY <1>4, <1>5, <1>6 DEF Sendings

LEMMA RespondRemembersCalled ==
    ASSUME TypeOK, TranscriptPaired, Conversations, Sendings, MemoriesCalled,
           NEW r \in Runs, Dialogue(r), NEW t \in Turns, Respond(r, t)
    PROVE  MemoriesCalled'
  <1> DEFINE shown == conversation(request[r])
             answer == shown \o output(t)
  <1>1. shown \in Seq(Item) /\ AllCalled(shown)
    BY ConversationTyped, ShownCalled DEF Respond
  <1>2. output(t) \in Seq(Item) /\ \A i \in 1..Len(output(t)) : ~IsResult(output(t)[i])
    <2>1. t \in Turn
      BY ConfigAssumption DEF Turn
    <2> QED
      BY <2>1, NothingAnsweredInOutput
  <1> HIDE DEF shown
  <1>3. answer \in Seq(Item) /\ AllCalled(answer)
    BY <1>1, <1>2, JoinedCalled, ConcatProperties
  <1>4. responses' = Append(responses, answer) /\ responses \in Seq(Seq(Item))
    BY DEF Respond, Conversations, shown
  <1> HIDE DEF answer
  <1>5. /\ Len(responses) \in Nat /\ Len(responses') = Len(responses) + 1
        /\ responses'[Len(responses) + 1] = answer
        /\ \A k \in 1..Len(responses) : responses'[k] = responses[k]
    BY <1>3, <1>4
  <1>6. ASSUME NEW k \in 1..Len(responses') PROVE AllCalled(responses'[k])
    <2>1. k \in 1..Len(responses) \/ k = Len(responses) + 1
      BY <1>5
    <2> QED
      BY <1>3, <1>5, <2>1 DEF MemoriesCalled
  <1> QED
    BY <1>6 DEF MemoriesCalled, AllCalled, CalledBefore

LEMMA CallsStep ==
    ASSUME OpenAIInv, TranscriptPaired, Conversations, \A r \in Runs : Dialogue(r),
           Sendings, MemoriesCalled, [OpenAINext]_allVars
    PROVE  Sendings' /\ MemoriesCalled'
  <1>1. TypeOK /\ Replied
    BY DEF OpenAIInv
  <1>2. UNCHANGED request => Sendings'
    BY DEF Sendings
  <1>3. UNCHANGED responses => MemoriesCalled'
    BY DEF MemoriesCalled, AllCalled, CalledBefore
  <1>4. ASSUME NEW r \in Runs, SendRequest(r) PROVE Sendings' /\ MemoriesCalled'
    BY <1>1, <1>3, <1>4, SendRequestSends DEF SendRequest
  <1>5. ASSUME NEW r \in Runs, NEW t \in Turns, Respond(r, t) PROVE Sendings' /\ MemoriesCalled'
    BY <1>1, <1>2, <1>5, RespondRemembersCalled DEF Respond
  <1>6. ASSUME NEW r \in Runs, RunStep(r), ~SendRequest(r), \A t \in Turns : ~Respond(r, t)
        PROVE  UNCHANGED <<request, responses>>
    BY <1>6 DEF RunStep, Receive, provider
  <1>7. (AllReturned /\ UNCHANGED provider) \/ UNCHANGED allVars => UNCHANGED <<request, responses>>
    BY DEF provider, allVars
  <1> QED
    BY <1>2, <1>3, <1>4, <1>5, <1>6, <1>7 DEF OpenAINext

LEMMA CallsRemembered == OpenAISpec => [](Sendings /\ MemoriesCalled)
  <1>1. OpenAIInit => Sendings /\ MemoriesCalled
    BY DEF OpenAIInit, NoRequest, Sendings, MemoriesCalled
  <1>2. /\ OpenAIInv /\ TranscriptPaired /\ Conversations /\ (\A r \in Runs : Dialogue(r))
        /\ Sendings /\ MemoriesCalled /\ [OpenAINext]_allVars
        => (Sendings /\ MemoriesCalled)'
    BY CallsStep
  <1> QED
    BY <1>1, <1>2, OpenAIInvariance, DialoguesKept, AdapterIsAModel, ModelSeesResults, PTL DEF OpenAISpec

(***************************************************************************)
(* In the conversation the model is shown every call has its result after  *)
(* it and every result its call before it: the service never has to refuse *)
(* a conversation.                                                         *)
(***************************************************************************)
THEOREM EveryCallAnswered == OpenAISpec => []CallsAnsweredInOrder
  <1>1. ASSUME TypeOK, TranscriptPaired, Conversations, \A r \in Runs : Dialogue(r), Sendings, MemoriesCalled
        PROVE  CallsAnsweredInOrder
    <2> SUFFICES ASSUME NEW r \in Runs, pc[r] = "generating", request[r] # NoRequest
                 PROVE  LET seen == conversation(request[r]) IN
                        /\ \A i \in DOMAIN seen : IsCall(seen[i]) =>
                              \E j \in DOMAIN seen : j > i /\ seen[j] = ToolResult(seen[i].id)
                        /\ \A j \in DOMAIN seen : IsResult(seen[j]) =>
                              \E i \in DOMAIN seen : i < j /\ seen[i] = ToolCall(seen[j].id)
      BY DEF CallsAnsweredInOrder
    <2> DEFINE seen == conversation(request[r])
    <2>1. AllAnswered(seen) /\ AllCalled(seen)
      BY <1>1, ShownCalled DEF Dialogue, Shown
    <2>2. seen \in Seq(Item)
      BY <1>1, ConversationTyped
    <2> HIDE DEF seen
    <2>3. DOMAIN seen = 1..Len(seen)
      BY <2>2
    <2>4. /\ \A i \in DOMAIN seen : IsCall(seen[i]) =>
                \E j \in DOMAIN seen : j > i /\ seen[j] = ToolResult(seen[i].id)
          /\ \A j \in DOMAIN seen : IsResult(seen[j]) =>
                \E i \in DOMAIN seen : i < j /\ seen[i] = ToolCall(seen[j].id)
      BY <2>1, <2>3 DEF AllAnswered, AnsweredLater, AllCalled, CalledBefore
    <2> QED
      BY <2>4 DEF seen
  <1> QED
    BY <1>1, DialoguesKept, OpenAIInvariance, CallsRemembered, AdapterIsAModel, ModelSeesResults, PTL DEF OpenAIInv
=============================================================================
