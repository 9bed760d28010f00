-------------------------- MODULE ProjectRunProofs --------------------------
(***************************************************************************)
(* The command, for every configuration of skills, tools and rules and     *)
(* every set of turns: its run is one of AgentRuntime, its requests are    *)
(* those of TerminalApprover, and what it executes was confirmed.          *)
(***************************************************************************)
EXTENDS ProjectRun, RuntimeProofs

USE DEF shared, control, plan, position, history, approver, traces,
        Approver!caller, Approver!terminal, Approver!outcomes

(***************************************************************************)
(* The runtime inside the command.                                         *)
(***************************************************************************)

(* The authorizer's verdict reaches the run as one of the answers the      *)
(* runtime was modelled with, or not yet.                                  *)
LEMMA DeliverMaps ==
    ASSUME NEW r \in Runs, Deliver(r)
    PROVE  DependencyReturns(r) \/ UNCHANGED vars
  BY DEF Deliver, DependencyReturns

LEMMA RuntimeMaps == [CommandNext]_commandVars => [Next]_vars
  <1> SUFFICES ASSUME CommandNext PROVE Next \/ UNCHANGED vars
    BY DEF commandVars
  <1>1. CASE Startup
    <2>1. projectTools \subseteq ToolNames
      BY ConfigAssumption DEF projectTools
    <2> QED
      BY <1>1, <2>1 DEF Startup, Proceed, RegisterTool, StartupFails, Next
  <1>2. ASSUME NEW r \in Runs, Interrupt(r) \/ CallRun(r) \/ RuntimeStep(r) \/ DependencyStep(r)
        PROVE  Next
    BY <1>2 DEF Interrupt, CallRun, RuntimeStep, DependencyStep, Next
  <1>3. ASSUME NEW r \in Runs, AuthorizerStep(r) PROVE Next \/ UNCHANGED vars
    BY <1>3, DeliverMaps DEF AuthorizerStep, Next
  <1>4. ASSUME TerminalStep \/ Gone \/ \E r \in Runs : Finish(r) PROVE UNCHANGED vars
    BY <1>4 DEF TerminalStep, Gone, Finish, commandVars
  <1> QED
    BY <1>1, <1>2, <1>3, <1>4 DEF CommandNext

(* The run of a command is a run of the Runtime as AgentRuntime has it:    *)
(* nothing the policy and the terminal do is outside of what the runtime   *)
(* was modelled with (runtime.go:206, main.go:158-173).                    *)
THEOREM RunsAsModelled == CommandSpec => Spec
  <1>1. CommandInit => Init
    BY DEF CommandInit
  <1> QED
    BY <1>1, RuntimeMaps, PTL DEF CommandSpec, Spec

(* Whatever the user, the servers and the model do, the command executes   *)
(* no tool without a permission given in time, and none outside the scope  *)
(* of the routed skill.                                                    *)
THEOREM CommandAuthorised == CommandSpec => []EffectsAuthorised
  BY RunsAsModelled, Authorised, PTL

LEMMA RuntimeInvariant == CommandSpec => [](TypeOK /\ Placed /\ Inv)
  BY RunsAsModelled, Invariance, PTL

(***************************************************************************)
(* The approver inside the command.                                        *)
(***************************************************************************)
LEMMA AskedIsTool ==
    ASSUME TypeOK, Placed, NEW r \in Runs, pc[r] = "authorizing"
    PROVE  current(r).tool \in ToolNames
  <1>1. current(r) \in Call
    BY CurrentTyped DEF Placed, InCall
  <1> QED
    BY <1>1 DEF Call

LEMMA ApproverMaps ==
    TypeOK /\ Placed /\ [CommandNext]_commandVars => [Approver!Next]_(Approver!vars)
  <1> SUFFICES ASSUME TypeOK, Placed, CommandNext PROVE Approver!Next \/ UNCHANGED Approver!vars
    BY DEF commandVars, Approver!vars, vars, others
  <1>1. ASSUME UNCHANGED done, UNCHANGED approver PROVE UNCHANGED Approver!vars
    BY <1>1 DEF Approver!vars
  <1>2. CASE Startup
    BY <1>1, <1>2 DEF Startup, Proceed, RegisterTool, StartupFails, Register, vars, others
  <1>3. ASSUME NEW r \in Runs, Interrupt(r) PROVE Approver!Next
    BY <1>3 DEF Interrupt, CtxDone, Approver!Next, Approver!CtxDone
  <1>4. ASSUME NEW r \in Runs, CallRun(r) PROVE UNCHANGED Approver!vars
    BY <1>1, <1>4 DEF CallRun, Begin, BeginRefused, others
  <1>5. ASSUME NEW r \in Runs, RuntimeStep(r) PROVE UNCHANGED Approver!vars
    BY <1>1, <1>5 DEF RuntimeStep, OwnStep, Refuse, ResolveTools, EnterLoop, CallModel, TakeAnswer,
                      TakeBatch, FinishBatch, StartCall, PassCheck, CallTool, others
  <1>6. ASSUME NEW r \in Runs, DependencyStep(r) PROVE UNCHANGED Approver!vars
    BY <1>1, <1>6 DEF DependencyStep, DependencyReturns, CallFails, Published, ModelReturnsLate,
                      ModelReturns, AuthorizerAccepts, ToolReturns, ToolCompletedPublished,
                      RunCompletedPublished, others
  <1>7. ASSUME NEW r \in Runs, AuthorizerStep(r) PROVE Approver!Next
    BY <1>7, AskedIsTool DEF AuthorizerStep, Approver!Next
  <1>8. CASE TerminalStep
    BY <1>8 DEF TerminalStep, Approver!Next
  <1>9. ASSUME Gone \/ \E r \in Runs : Finish(r) PROVE UNCHANGED Approver!vars
    BY <1>1, <1>9 DEF Gone, Finish, commandVars, vars, others
  <1> QED
    BY <1>2, <1>3, <1>4, <1>5, <1>6, <1>7, <1>8, <1>9 DEF CommandNext

(* The command asks the approver as TerminalApprover was modelled, so its  *)
(* guarantees hold there: one reader, approvals that are the request's own *)
(* and retirement for good.                                                *)
THEOREM AsksAsModelled == CommandSpec => Approver!Spec
  <1>1. CommandInit => Approver!Init
    BY DEF CommandInit
  <1> QED
    BY <1>1, RuntimeInvariant, ApproverMaps, PTL DEF CommandSpec, Approver!Spec

(***************************************************************************)
(* What is executed was confirmed.  Why a state invariant about the        *)
(* present is not enough: the read an execution rests on must also stay    *)
(* out of the hands of the requests that are cancelled later, so it is     *)
(* never again the one a request waits for.                                *)
(***************************************************************************)
Accepted == {"granted", "callTool"}

Confirmed(c) ==
    /\ Mode[c.tool] # "deny"
    /\ Mode[c.tool] = "ask" =>
        \E k \in DOMAIN reads :
            /\ promptedFor[k] = c /\ reads[k].line = "yes" /\ k \notin withdrawn
            /\ \A r \in Runs : approving[r] = "reading" => myRead[r] # k

(* An open request is about the call the run is at, whose rule is "ask",   *)
(* and one that waits for a line was prompted for that call.               *)
Open == \A r \in Runs : approving[r] # "idle" =>
    pc[r] = "authorizing" /\ asked[r] = callOf(r).tool /\ Mode[callOf(r).tool] = "ask"
Waiting == \A r \in Runs : approving[r] = "reading" =>
    /\ myRead[r] \in DOMAIN reads /\ myRead[r] \notin withdrawn
    /\ promptedFor[myRead[r]] = callOf(r)

(* Prompts and reads are numbered alike.                                   *)
Numbering ==
    /\ reads \in Seq(Approver!Read)
    /\ promptedFor \in Seq([at : Occurrence, tool : ToolNames])
    /\ Len(promptedFor) = Len(reads)
    /\ withdrawn \subseteq DOMAIN reads

Backed == \A r \in Runs : pc[r] \in Accepted => Confirmed(callOf(r))
AllConfirmed == \A c \in carriedOut : Confirmed(c)

CommandInv == Open /\ Waiting /\ Numbering /\ Backed /\ AllConfirmed
Typing == TypeOK /\ Placed /\ Approver!TypeOK

LEMMA OneRun == ASSUME NEW r \in Runs PROVE Runs = {r}
  BY CommandAssumption

LEMMA CallTyped ==
    ASSUME TypeOK, Placed, NEW r \in Runs, pc[r] \in InCall
    PROVE  callOf(r) \in [at : Occurrence, tool : ToolNames]
  <1>1. current(r) \in Call
    BY CurrentTyped DEF Placed, InCall
  <1> QED
    BY <1>1 DEF Call, callOf, Occurrence, TypeOK

(* A step that neither asks nor answers: what was confirmed stays so, and  *)
(* a run leaves its request, or the call it is at, only when it is done    *)
(* with it.                                                                *)
LEMMA QuietKeeps ==
    ASSUME CommandInv, UNCHANGED approver, UNCHANGED promptedFor, AllConfirmed',
           \A r \in Runs :
              \/ /\ UNCHANGED callOf(r)
                 /\ pc'[r] \in Accepted => pc[r] \in Accepted
                 /\ pc[r] = "authorizing" => pc'[r] = "authorizing"
              \/ approving[r] = "idle" /\ pc'[r] \notin Accepted
    PROVE  CommandInv'
  <1>1. \A c : Confirmed(c) => Confirmed(c)'
    BY DEF Confirmed
  <1>2. Numbering'
    BY DEF CommandInv, Numbering
  <1>3. ASSUME NEW r \in Runs, approving'[r] # "idle"
        PROVE  pc'[r] = "authorizing" /\ asked'[r] = callOf(r)'.tool /\ UNCHANGED callOf(r)
    BY <1>3 DEF CommandInv, Open
  <1>4. Open' /\ Waiting'
    BY <1>3 DEF CommandInv, Open, Waiting
  <1>5. Backed'
    BY <1>1 DEF CommandInv, Backed
  <1> QED
    BY <1>2, <1>4, <1>5 DEF CommandInv

LEMMA StillConfirmed ==
    ASSUME AllConfirmed, UNCHANGED approver, UNCHANGED traces
    PROVE  AllConfirmed'
  BY DEF AllConfirmed, Confirmed

(* Steps outside of the authorizer.                                        *)
LEMMA QuietSteps ==
    ASSUME Typing, CommandInv, NEW r \in Runs,
           Startup \/ Interrupt(r) \/ CallRun(r) \/ RuntimeStep(r) \/ DependencyStep(r)
           \/ Finish(r) \/ Gone
    PROVE  CommandInv'
  <1> USE OneRun DEF Typing
  <1>0. CommandInv => AllConfirmed /\ Open
    BY DEF CommandInv
  <1>1. CASE Startup \/ Interrupt(r) \/ Finish(r) \/ Gone
    <2>1. UNCHANGED <<pc, step, next, turn, approver, traces>>
      BY <1>1 DEF Startup, Proceed, RegisterTool, StartupFails, Register, Interrupt, CtxDone, Finish,
                  Gone, commandVars, vars, others
    <2>2. UNCHANGED callOf(r)
      BY <2>1 DEF callOf, current
    <2> QED
      BY <1>0, <2>1, <2>2, QuietKeeps, StillConfirmed
  <1>2. CASE CallRun(r)
    <2>1. pc[r] = "idle" /\ pc'[r] \in {"runStarted", "ended"} /\ UNCHANGED approver /\ UNCHANGED traces
      BY <1>2 DEF CallRun, Begin, BeginRefused, Goto, Return, TypeOK
    <2>2. approving[r] = "idle"
      BY <1>0, <2>1 DEF Open
    <2> QED
      BY <1>0, <2>1, <2>2, QuietKeeps, StillConfirmed DEF Accepted
  <1>3. CASE DependencyStep(r)
    <2>1. pc[r] # "authorizing" /\ UNCHANGED approver /\ UNCHANGED traces
      BY <1>3 DEF DependencyStep, elsewhere
    <2>2. pc'[r] \notin Accepted
      BY <1>3, <2>1 DEF DependencyStep, DependencyReturns, CallFails, Published, After, ModelReturnsLate,
              ModelReturns, AuthorizerAccepts, ToolReturns, ToolCompletedPublished,
              RunCompletedPublished, Goto, Return, Accepted, TypeOK
    <2>3. approving[r] = "idle"
      BY <1>0, <2>1 DEF Open
    <2> QED
      BY <1>0, <2>1, <2>2, <2>3, QuietKeeps, StillConfirmed
  <1>4. CASE RuntimeStep(r)
    <2>1. OwnStep(r) /\ UNCHANGED approver /\ UNCHANGED promptedFor
      BY <1>4 DEF RuntimeStep
    <2>2. pc[r] # "authorizing"
      BY <2>1 DEF OwnStep, Refuse, Errs, ResolveTools, EnterLoop, CallModel, TakeAnswer, TakeBatch,
                  FinishBatch, StartCall, PassCheck, CallTool
    <2>3. \A c : Confirmed(c) => Confirmed(c)'
      BY <2>1 DEF Confirmed
    <2>4. AllConfirmed'
      <3>1. carriedOut' \subseteq carriedOut \cup (IF pc[r] = "callTool" THEN {callOf(r)} ELSE {})
        BY <1>4 DEF RuntimeStep
      <3> QED
        BY <2>3, <3>1 DEF CommandInv, AllConfirmed, Backed, Accepted
    <2>5. \/ pc'[r] \notin Accepted
          \/ UNCHANGED callOf(r) /\ pc[r] \in Accepted
      BY <2>1 DEF OwnStep, Refuse, ResolveTools, EnterLoop, CallModel, TakeAnswer, TakeBatch,
                  FinishBatch, StartCall, PassCheck, CallTool, Goto, Return, Accepted, TypeOK, callOf, current
    <2>6. approving[r] = "idle"
      BY <1>0, <2>2 DEF Open
    <2> QED
      BY <2>1, <2>2, <2>4, <2>5, <2>6, QuietKeeps
  <1> QED
    BY <1>1, <1>2, <1>3, <1>4

(* The request is made: a rule decides, or the approver is asked.          *)
LEMMA AuthorizeKeeps ==
    ASSUME Typing, CommandInv, NEW r \in Runs, pc[r] = "authorizing",
           Approver!Authorize(r, current(r).tool), Deliver(r), UNCHANGED <<promptedFor, carriedOut>>
    PROVE  CommandInv'
  <1> USE OneRun DEF Typing
  <1>1. /\ approving[r] = "idle"
        /\ UNCHANGED <<reads, myRead, withdrawn>>
        /\ callOf(r).tool = current(r).tool
    BY DEF Approver!Authorize, callOf
  <1>2. CASE Mode[current(r).tool] = "ask"
    <2>1. /\ approving'[r] = "gate" /\ asked'[r] = callOf(r).tool
          /\ UNCHANGED vars
      BY <1>1, <1>2 DEF Approver!Authorize, Deliver, Approver!TypeOK
    <2>2. UNCHANGED <<pc, step, next, turn>> /\ UNCHANGED callOf(r)
      BY <2>1 DEF vars, others, callOf, current
    <2>3. \A c : Confirmed(c) => Confirmed(c)'
      BY <1>1, <2>1 DEF Confirmed
    <2>4. Open' /\ Waiting'
      BY <1>1, <1>2, <2>1, <2>2 DEF Open, Waiting
    <2>5. Numbering' /\ Backed' /\ AllConfirmed'
      BY <1>1, <2>2, <2>3 DEF CommandInv, Numbering, Backed, AllConfirmed, Accepted
    <2> QED
      BY <2>4, <2>5 DEF CommandInv
  <1>3. CASE Mode[current(r).tool] # "ask"
    <2>1. /\ UNCHANGED approving
          /\ verdict'[r] = IF Mode[current(r).tool] = "allow" THEN "granted" ELSE "denied"
      BY <1>3 DEF Approver!Authorize, Approver!TypeOK
    <2>2. \A c : Confirmed(c) => Confirmed(c)'
      BY <1>1, <2>1 DEF Confirmed
    <2>3. Open' /\ Waiting' /\ Numbering' /\ AllConfirmed'
      BY <1>1, <2>1, <2>2 DEF CommandInv, Open, Waiting, Numbering, AllConfirmed
    <2>4. Backed'
      <3>1. CASE Mode[current(r).tool] = "allow"
        <4>1. AuthorizerAccepts(r)
          BY <1>1, <2>1, <3>1 DEF Deliver
        <4>2. UNCHANGED callOf(r)
          BY <4>1 DEF AuthorizerAccepts, callOf, current
        <4>3. Confirmed(callOf(r))
          BY <1>1, <3>1 DEF Confirmed
        <4> QED
          BY <2>2, <4>2, <4>3 DEF Backed
      <3>2. CASE Mode[current(r).tool] # "allow"
        <4>1. CallFails(r)
          BY <1>1, <2>1, <3>2 DEF Deliver
        <4> QED
          BY <4>1 DEF CallFails, Return, Backed, Accepted, TypeOK
      <3> QED
        BY <3>1, <3>2
    <2> QED
      BY <2>3, <2>4 DEF CommandInv
  <1> QED
    BY <1>2, <1>3

(* The request ends without an approval.                                   *)
LEMMA RefusalKeeps ==
    ASSUME Typing, CommandInv, NEW r \in Runs, CallFails(r), approving'[r] = "idle",
           UNCHANGED <<reads, promptedFor, carriedOut, myRead>>,
           UNCHANGED withdrawn \/ (approving[r] = "reading" /\ withdrawn' = withdrawn \cup {myRead[r]})
    PROVE  CommandInv'
  <1> USE OneRun DEF Typing
  <1>1. pc'[r] = "ended"
    BY DEF CallFails, Return, TypeOK
  <1>2. \A c : Confirmed(c) => Confirmed(c)'
    BY DEF Confirmed
  <1>3. withdrawn' \subseteq DOMAIN reads
    BY DEF CommandInv, Numbering, Waiting
  <1> QED
    BY <1>1, <1>2, <1>3 DEF CommandInv, Open, Waiting, Numbering, Backed, AllConfirmed, Accepted

(* The request goes on, before its prompt.                                 *)
LEMMA QueueKeeps ==
    ASSUME Typing, CommandInv, NEW r \in Runs, UNCHANGED vars, approving[r] # "idle",
           approving'[r] # "reading", asked'[r] = asked[r],
           UNCHANGED <<reads, promptedFor, carriedOut, myRead, withdrawn>>
    PROVE  CommandInv'
  <1> USE OneRun DEF Typing
  <1>1. UNCHANGED <<pc, step, next, turn>> /\ UNCHANGED callOf(r)
    BY DEF vars, others, callOf, current
  <1>2. \A c : Confirmed(c) => Confirmed(c)'
    BY DEF Confirmed
  <1> QED
    BY <1>1, <1>2 DEF CommandInv, Open, Waiting, Numbering, Backed, AllConfirmed, Accepted

(* The prompt is shown, and a read of its own begins.                      *)
LEMMA PromptKeeps ==
    ASSUME Typing, CommandInv, NEW r \in Runs, pc[r] = "authorizing", Approver!Prompt(r), Deliver(r),
           promptedFor' = (IF reads' # reads THEN Append(promptedFor, callOf(r)) ELSE promptedFor),
           UNCHANGED carriedOut
    PROVE  CommandInv'
  <1> USE OneRun DEF Typing
  <1> DEFINE read == [by |-> r, line |-> "pending"]
  <1>1. /\ reads \in Seq(Approver!Read) /\ read \in Approver!Read
        /\ promptedFor \in Seq([at : Occurrence, tool : ToolNames]) /\ Len(promptedFor) = Len(reads)
    BY DEF CommandInv, Numbering, Approver!Read, Approver!Pending
  <1>2. /\ reads' = Append(reads, read) /\ myRead'[r] = Len(reads) + 1
        /\ approving'[r] = "reading" /\ UNCHANGED <<asked, withdrawn>>
    BY DEF Approver!Prompt, Approver!Goto, Approver!TypeOK, Approver!Pending
  <1>3. UNCHANGED vars /\ UNCHANGED callOf(r) /\ UNCHANGED <<pc, step, next, turn>>
    BY <1>2 DEF Deliver, vars, others, callOf, current
  <1>4. reads' # reads /\ Len(reads') = Len(reads) + 1 /\ reads' \in Seq(Approver!Read)
    BY <1>1, <1>2
  <1>5. callOf(r) \in [at : Occurrence, tool : ToolNames]
    BY CallTyped DEF InCall
  <1>6. /\ promptedFor' = Append(promptedFor, callOf(r))
        /\ Len(promptedFor') = Len(reads')
        /\ promptedFor' \in Seq([at : Occurrence, tool : ToolNames])
    BY <1>1, <1>4, <1>5
  <1>7. \A k \in DOMAIN reads :
            k \in DOMAIN reads' /\ reads'[k] = reads[k] /\ promptedFor'[k] = promptedFor[k] /\ k # Len(reads) + 1
    BY <1>1, <1>2, <1>4, <1>6
  <1>8. ASSUME NEW c, Confirmed(c) PROVE Confirmed(c)'
    <2>1. CASE Mode[c.tool] = "ask"
      <3>1. PICK k \in DOMAIN reads :
                promptedFor[k] = c /\ reads[k].line = "yes" /\ k \notin withdrawn
        BY <1>8, <2>1 DEF Confirmed
      <3>2. k \in DOMAIN reads' /\ promptedFor'[k] = c /\ reads'[k].line = "yes" /\ k \notin withdrawn'
        BY <1>2, <1>7, <3>1
      <3>3. k # myRead'[r] /\ Runs = {r}
        BY <1>2, <1>7, <3>1
      <3> QED
        BY <1>8, <3>2, <3>3 DEF Confirmed
    <2>2. CASE Mode[c.tool] # "ask"
      BY <1>8, <2>2 DEF Confirmed
    <2> QED
      BY <2>1, <2>2
  <1>9. Open' /\ Backed' /\ AllConfirmed'
    BY <1>2, <1>3, <1>8 DEF CommandInv, Open, Backed, AllConfirmed, Accepted, Approver!Prompt
  <1>10. Waiting'
    <2>1. Len(reads) + 1 \in DOMAIN reads' /\ promptedFor'[Len(reads) + 1] = callOf(r)
      BY <1>1, <1>2, <1>4, <1>6
    <2>2. Len(reads) + 1 \notin withdrawn
      BY <1>1 DEF CommandInv, Numbering
    <2> QED
      BY <1>2, <1>3, <2>1, <2>2 DEF Waiting
  <1>11. Numbering'
    BY <1>2, <1>4, <1>6, <1>7 DEF CommandInv, Numbering
  <1> QED
    BY <1>9, <1>10, <1>11 DEF CommandInv

(* The answer "yes" is taken: the read was for this call, and nobody waits *)
(* for it any more.                                                        *)
LEMMA ApprovalKeeps ==
    ASSUME Typing, CommandInv, NEW r \in Runs, AuthorizerAccepts(r), approving'[r] = "idle",
           approving[r] = "reading", reads[myRead[r]].line = "yes",
           UNCHANGED <<reads, promptedFor, carriedOut, myRead, withdrawn>>
    PROVE  CommandInv'
  <1> USE OneRun DEF Typing
  <1>1. UNCHANGED callOf(r)
    BY DEF AuthorizerAccepts, callOf, current
  <1>2. \A c : Confirmed(c) => Confirmed(c)'
    BY DEF Confirmed
  <1>3. Confirmed(callOf(r))'
    BY <1>1 DEF CommandInv, Open, Waiting, Confirmed
  <1> QED
    BY <1>2, <1>3 DEF CommandInv, Open, Waiting, Numbering, Backed, AllConfirmed

LEMMA AuthorizerKeeps ==
    ASSUME Typing, CommandInv, NEW r \in Runs, AuthorizerStep(r)
    PROVE  CommandInv'
  <1> USE OneRun DEF Typing
  <1>0. /\ pc[r] = "authorizing" /\ Deliver(r) /\ UNCHANGED carriedOut
        /\ promptedFor' = (IF reads' # reads THEN Append(promptedFor, callOf(r)) ELSE promptedFor)
    BY DEF AuthorizerStep
  <1>1. CASE Approver!Authorize(r, current(r).tool)
    <2>1. UNCHANGED promptedFor
      BY <1>0, <1>1 DEF Approver!Authorize
    <2> QED
      BY <1>0, <1>1, <2>1, AuthorizeKeeps
  <1>2. CASE Approver!AcquireGate(r)
    BY <1>0, <1>2, QueueKeeps DEF Approver!AcquireGate, Approver!Goto, Approver!TypeOK, Deliver
  <1>3. ASSUME NEW v \in {"denied", "cancelled", "stopped", "failed"}, Approver!Return(r, v),
               UNCHANGED <<reads, myRead>>,
               UNCHANGED withdrawn \/ (approving[r] = "reading" /\ withdrawn' = withdrawn \cup {myRead[r]})
        PROVE  CommandInv'
    <2>1. approving'[r] = "idle" /\ verdict'[r] # "granted"
      BY <1>3 DEF Approver!Return, Approver!TypeOK
    <2>2. CallFails(r)
      BY <1>0, <2>1 DEF Deliver
    <2> QED
      BY <1>0, <1>3, <2>1, <2>2, RefusalKeeps
  <1>4. CASE Approver!GiveUp(r)
    BY <1>3, <1>4 DEF Approver!GiveUp
  <1>5. CASE Approver!Enter(r)
    <2>1. CASE done[r] \/ stopped
      BY <1>3, <1>5, <2>1 DEF Approver!Enter, Approver!ReleaseAndReturn
    <2>2. CASE ~done[r] /\ ~stopped
      BY <1>0, <1>5, <2>2, QueueKeeps DEF Approver!Enter, Approver!Goto, Approver!TypeOK, Deliver
    <2> QED
      BY <2>1, <2>2
  <1>6. CASE Approver!PromptFails(r)
    BY <1>3, <1>6 DEF Approver!PromptFails, Approver!ReleaseAndReturn
  <1>7. CASE Approver!Prompt(r)
    BY <1>0, <1>7, PromptKeeps
  <1>8. CASE Approver!TakeAnswer(r)
    <2>1. CASE reads[myRead[r]].line = "yes"
      <3>1. /\ approving[r] = "reading" /\ approving'[r] = "idle" /\ verdict'[r] = "granted"
            /\ UNCHANGED <<reads, myRead, withdrawn>>
        BY <1>8, <2>1 DEF Approver!TakeAnswer, Approver!ReleaseAndReturn, Approver!Return,
                          Approver!TypeOK, Approver!myLine
      <3>2. AuthorizerAccepts(r)
        BY <1>0, <3>1 DEF Deliver
      <3> QED
        BY <1>0, <2>1, <3>1, <3>2, ApprovalKeeps
    <2>2. CASE reads[myRead[r]].line # "yes"
      BY <1>3, <1>8, <2>2 DEF Approver!TakeAnswer, Approver!ReleaseAndReturn, Approver!myLine
    <2> QED
      BY <2>1, <2>2
  <1>9. CASE Approver!TakeAnswerTooLate(r)
    BY <1>3, <1>9 DEF Approver!TakeAnswerTooLate, Approver!ReleaseAndReturn
  <1>10. CASE Approver!Abandon(r)
    BY <1>3, <1>10 DEF Approver!Abandon, Approver!ReleaseAndReturn
  <1> QED
    BY <1>1, <1>2, <1>4, <1>5, <1>6, <1>7, <1>8, <1>9, <1>10 DEF AuthorizerStep, Approver!OwnStep

(* A line is read: it goes to a read that had none, so no "yes" that an    *)
(* execution rests on is ever replaced.                                    *)
LEMMA TerminalKeeps ==
    ASSUME Typing, CommandInv, TerminalStep
    PROVE  CommandInv'
  <1> USE OneRun DEF Typing
  <1>1. /\ UNCHANGED <<pc, step, next, turn, promptedFor, carriedOut, approving, asked, myRead, withdrawn>>
        /\ \A r \in Runs : UNCHANGED callOf(r)
    BY DEF TerminalStep, vars, others, callOf, current, Approver!ReadLine, Approver!Type, Approver!Close
  <1>2. /\ reads' \in Seq(Approver!Read) /\ Len(reads') = Len(reads)
        /\ \A k \in DOMAIN reads : reads[k].line = "yes" => reads'[k].line = "yes"
    <2>1. CASE UNCHANGED reads
      BY <2>1 DEF CommandInv, Numbering
    <2>2. ASSUME NEW i \in DOMAIN reads, Approver!ReadLine(i)
          PROVE  /\ reads' \in Seq(Approver!Read) /\ Len(reads') = Len(reads)
                 /\ \A k \in DOMAIN reads : reads[k].line = "yes" => reads'[k].line = "yes"
      <3>1. PICK l \in {"yes", "no", "eof"} : reads' = [reads EXCEPT ![i].line = l]
        <4>1. input # <<>> => Head(input) \in {"yes", "no"}
          BY DEF Approver!TypeOK, Approver!Answers
        <4> QED
          BY <2>2, <4>1 DEF Approver!ReadLine
      <3>2. reads[i].line = "pending"
        BY <2>2 DEF Approver!ReadLine, Approver!isPending, Approver!Pending
      <3>3. reads \in Seq(Approver!Read) /\ reads[i] \in Approver!Read
        BY DEF CommandInv, Numbering
      <3>4. [reads[i] EXCEPT !.line = l] \in Approver!Read
        BY <3>3 DEF Approver!Read, Approver!Answers
      <3> QED
        BY <3>1, <3>2, <3>3, <3>4
    <2> QED
      BY <2>1, <2>2 DEF TerminalStep, Approver!Type, Approver!Close
  <1>3. DOMAIN reads' = DOMAIN reads
    BY <1>2 DEF CommandInv, Numbering
  <1>4. \A c : Confirmed(c) => Confirmed(c)'
    BY <1>1, <1>2, <1>3 DEF Confirmed
  <1> QED
    BY <1>1, <1>2, <1>3, <1>4 DEF CommandInv, Open, Waiting, Numbering, Backed, AllConfirmed

(***************************************************************************)
(* The approver's types, which the steps above rely on.                    *)
(***************************************************************************)
LEMMA ApproverReturns ==
    ASSUME Approver!TypeOK, NEW r \in Runs, NEW v \in Approver!Verdicts, Approver!Return(r, v)
    PROVE  /\ approving' \in [Runs -> Approver!Labels] /\ asked' \in [Runs -> ToolNames \cup {NoTool}]
           /\ requests' \in [Runs -> Nat] /\ verdict' \in [Runs -> Approver!Verdicts]
  BY DEF Approver!TypeOK, Approver!Return, Approver!Labels

LEMMA ApproverGoes ==
    ASSUME Approver!TypeOK, NEW r \in Runs, NEW label \in Approver!Labels, Approver!Goto(r, label)
    PROVE  /\ approving' \in [Runs -> Approver!Labels] /\ asked' \in [Runs -> ToolNames \cup {NoTool}]
           /\ requests' \in [Runs -> Nat] /\ verdict' \in [Runs -> Approver!Verdicts]
  BY DEF Approver!TypeOK, Approver!Goto

LEMMA ApproverTypeStep ==
    ASSUME Approver!TypeOK, [Approver!Next]_(Approver!vars)
    PROVE  Approver!TypeOK'
  <1> USE DEF Approver!TypeOK
  <1>1. CASE UNCHANGED Approver!vars
    BY <1>1 DEF Approver!vars
  <1>2. ASSUME NEW r \in Runs, Approver!CtxDone(r) PROVE Approver!TypeOK'
    BY <1>2 DEF Approver!CtxDone
  <1>3. ASSUME NEW r \in Runs, NEW t \in ToolNames, Approver!Authorize(r, t) PROVE Approver!TypeOK'
    <2>1. UNCHANGED <<done, gate, stopped, reads, myRead, input, lines, closed, granted, withdrawn>>
      BY <1>3 DEF Approver!Authorize
    <2>2. requests' \in [Runs -> Nat] /\ asked' \in [Runs -> ToolNames \cup {NoTool}]
      <3>1. requests[r] + 1 \in Nat
        OBVIOUS
      <3>2. requests' \in [Runs -> Nat]
        BY <1>3, <3>1 DEF Approver!Authorize
      <3>3. asked' \in [Runs -> ToolNames \cup {NoTool}]
        BY <1>3 DEF Approver!Authorize
      <3> QED
        BY <3>2, <3>3
    <2>3. approving' \in [Runs -> Approver!Labels]
      BY <1>3 DEF Approver!Authorize, Approver!Labels
    <2>4. verdict' \in [Runs -> Approver!Verdicts]
      BY <1>3 DEF Approver!Authorize, Approver!Verdicts
    <2> QED
      BY <2>1, <2>2, <2>3, <2>4
  <1>4. ASSUME NEW r \in Runs,
               Approver!GiveUp(r) \/ Approver!PromptFails(r) \/ Approver!TakeAnswerTooLate(r)
               \/ Approver!Abandon(r)
        PROVE  Approver!TypeOK'
    BY <1>4, ApproverReturns DEF Approver!GiveUp, Approver!PromptFails, Approver!TakeAnswerTooLate,
         Approver!Abandon, Approver!ReleaseAndReturn, Approver!Verdicts
  <1>5. ASSUME NEW r \in Runs, Approver!AcquireGate(r) \/ Approver!Enter(r) PROVE Approver!TypeOK'
    BY <1>5, ApproverReturns, ApproverGoes DEF Approver!AcquireGate, Approver!Enter,
         Approver!ReleaseAndReturn, Approver!Verdicts, Approver!Labels
  <1>6. ASSUME NEW r \in Runs, Approver!Prompt(r) PROVE Approver!TypeOK'
    <2>1. [by |-> r, line |-> "pending"] \in Approver!Read
      BY DEF Approver!Read, Approver!Pending
    <2> QED
      BY <1>6, <2>1, ApproverGoes DEF Approver!Prompt, Approver!Labels, Approver!Pending
  <1>7. ASSUME NEW r \in Runs, Approver!TakeAnswer(r) PROVE Approver!TypeOK'
    <2>1. PICK v \in Approver!Verdicts : Approver!ReleaseAndReturn(r, v)
      BY <1>7 DEF Approver!TakeAnswer, Approver!Verdicts
    <2>2. granted' \in Seq(Runs \X Nat)
      BY <1>7 DEF Approver!TakeAnswer
    <2>3. Approver!Return(r, v) /\ gate' = Nobody
      BY <2>1 DEF Approver!ReleaseAndReturn
    <2> QED
      BY <1>7, <2>2, <2>3, ApproverReturns DEF Approver!TakeAnswer
  <1>8. ASSUME NEW i \in DOMAIN reads, Approver!ReadLine(i) PROVE Approver!TypeOK'
    <2>1. input # <<>> => Head(input) \in {"yes", "no"} /\ Tail(input) \in Seq(Approver!Answers)
      BY DEF Approver!Answers
    <2>2. PICK l \in {"yes", "no", "eof"} : reads' = [reads EXCEPT ![i].line = l]
      BY <1>8, <2>1 DEF Approver!ReadLine
    <2>3. reads \in Seq(Approver!Read) /\ reads[i] \in Approver!Read
      OBVIOUS
    <2>4. [reads[i] EXCEPT !.line = l] \in Approver!Read
      BY <2>3 DEF Approver!Read, Approver!Answers
    <2>5. reads' \in Seq(Approver!Read)
      BY <2>2, <2>3, <2>4
    <2>6. input' \in Seq(Approver!Answers)
      BY <1>8, <2>1 DEF Approver!ReadLine
    <2> QED
      BY <1>8, <2>5, <2>6 DEF Approver!ReadLine
  <1>9. ASSUME (\E a \in Approver!Answers : Approver!Type(a)) \/ Approver!Close PROVE Approver!TypeOK'
    <2>1. ASSUME NEW a \in Approver!Answers, Approver!Type(a) PROVE Approver!TypeOK'
      <3>1. input' \in Seq(Approver!Answers) /\ lines' \in Nat
        BY <2>1 DEF Approver!Type
      <3> QED
        BY <2>1, <3>1 DEF Approver!Type
    <2>2. CASE Approver!Close
      BY <2>2 DEF Approver!Close
    <2> QED
      BY <1>9, <2>1, <2>2
  <1>10. CASE Approver!Quiet
    BY <1>1, <1>10 DEF Approver!Quiet
  <1> QED
    BY <1>1, <1>2, <1>3, <1>4, <1>5, <1>6, <1>7, <1>8, <1>9, <1>10 DEF Approver!Next, Approver!OwnStep

(***************************************************************************)
(* The theorems about what the command executes.                           *)
(***************************************************************************)
LEMMA InitialInv == CommandInit => Approver!TypeOK /\ CommandInv
  <1> SUFFICES ASSUME CommandInit PROVE Approver!TypeOK /\ CommandInv
    OBVIOUS
  <1>1. Approver!TypeOK
    <2>1. /\ approving \in [Runs -> Approver!Labels] /\ verdict \in [Runs -> Approver!Verdicts]
          /\ done \in [Runs -> BOOLEAN] /\ asked \in [Runs -> ToolNames \cup {NoTool}]
          /\ requests \in [Runs -> Nat] /\ myRead \in [Runs -> Nat]
      BY DEF CommandInit, Approver!Init, Approver!Labels, Approver!Verdicts
    <2>2. /\ gate \in Runs \cup {Nobody} /\ stopped \in BOOLEAN /\ lines \in Nat /\ closed \in BOOLEAN
          /\ withdrawn \subseteq Nat /\ reads = <<>> /\ input = <<>> /\ granted = <<>>
      BY DEF CommandInit, Approver!Init
    <2> QED
      BY <2>1, <2>2 DEF Approver!TypeOK
  <1>2. Numbering
    BY DEF CommandInit, Approver!Init, Numbering
  <1>3. Open /\ Waiting /\ Backed /\ AllConfirmed
    BY DEF CommandInit, Approver!Init, Init, Open, Waiting, Backed, AllConfirmed, Accepted
  <1> QED
    BY <1>1, <1>2, <1>3 DEF CommandInv

LEMMA InvariantStep == Typing /\ CommandInv /\ [CommandNext]_commandVars => CommandInv'
  <1> SUFFICES ASSUME Typing, CommandInv, [CommandNext]_commandVars PROVE CommandInv'
    OBVIOUS
  <1>1. PICK r \in Runs : Runs = {r}
    BY CommandAssumption
  <1>2. CASE UNCHANGED commandVars
    <2>1. Gone \/ UNCHANGED <<pc, step, next, turn, approver, traces>>
      BY <1>2 DEF commandVars, vars, others
    <2>2. UNCHANGED callOf(r)
      BY <1>2 DEF commandVars, vars, others, callOf, current
    <2> QED
      BY <1>1, <1>2, <2>2, QuietKeeps, StillConfirmed DEF CommandInv, commandVars, vars
  <1>3. CASE CommandNext
    BY <1>1, <1>3, QuietSteps, AuthorizerKeeps, TerminalKeeps DEF CommandNext
  <1> QED
    BY <1>2, <1>3

LEMMA CommandInvariance == CommandSpec => [](Typing /\ CommandInv)
  <1>1. TypeOK /\ Placed /\ Approver!TypeOK /\ [CommandNext]_commandVars => Approver!TypeOK'
    BY ApproverMaps, ApproverTypeStep
  <1> QED
    BY <1>1, InitialInv, InvariantStep, RuntimeInvariant, PTL DEF CommandSpec, Typing

(* Every execution of a tool whose rule is "ask" was confirmed at a prompt *)
(* for that very call, and nothing denied is executed, for every set of    *)
(* rules and of turns and however lines, cancellation and plugin servers   *)
(* interleave.                                                             *)
THEOREM Confirms == CommandSpec => []EffectsConfirmed
  <1>1. CommandInv => EffectsConfirmed
    BY DEF CommandInv, AllConfirmed, Confirmed, EffectsConfirmed
  <1> QED
    BY <1>1, CommandInvariance, PTL

(***************************************************************************)
(* The types of what the command adds to its parts.                        *)
(***************************************************************************)
Staged ==
    /\ stage \in StartupStages \cup {"running"} \cup Exited
    /\ carriedOut \subseteq [at : Occurrence, tool : ToolNames]

LEMMA StagedStep == TypeOK /\ Placed /\ Staged /\ [CommandNext]_commandVars => Staged'
  <1> SUFFICES ASSUME TypeOK, Placed, Staged, [CommandNext]_commandVars PROVE Staged'
    OBVIOUS
  <1>1. ASSUME UNCHANGED <<stage, carriedOut>> PROVE Staged'
    BY <1>1 DEF Staged
  <1>2. CASE Startup
    BY <1>2 DEF Startup, Proceed, RegisterTool, StartupFails, Staged, StartupStages, Following, Exited
  <1>3. ASSUME NEW r \in Runs, RuntimeStep(r) PROVE Staged'
    <2>1. pc[r] = "callTool" => callOf(r) \in [at : Occurrence, tool : ToolNames]
      BY CallTyped DEF InCall
    <2> QED
      BY <1>3, <2>1 DEF RuntimeStep, Staged
  <1>4. ASSUME NEW r \in Runs, Finish(r) PROVE Staged'
    BY <1>4 DEF Finish, Staged, Exited
  <1>5. ASSUME NEW r \in Runs, Interrupt(r) \/ CallRun(r) \/ DependencyStep(r) \/ AuthorizerStep(r) PROVE Staged'
    BY <1>1, <1>5 DEF Interrupt, CallRun, DependencyStep, AuthorizerStep
  <1>6. CASE TerminalStep \/ Gone \/ UNCHANGED commandVars
    BY <1>1, <1>6 DEF TerminalStep, Gone, commandVars
  <1> QED
    BY <1>2, <1>3, <1>4, <1>5, <1>6 DEF CommandNext

(* Every reachable state of the command is well typed, and a request is    *)
(* open only while the run waits for it and only about its present call.   *)
THEOREM CommandTyped == CommandSpec => []CommandTypeOK
  <1>1. CommandInit => Staged
    BY DEF CommandInit, Staged, StartupStages, Following
  <1>2. Typing /\ CommandInv /\ Staged => CommandTypeOK
    BY DEF Typing, CommandInv, Open, Numbering, Staged, CommandTypeOK, callOf
  <1> QED
    BY <1>1, <1>2, StagedStep, RuntimeInvariant, CommandInvariance, PTL DEF CommandSpec

(***************************************************************************)
(* Startup leaves nothing out that a run could miss later.                 *)
(***************************************************************************)
Equipped ==
    /\ stage = "running" => projectTools \subseteq registered
    /\ \A r \in Runs : pc[r] # "idle" => projectTools \subseteq registered

LEMMA EquippedStep == Equipped /\ [CommandNext]_commandVars => Equipped'
  <1> SUFFICES ASSUME Equipped, [CommandNext]_commandVars PROVE Equipped'
    OBVIOUS
  <1>1. CASE Startup
    BY <1>1 DEF Startup, Proceed, RegisterTool, StartupFails, Register, Equipped, Following,
                StartupStages, vars, others
  <1>2. registered \subseteq registered'
    BY RuntimeMaps DEF Next, vars, others, Register, Begin, BeginRefused, CtxDone, OwnStep, Refuse,
       ResolveTools, EnterLoop, CallModel, TakeAnswer, TakeBatch, FinishBatch, StartCall, PassCheck,
       CallTool, DependencyReturns, CallFails, Published, ModelReturnsLate, ModelReturns,
       AuthorizerAccepts, ToolReturns, ToolCompletedPublished, RunCompletedPublished, AllReturned
  <1>3. ASSUME UNCHANGED stage, \A r \in Runs : pc[r] = "idle" /\ pc'[r] # "idle" => stage = "running"
        PROVE  Equipped'
    BY <1>2, <1>3 DEF Equipped
  <1>4. ASSUME NEW r \in Runs, Interrupt(r) PROVE Equipped'
    BY <1>3, <1>4 DEF Interrupt, CtxDone
  <1>5. ASSUME NEW r \in Runs, CallRun(r) PROVE Equipped'
    BY <1>3, <1>5 DEF CallRun
  <1>6. ASSUME NEW r \in Runs, RuntimeStep(r) \/ DependencyStep(r) \/ AuthorizerStep(r) PROVE Equipped'
    <2>1. pc[r] # "idle" /\ UNCHANGED stage
      BY <1>6 DEF RuntimeStep, DependencyStep, AuthorizerStep, OwnStep, Refuse, Errs,
       ResolveTools, EnterLoop, CallModel, TakeAnswer, TakeBatch, FinishBatch, StartCall, PassCheck,
       CallTool, DependencyReturns, CallFails, Published, ModelReturnsLate, ModelReturns, After, Awaiting,
       Publishing, AuthorizerAccepts, ToolReturns, ToolCompletedPublished, RunCompletedPublished
    <2> QED
      BY <1>3, <2>1, OneRun
  <1>7. ASSUME NEW r \in Runs, Finish(r) PROVE Equipped'
    BY <1>2, <1>7 DEF Finish, Equipped, Exited, vars
  <1>8. CASE TerminalStep \/ Gone \/ UNCHANGED commandVars
    BY <1>3, <1>8 DEF TerminalStep, Gone, commandVars, vars
  <1> QED
    BY <1>1, <1>4, <1>5, <1>6, <1>7, <1>8 DEF CommandNext

(* A run that finds everything registered fails to resolve only what no    *)
(* plugin provides.                                                        *)
LEMMA ResolveError ==
    ASSUME TypeOK, Placed, Inv, Equipped, NEW r \in Runs, Errs(r, "resolve")
    PROVE  ~(required(r) \subseteq DOMAIN Providers)
  <1>1. CASE pc[r] = "resolving"
    <2>1. ~resolvable(r) /\ projectTools \subseteq registered
      BY <1>1 DEF Errs, Equipped
    <2>2. required(r) \subseteq DOMAIN Providers => provided(r) \subseteq projectTools
      BY DEF provided, projectTools
    <2> QED
      BY <2>1, <2>2 DEF resolvable
  <1>2. CASE pc[r] = "granted"
    <2>1. next[r] \in DOMAIN turn[r].calls
      BY <1>2, CallsTyped DEF Placed, InCall
    <2>2. current(r).tool \in registered
      BY <1>2, <2>1 DEF Inv, Facts, Scoped, Permitted, withinScope, current
    <2> QED
      BY <1>2, <2>2 DEF Errs
  <1> QED
    BY <1>1, <1>2 DEF Errs

LEMMA CompleteStep ==
    TypeOK /\ Placed /\ Inv /\ Equipped /\ StartedIsComplete /\ [CommandNext]_commandVars
        => StartedIsComplete'
  <1> SUFFICES ASSUME TypeOK, Placed, Inv, Equipped, StartedIsComplete, [Next]_vars
               PROVE  StartedIsComplete'
    BY RuntimeMaps
  <1>1. ASSUME UNCHANGED <<outcome, skill>> PROVE StartedIsComplete'
    BY <1>1 DEF StartedIsComplete, required
  <1>2. ASSUME NEW r \in Runs, NEW s \in Skills, Begin(r, s) PROVE StartedIsComplete'
    <2>1. outcome'[r] # "resolve" /\ Runs = {r}
      BY <1>2, OneRun DEF Begin, Goto, Inv, Facts, Returned
    <2> QED
      BY <2>1 DEF StartedIsComplete
  <1>3. ASSUME NEW r \in Runs, NEW why, Return(r, why), UNCHANGED skill,
               why = "resolve" => Errs(r, "resolve")
        PROVE  StartedIsComplete'
    <2>1. outcome'[r] = "resolve" => ~(required(r) \subseteq DOMAIN Providers)
      BY <1>3, ResolveError DEF Return, TypeOK
    <2> QED
      BY <1>3, <2>1, OneRun DEF StartedIsComplete, required
  <1>4. ASSUME NEW r \in Runs, BeginRefused(r) PROVE StartedIsComplete'
    BY <1>3, <1>4 DEF BeginRefused, others
  <1>5. ASSUME NEW r \in Runs, Refuse(r) PROVE StartedIsComplete'
    BY <1>3, <1>5 DEF Refuse, others
  <1>6. ASSUME NEW r \in Runs, CallFails(r) PROVE StartedIsComplete'
    BY <1>3, <1>6 DEF CallFails, Failure, others
  <1>7. ASSUME NEW r \in Runs, ModelReturnsLate(r) \/ RunCompletedPublished(r) PROVE StartedIsComplete'
    BY <1>3, <1>7 DEF ModelReturnsLate, RunCompletedPublished, others
  <1>8. ASSUME NEW r \in Runs,
               \/ ResolveTools(r) \/ EnterLoop(r) \/ CallModel(r) \/ TakeAnswer(r) \/ TakeBatch(r)
               \/ FinishBatch(r) \/ StartCall(r) \/ PassCheck(r) \/ CallTool(r) \/ Published(r)
               \/ (\E t \in Turns : ModelReturns(r, t)) \/ AuthorizerAccepts(r) \/ ToolReturns(r)
               \/ ToolCompletedPublished(r)
        PROVE  StartedIsComplete'
    BY <1>1, <1>8 DEF ResolveTools, EnterLoop, CallModel, TakeAnswer, TakeBatch, FinishBatch, StartCall,
       PassCheck, CallTool, Published, ModelReturns, AuthorizerAccepts, ToolReturns,
       ToolCompletedPublished, Goto, others
  <1>9. ASSUME (\E t \in ToolNames : Register(t)) \/ (\E r \in Runs : CtxDone(r)) \/ AllReturned \/ UNCHANGED vars
        PROVE  StartedIsComplete'
    BY <1>1, <1>9 DEF Register, CtxDone, AllReturned, vars, others
  <1> QED
    BY <1>2, <1>4, <1>5, <1>6, <1>7, <1>8, <1>9 DEF Next, OwnStep, DependencyReturns

(* An agent that starts has every tool its project names, so a run of it   *)
(* fails to resolve its tools only for a capability no plugin provides.    *)
THEOREM NothingMissing == CommandSpec => []StartedIsComplete
  <1>1. CommandInit => Equipped /\ StartedIsComplete
    BY DEF CommandInit, Init, Equipped, StartedIsComplete
  <1> QED
    BY <1>1, EquippedStep, CompleteStep, RuntimeInvariant, PTL DEF CommandSpec
=============================================================================
