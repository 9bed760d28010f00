----------------------------- MODULE ProjectRun -----------------------------
(***************************************************************************)
(* The command "hot-take run" (cmd/hot-take/main.go): a process that sets  *)
(* its deadline, loads a project, connects its plugins, and makes one run  *)
(* of a Runtime whose authorizer is the permission policy in front of the  *)
(* terminal.  AgentRuntime and TerminalApprover are composed: the run's    *)
(* wait at "authorizing" is a request of the policy, and the verdict of    *)
(* that request is what the run goes on with.                              *)
(*                                                                         *)
(* What loading and connecting do is ProjectLoader's and ProjectTools's;   *)
(* here they end in a failure or in the registered tools.                  *)
(***************************************************************************)
EXTENDS AgentRuntime

CONSTANTS
    Mode,         \* tool -> the mode of its rule, or "deny", the default
    Nobody,       \* the gate's holder when it is free
    NoTool,       \* what is asked about outside Authorize
    MaxRequests,  \* bound: requests; a run makes at most MaxToolCalls
    MaxLines      \* bound: lines typed

ASSUME CommandAssumption ==
    /\ \E r \in Runs : Runs = {r}
    /\ Nobody \notin Runs /\ NoTool \notin ToolNames
    /\ Mode \in [ToolNames -> {"allow", "deny", "ask"}]
    /\ MaxLines \in Nat
    /\ MaxRequests \in Nat /\ MaxRequests >= MaxToolCalls

VARIABLES
    stage,                                        \* how far runProject is
    approving, asked, requests, verdict, gate,    \* the approver's state:
    stopped, reads, myRead, input, lines, closed, \* see TerminalApprover
    granted, withdrawn,
    promptedFor,  \* history: the call each prompt was shown for
    carriedOut    \* history: the calls executed, with their tools

Approver == INSTANCE TerminalApprover WITH Callers <- Runs, Tools <- ToolNames, pc <- approving

approver == <<approving, asked, requests, verdict, gate, stopped, reads, myRead,
              input, lines, closed, granted, withdrawn>>
traces == <<promptedFor, carriedOut>>
commandVars == <<vars, stage, approver, traces>>

Exited == {"succeeded", "failed"}
Following == [options |-> "loading", loading |-> "connecting", connecting |-> "running"]
StartupStages == DOMAIN Following
callOf(r) == [at |-> <<step[r], next[r]>>, tool |-> current(r).tool]
projectTools == UNION {Providers[c] : c \in DOMAIN Providers}

---------------------------------------------------------------------------
CommandInit ==
    /\ Init
    /\ registered = {}
    /\ Approver!Init
    /\ stage = "options"
    /\ promptedFor = <<>>
    /\ carriedOut = {}

(* Options, project and model are there, or all the tools are: what comes  *)
(* next.  Mutant: startup goes on without waiting for every tool.          *)
ProceedWithSome ==
    /\ stage \in StartupStages
    /\ stage' = Following[stage]
    /\ UNCHANGED <<vars, approver, traces>>

Proceed ==
    /\ stage \in StartupStages
    /\ stage = "connecting" => projectTools \subseteq registered
    /\ stage' = Following[stage]
    /\ UNCHANGED <<vars, approver, traces>>

RegisterTool ==
    /\ stage = "connecting"
    /\ \E t \in projectTools : Register(t)
    /\ UNCHANGED <<stage, approver, traces>>

StartupFails ==
    /\ stage \in StartupStages
    /\ stage' = "failed"
    /\ UNCHANGED <<vars, approver, traces>>

Startup == Proceed \/ RegisterTool \/ StartupFails

(* The deadline set before the project is loaded passes, or the user       *)
(* interrupts the process.  Mutant: the deadline is the run's own.         *)
InterruptRun(r) ==
    /\ pc[r] # "idle"
    /\ CtxDone(r)
    /\ UNCHANGED <<stage, approver, traces>>

Interrupt(r) ==
    /\ stage \notin Exited
    /\ CtxDone(r)
    /\ UNCHANGED <<stage, approver, traces>>

(* Run is called; the message is not blank.                                *)
CallRun(r) ==
    /\ stage = "running"
    /\ \/ \E s \in Skills : Begin(r, s)
       \/ done[r] /\ BeginRefused(r)
    /\ UNCHANGED <<stage, approver, traces>>

RuntimeStep(r) ==
    /\ OwnStep(r)
    /\ carriedOut' = IF pc[r] = "callTool" THEN carriedOut \cup {callOf(r)} ELSE carriedOut
    /\ UNCHANGED <<stage, approver, promptedFor>>

(* Model, sink and tools answer; the authorizer has steps of its own.      *)
(* Mutant: the run does not wait for the authorizer.                       *)
anywhere(r) == TRUE
elsewhere(r) == pc[r] # "authorizing"

DependencyStep(r) ==
    /\ elsewhere(r)
    /\ DependencyReturns(r)
    /\ UNCHANGED <<stage, approver, traces>>

(* Authorize is called and works towards its verdict; the step that        *)
(* reaches one returns it to the run.  Mutant: only an error refuses.      *)
DeliverUnlessError(r) ==
    IF approving'[r] # "idle" THEN UNCHANGED vars
    ELSE IF verdict'[r] \in {"granted", "denied"} THEN AuthorizerAccepts(r) ELSE CallFails(r)

Deliver(r) ==
    IF approving'[r] # "idle" THEN UNCHANGED vars
    ELSE IF verdict'[r] = "granted" THEN AuthorizerAccepts(r) ELSE CallFails(r)

AuthorizerStep(r) ==
    /\ pc[r] = "authorizing"
    /\ Approver!Authorize(r, current(r).tool) \/ Approver!OwnStep(r)
    /\ Deliver(r)
    /\ promptedFor' = IF reads' # reads THEN Append(promptedFor, callOf(r)) ELSE promptedFor
    /\ UNCHANGED <<stage, carriedOut>>

(* The reader goroutine, and the person at the terminal.                   *)
TerminalStep ==
    /\ stage \notin Exited
    /\ \/ \E i \in DOMAIN reads : Approver!ReadLine(i)
       \/ \E a \in Approver!Answers : Approver!Type(a)
       \/ Approver!Close
    /\ UNCHANGED <<vars, stage, traces>>

(* The answer is printed, unless the terminal refuses it; or the error of  *)
(* the run is.  The process exits, and takes a waiting reader with it.     *)
Finish(r) ==
    /\ stage = "running"
    /\ pc[r] = "ended"
    /\ stage' \in (IF outcome[r] = "answered" THEN Exited ELSE {"failed"})
    /\ UNCHANGED <<vars, approver, traces>>

Gone == stage \in Exited /\ UNCHANGED commandVars

CommandNext ==
    \/ Startup
    \/ \E r \in Runs :
        \/ Interrupt(r) \/ CallRun(r) \/ RuntimeStep(r) \/ DependencyStep(r)
        \/ AuthorizerStep(r) \/ Finish(r)
    \/ TerminalStep
    \/ Gone

(* The process is scheduled; the deadline passes once it is set; plugin    *)
(* servers, model, sink and tools return once the context is done.  Nobody *)
(* has to answer a prompt, and the authorizer owes nothing but its steps.  *)
CommandFairness ==
    \A r \in Runs :
        /\ WF_commandVars(stage # "connecting" /\ Startup)
        /\ WF_commandVars(done[r] /\ Startup)
        /\ WF_commandVars(stage # "options" /\ Interrupt(r))
        /\ WF_commandVars(CallRun(r) \/ RuntimeStep(r) \/ AuthorizerStep(r) \/ Finish(r))
        /\ WF_commandVars(done[r] /\ DependencyStep(r))

CommandSpec == CommandInit /\ [][CommandNext]_commandVars
FairCommandSpec == CommandSpec /\ CommandFairness

---------------------------------------------------------------------------
(* The type invariant: that of both components, and a request is open only *)
(* while the run waits for it.                                             *)
CommandTypeOK ==
    /\ TypeOK
    /\ Approver!TypeOK
    /\ stage \in StartupStages \cup {"running"} \cup Exited
    /\ promptedFor \in Seq([at : Occurrence, tool : ToolNames])
    /\ carriedOut \subseteq [at : Occurrence, tool : ToolNames]
    /\ \A r \in Runs : approving[r] # "idle" => pc[r] = "authorizing" /\ asked[r] = current(r).tool

(* The user is asked about what is done: every execution of a tool whose   *)
(* rule is "ask" rests on a line "yes" read at a prompt for that very call *)
(* of the model, by a request that was not cancelled there, and nothing    *)
(* denied is ever executed (runtime.go:206-216, permission.go:98,          *)
(* approval.go:45-69).                                                     *)
EffectsConfirmed ==
    \A c \in carriedOut :
        /\ Mode[c.tool] # "deny"
        /\ Mode[c.tool] = "ask" =>
            \E k \in DOMAIN reads :
                promptedFor[k] = c /\ reads[k].line = "yes" /\ k \notin withdrawn

(* A started agent has every tool its project names: a run of it never     *)
(* fails to resolve a tool, unless a skill requires a capability that no   *)
(* plugin provides (main.go:170-177, runtime.go:146).                      *)
StartedIsComplete ==
    \A r \in Runs : outcome[r] = "resolve" => ~(required(r) \subseteq DOMAIN Providers)

(* In the command the runtime meets all it was assumed to meet, fairness   *)
(* included: the authorizer returns once the context is done although the  *)
(* read of the terminal cannot be interrupted.                             *)
RuntimeSpec == FairSpec

(* The run uses the approver as the approver was modelled: one request at  *)
(* a time, never left before its verdict.                                  *)
ApproverSpec == Approver!FairSpec

(* The process exits: its deadline covers discovery and approvals          *)
(* (main.go:131), whatever servers, model, tools and user leave unanswered. *)
CommandEnds == <>(stage \in Exited)
=============================================================================
