-------------------------- MODULE TerminalApprover --------------------------
(***************************************************************************)
(* permission.Policy in front of the CLI's terminalApprover                *)
(* (permission/permission.go, cmd/hot-take/approval.go).  Several runs ask *)
(* the policy about their tool calls; the calls whose rule is "ask" queue  *)
(* for the one terminal.  The terminal is a channel of capacity one (the   *)
(* gate), a prompt, and a goroutine that reads one line: the read cannot   *)
(* be interrupted, so it outlives a request that is cancelled meanwhile.   *)
(*                                                                         *)
(* A line is abstracted to what Approve makes of it: "yes" (y or yes,      *)
(* whatever the case, ended by a newline or by the end of the input), "no" *)
(* (any other text) or "eof" (a read that fails with no text).             *)
(***************************************************************************)
EXTENDS Naturals, Sequences

CONSTANTS
    Callers,      \* runs, each with a context of its own
    Tools,        \* the tools they ask about
    Mode,         \* tool -> the mode of its rule, or the policy's default
    Nobody,       \* the gate's holder when it is free
    NoTool,       \* what an idle caller asks about
    MaxRequests,  \* bound: requests of one caller
    MaxLines      \* bound: lines typed

ASSUME ApproverAssumption ==
    /\ Nobody \notin Callers
    /\ NoTool \notin Tools
    /\ Mode \in [Tools -> {"allow", "deny", "ask"}]
    /\ MaxRequests \in Nat
    /\ MaxLines \in Nat

VARIABLES
    done,       \* done[c]: the context of c is cancelled or expired
    pc,         \* where caller c is inside Authorize
    asked,      \* the tool c asks about
    requests,   \* how many requests c has made
    verdict,    \* what c's last request returned
    gate,       \* who holds the gate
    stopped,    \* terminalApprover.stopped is set
    reads,      \* the reader goroutines, in the order of their prompts
    myRead,     \* the reader c waits for
    input,      \* the lines typed and not yet read
    lines,      \* how many lines have been typed
    closed,     \* the input has ended
    granted,    \* history: the approvals in order, each with the read it rests on
    withdrawn   \* history: the reads whose request ended by its context

caller   == <<pc, asked, requests, verdict>>
terminal == <<input, lines, closed>>
outcomes == <<granted, withdrawn>>
vars == <<done, caller, gate, stopped, reads, myRead, terminal, outcomes>>

Answers == {"yes", "no"}
Pending == "pending"    \* the reader goroutine is still inside ReadString
Read == [by : Callers, line : Answers \cup {Pending, "eof"}]

Labels == {"idle", "gate", "holding", "writing", "reading"}
Verdicts == {"none", "granted", "denied", "cancelled", "stopped", "failed"}

isPending(i) == reads[i].line = Pending
myLine(c) == reads[myRead[c]].line

Init ==
    /\ done = [c \in Callers |-> FALSE]
    /\ pc = [c \in Callers |-> "idle"]
    /\ asked = [c \in Callers |-> NoTool]
    /\ requests = [c \in Callers |-> 0]
    /\ verdict = [c \in Callers |-> "none"]
    /\ gate = Nobody
    /\ stopped = FALSE
    /\ reads = <<>>
    /\ myRead = [c \in Callers |-> 0]
    /\ input = <<>>
    /\ lines = 0
    /\ closed = FALSE
    /\ granted = <<>>
    /\ withdrawn = {}

Goto(c, label) ==
    /\ pc' = [pc EXCEPT ![c] = label]
    /\ UNCHANGED <<asked, requests, verdict>>

Return(c, v) ==
    /\ pc' = [pc EXCEPT ![c] = "idle"]
    /\ asked' = [asked EXCEPT ![c] = NoTool]
    /\ verdict' = [verdict EXCEPT ![c] = v]
    /\ UNCHANGED requests

(* Return after the deferred release of the gate.                          *)
ReleaseAndReturn(c, v) == gate' = Nobody /\ Return(c, v)

CtxDone(c) ==
    /\ ~done[c]
    /\ done' = [done EXCEPT ![c] = TRUE]
    /\ UNCHANGED <<caller, gate, stopped, reads, myRead, terminal, outcomes>>

(* Policy.Authorize: the rule decides, or the request goes to the          *)
(* approver.  Neither an allow nor a deny rule looks at the context.       *)
Authorize(c, t) ==
    /\ pc[c] = "idle"
    /\ requests[c] < MaxRequests
    /\ requests' = [requests EXCEPT ![c] = @ + 1]
    /\ IF Mode[t] = "ask"
       THEN /\ pc' = [pc EXCEPT ![c] = "gate"]
            /\ asked' = [asked EXCEPT ![c] = t]
            /\ UNCHANGED verdict
       ELSE /\ verdict' = [verdict EXCEPT ![c] = IF Mode[t] = "allow" THEN "granted" ELSE "denied"]
            /\ UNCHANGED <<pc, asked>>
    /\ UNCHANGED <<done, gate, stopped, reads, myRead, terminal, outcomes>>

(* The first select.  When both the gate and the context are ready, Go     *)
(* picks either.                                                           *)
AcquireGate(c) ==
    /\ pc[c] = "gate"
    /\ gate = Nobody
    /\ gate' = c
    /\ Goto(c, "holding")
    /\ UNCHANGED <<done, stopped, reads, myRead, terminal, outcomes>>

(* Mutant: the wait for the gate does not watch the context.               *)
NeverGiveUp(c) ==
    /\ pc[c] = "gate"
    /\ done[c]
    /\ gate = Nobody
    /\ Return(c, "cancelled")
    /\ UNCHANGED <<done, gate, stopped, reads, myRead, terminal, outcomes>>

GiveUp(c) ==
    /\ pc[c] = "gate"
    /\ done[c]
    /\ Return(c, "cancelled")
    /\ UNCHANGED <<done, gate, stopped, reads, myRead, terminal, outcomes>>

(* Mutant: a retired approver is not noticed.                              *)
EnterUnchecked(c) ==
    /\ pc[c] = "holding"
    /\ IF done[c] THEN ReleaseAndReturn(c, "cancelled") ELSE Goto(c, "writing") /\ UNCHANGED gate
    /\ UNCHANGED <<done, stopped, reads, myRead, terminal, outcomes>>

(* With the gate: the context, then whether the approver is retired.       *)
Enter(c) ==
    /\ pc[c] = "holding"
    /\ IF done[c] THEN ReleaseAndReturn(c, "cancelled")
       ELSE IF stopped THEN ReleaseAndReturn(c, "stopped")
       ELSE Goto(c, "writing") /\ UNCHANGED gate
    /\ UNCHANGED <<done, stopped, reads, myRead, terminal, outcomes>>

PromptFails(c) ==
    /\ pc[c] = "writing"
    /\ ReleaseAndReturn(c, "failed")
    /\ UNCHANGED <<done, stopped, reads, myRead, terminal, outcomes>>

(* Mutant: an answer left from an earlier prompt is taken.                 *)
PromptReusing(c) ==
    /\ pc[c] = "writing"
    /\ IF reads # <<>> /\ reads[Len(reads)].line # Pending
       THEN myRead' = [myRead EXCEPT ![c] = Len(reads)] /\ UNCHANGED reads
       ELSE /\ reads' = Append(reads, [by |-> c, line |-> Pending])
            /\ myRead' = [myRead EXCEPT ![c] = Len(reads) + 1]
    /\ Goto(c, "reading")
    /\ UNCHANGED <<done, gate, stopped, terminal, outcomes>>

(* The prompt is on display and its reader goroutine starts.               *)
Prompt(c) ==
    /\ pc[c] = "writing"
    /\ reads' = Append(reads, [by |-> c, line |-> Pending])
    /\ myRead' = [myRead EXCEPT ![c] = Len(reads) + 1]
    /\ Goto(c, "reading")
    /\ UNCHANGED <<done, gate, stopped, terminal, outcomes>>

(* Mutant: it gets everything typed so far.                                *)
ReadAll(i) ==
    /\ isPending(i)
    /\ input # <<>>
    /\ reads' = [reads EXCEPT ![i].line = input]
    /\ input' = <<>>
    /\ UNCHANGED <<done, caller, gate, stopped, myRead, lines, closed, outcomes>>

(* A reader goroutine gets the next line and leaves it in its channel,     *)
(* whether or not anybody still waits for it.                              *)
ReadLine(i) ==
    /\ isPending(i)
    /\ IF input # <<>>
       THEN /\ reads' = [reads EXCEPT ![i].line = Head(input)]
            /\ input' = Tail(input)
       ELSE /\ closed
            /\ reads' = [reads EXCEPT ![i].line = "eof"]
            /\ UNCHANGED input
    /\ UNCHANGED <<done, caller, gate, stopped, myRead, lines, closed, outcomes>>

(* The second select takes the answer.  A context that is done by then     *)
(* wins over the answer.                                                   *)
TakeAnswer(c) ==
    /\ pc[c] = "reading"
    /\ myLine(c) # Pending
    /\ ~done[c]
    /\ ReleaseAndReturn(c, CASE myLine(c) = "yes" -> "granted"
                             [] myLine(c) = "no" -> "denied"
                             [] OTHER -> "failed")
    /\ granted' = IF myLine(c) = "yes" THEN Append(granted, <<c, myRead[c]>>) ELSE granted
    /\ UNCHANGED <<done, stopped, reads, myRead, terminal, withdrawn>>

TakeAnswerTooLate(c) ==
    /\ pc[c] = "reading"
    /\ myLine(c) # Pending
    /\ done[c]
    /\ ReleaseAndReturn(c, "cancelled")
    /\ withdrawn' = withdrawn \cup {myRead[c]}
    /\ UNCHANGED <<done, stopped, reads, myRead, terminal, granted>>

(* Mutant: the approver stays in use.                                      *)
AbandonOnly(c) ==
    /\ pc[c] = "reading"
    /\ done[c]
    /\ ReleaseAndReturn(c, "cancelled")
    /\ withdrawn' = withdrawn \cup {myRead[c]}
    /\ UNCHANGED <<done, stopped, reads, myRead, terminal, granted>>

(* Mutant: the read is waited for, cancelled or not.                       *)
AbandonAfterRead(c) ==
    /\ pc[c] = "reading"
    /\ done[c]
    /\ myLine(c) # Pending
    /\ ReleaseAndReturn(c, "cancelled")
    /\ UNCHANGED <<done, stopped, reads, myRead, terminal, outcomes>>

(* The second select takes the cancellation: the approver is retired, and  *)
(* the read is left to end by itself.                                      *)
Abandon(c) ==
    /\ pc[c] = "reading"
    /\ done[c]
    /\ stopped' = TRUE
    /\ ReleaseAndReturn(c, "cancelled")
    /\ withdrawn' = withdrawn \cup {myRead[c]}
    /\ UNCHANGED <<done, reads, myRead, terminal, granted>>

(* The human: types a line, at a prompt or ahead of one, or closes the     *)
(* input.                                                                  *)
Type(a) ==
    /\ ~closed
    /\ lines < MaxLines
    /\ lines' = lines + 1
    /\ input' = Append(input, a)
    /\ UNCHANGED <<done, caller, gate, stopped, reads, myRead, closed, outcomes>>

Close ==
    /\ ~closed
    /\ closed' = TRUE
    /\ UNCHANGED <<done, caller, gate, stopped, reads, myRead, input, lines, outcomes>>

(* No caller will ask again.                                               *)
Quiet ==
    /\ \A c \in Callers : pc[c] = "idle" /\ requests[c] = MaxRequests
    /\ UNCHANGED vars

OwnStep(c) ==
    \/ AcquireGate(c) \/ GiveUp(c) \/ Enter(c) \/ PromptFails(c) \/ Prompt(c)
    \/ TakeAnswer(c) \/ TakeAnswerTooLate(c) \/ Abandon(c)

Next ==
    \/ \E c \in Callers :
        \/ CtxDone(c)
        \/ \E t \in Tools : Authorize(c, t)
        \/ OwnStep(c)
    \/ \E i \in DOMAIN reads : ReadLine(i)
    \/ \E a \in Answers : Type(a)
    \/ Close
    \/ Quiet

(* Goroutines are scheduled and a write to the terminal returns; nobody    *)
(* has to type anything.                                                   *)
Spec == Init /\ [][Next]_vars
FairSpec == Spec /\ \A c \in Callers : WF_vars(OwnStep(c))

---------------------------------------------------------------------------
TypeOK ==
    /\ done \in [Callers -> BOOLEAN]
    /\ pc \in [Callers -> Labels]
    /\ asked \in [Callers -> Tools \cup {NoTool}]
    /\ requests \in [Callers -> Nat]
    /\ verdict \in [Callers -> Verdicts]
    /\ gate \in Callers \cup {Nobody}
    /\ stopped \in BOOLEAN
    /\ reads \in Seq(Read)
    /\ myRead \in [Callers -> Nat]
    /\ input \in Seq(Answers)
    /\ lines \in Nat
    /\ closed \in BOOLEAN
    /\ granted \in Seq(Callers \X Nat)
    /\ withdrawn \subseteq Nat

(* Prompts do not interleave on the terminal: only the holder of the gate  *)
(* is between its prompt and its answer (33-38).                           *)
PromptsSerialised ==
    \A c \in Callers : pc[c] \in {"holding", "writing", "reading"} => gate = c

(* The bufio.Reader is never read by two goroutines at once, although a    *)
(* read outlives the request that started it (49-52, 54-60).               *)
OneReader ==
    \A i, j \in DOMAIN reads : isPending(i) /\ isPending(j) => i = j

(* Approval is never borrowed: every approval rests on a line "yes" read   *)
(* at the prompt of the request it approves, a request that was not        *)
(* cancelled at that prompt; and no line approves two requests.            *)
ApprovalIsOwn ==
    \A k \in DOMAIN granted : LET read == granted[k][2] IN
        /\ read \in DOMAIN reads
        /\ reads[read] = [by |-> granted[k][1], line |-> "yes"]
        /\ read \notin withdrawn
        /\ \A l \in DOMAIN granted : granted[l][2] = read => l = k

(* A retired approver stays retired: it shows no further prompt, starts no *)
(* further read and approves nothing that needs the terminal.              *)
RetiredForGood ==
    [][stopped => stopped' /\ Len(reads') = Len(reads) /\ granted' = granted]_vars

(* Cancellation is never held up by the terminal or by another caller's    *)
(* prompt: a cancelled request returns even if nobody ever answers.        *)
CancelledReturns ==
    \A c \in Callers : done[c] /\ pc[c] # "idle" ~> pc[c] = "idle"

(* cmd/hot-take/approval_test.go:69, "a cancelled approver must never      *)
(* consume another answer for a new request": once a request has been      *)
(* cancelled at its prompt, no answer is read for a later one.             *)
CancelledApproverReadsNoMore ==
    \A j \in withdrawn : \A i \in DOMAIN reads : i > j => reads[i].line \notin Answers
=============================================================================
