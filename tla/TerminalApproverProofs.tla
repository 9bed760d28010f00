----------------------- MODULE TerminalApproverProofs -----------------------
(***************************************************************************)
(* For any number of callers, tools, requests and lines: the prompts of a  *)
(* terminal approver are serialised, its input has one reader, every       *)
(* approval is the request's own, and retirement is for good.              *)
(***************************************************************************)
EXTENDS TerminalApprover, SequenceTheorems, TLAPS

(* Every group of variables an action may leave alone.                     *)
USE DEF caller, terminal, outcomes

(* A read that nobody has answered is the one the gate's holder waits for, *)
(* unless the approver is retired.                                         *)
Sole == \A i \in DOMAIN reads : isPending(i) =>
    stopped \/ \E c \in Callers : pc[c] = "reading" /\ myRead[c] = i

(* A retired approver has nobody at its terminal.                          *)
Retired == stopped => \A c \in Callers : pc[c] \notin {"writing", "reading"}

(* Whoever waits for a read started it, and nothing rests on it yet.       *)
Awaited == \A c \in Callers : pc[c] = "reading" =>
    /\ myRead[c] \in DOMAIN reads
    /\ reads[myRead[c]].by = c
    /\ myRead[c] \notin withdrawn
    /\ \A k \in DOMAIN granted : granted[k][2] # myRead[c]

Withdrawn == withdrawn \subseteq DOMAIN reads

Inv ==
    /\ TypeOK
    /\ PromptsSerialised
    /\ OneReader
    /\ Sole
    /\ Retired
    /\ Awaited
    /\ Withdrawn
    /\ ApprovalIsOwn

LEMMA InitInv == Init => Inv
<1> SUFFICES ASSUME Init PROVE Inv
    OBVIOUS
<1>1. TypeOK
  <2>1. /\ done \in [Callers -> BOOLEAN] /\ pc \in [Callers -> Labels]
        /\ asked \in [Callers -> Tools \cup {NoTool}] /\ requests \in [Callers -> Nat]
        /\ verdict \in [Callers -> Verdicts] /\ myRead \in [Callers -> Nat]
      BY DEF Init, Labels, Verdicts
  <2>2. /\ gate \in Callers \cup {Nobody} /\ stopped \in BOOLEAN /\ closed \in BOOLEAN
        /\ lines \in Nat /\ withdrawn \subseteq Nat
      BY DEF Init
  <2>3. reads \in Seq(Read) /\ input \in Seq(Answers) /\ granted \in Seq(Callers \X Nat)
      BY DEF Init
  <2> QED
      BY <2>1, <2>2, <2>3 DEF TypeOK
<1>2. /\ PromptsSerialised /\ OneReader /\ Sole /\ Retired
      /\ Awaited /\ Withdrawn /\ ApprovalIsOwn
    BY DEF Init, PromptsSerialised, OneReader, Sole, Retired, Awaited, Withdrawn, ApprovalIsOwn
<1> QED
    BY <1>1, <1>2 DEF Inv

(* The helpers that move a caller keep the types of what they change.      *)
LEMMA GotoTyped ==
    ASSUME TypeOK, NEW c \in Callers, NEW label \in Labels, Goto(c, label)
    PROVE  /\ pc' \in [Callers -> Labels] /\ asked' \in [Callers -> Tools \cup {NoTool}]
           /\ requests' \in [Callers -> Nat] /\ verdict' \in [Callers -> Verdicts]
           /\ pc' = [pc EXCEPT ![c] = label]
  BY DEF TypeOK, Goto

LEMMA ReturnTyped ==
    ASSUME TypeOK, NEW c \in Callers, NEW v \in Verdicts, Return(c, v)
    PROVE  /\ pc' \in [Callers -> Labels] /\ asked' \in [Callers -> Tools \cup {NoTool}]
           /\ requests' \in [Callers -> Nat] /\ verdict' \in [Callers -> Verdicts]
           /\ pc' = [pc EXCEPT ![c] = "idle"]
  BY DEF TypeOK, Return, Labels

(* A step that touches no read and lets nobody start or stop waiting for   *)
(* one.                                                                    *)
LEMMA AwayFromReads ==
    ASSUME Inv, TypeOK', PromptsSerialised', UNCHANGED <<stopped, reads, myRead, outcomes>>,
           \A c \in Callers : pc'[c] = "reading" <=> pc[c] = "reading",
           \A c \in Callers : pc'[c] = "writing" => pc[c] = "writing" \/ ~stopped
    PROVE  Inv'
<1>1. OneReader' /\ Sole' /\ Withdrawn' /\ ApprovalIsOwn'
    BY DEF Inv, OneReader, Sole, isPending, Withdrawn, ApprovalIsOwn
<1>2. Retired'
    BY DEF Inv, Retired
<1>3. Awaited'
    BY DEF Inv, Awaited
<1> QED
    BY <1>1, <1>2, <1>3 DEF Inv

LEMMA QueueStep ==
    ASSUME Inv, NEW c \in Callers,
           \/ CtxDone(c) \/ (\E t \in Tools : Authorize(c, t))
           \/ AcquireGate(c) \/ GiveUp(c) \/ Enter(c) \/ PromptFails(c)
    PROVE  Inv'
<1>1. UNCHANGED <<stopped, reads, myRead, terminal, outcomes>>
    BY DEF CtxDone, Authorize, AcquireGate, GiveUp, Enter, PromptFails
<1>2. CASE CtxDone(c)
  <2>1. TypeOK' /\ PromptsSerialised'
      BY <1>2 DEF Inv, TypeOK, PromptsSerialised, CtxDone
  <2> QED
      BY <1>1, <1>2, <2>1, AwayFromReads DEF CtxDone
<1>3. ASSUME NEW t \in Tools, Authorize(c, t) PROVE Inv'
  <2>1. /\ requests' \in [Callers -> Nat] /\ pc' \in [Callers -> Labels]
        /\ pc[c] = "idle" /\ (pc' = pc \/ pc' = [pc EXCEPT ![c] = "gate"])
    <3>1. requests' = [requests EXCEPT ![c] = @ + 1] /\ pc[c] = "idle"
        BY <1>3 DEF Authorize
    <3>2. pc' = pc \/ pc' = [pc EXCEPT ![c] = "gate"]
        BY <1>3 DEF Authorize
    <3>3. requests \in [Callers -> Nat] /\ pc \in [Callers -> Labels] /\ requests[c] \in Nat
        BY DEF Inv, TypeOK
    <3>4. requests[c] + 1 \in Nat /\ "gate" \in Labels
        BY <3>3 DEF Labels
    <3>5. requests' \in [Callers -> Nat]
        BY <3>1, <3>3, <3>4
    <3>6. pc' \in [Callers -> Labels]
        BY <3>2, <3>3, <3>4
    <3> QED
        BY <3>1, <3>2, <3>5, <3>6
  <2>2. asked' \in [Callers -> Tools \cup {NoTool}]
      BY <1>3 DEF Inv, TypeOK, Authorize
  <2>3. verdict' \in [Callers -> Verdicts]
    <3>1. CASE Mode[t] = "ask"
        BY <1>3, <3>1 DEF Inv, TypeOK, Authorize
    <3>2. CASE Mode[t] # "ask"
      <4>1. verdict' = [verdict EXCEPT ![c] = IF Mode[t] = "allow" THEN "granted" ELSE "denied"]
          BY <1>3, <3>2 DEF Authorize
      <4>2. verdict' = [verdict EXCEPT ![c] = "granted"] \/ verdict' = [verdict EXCEPT ![c] = "denied"]
          BY <4>1
      <4> QED
          BY <4>2 DEF Inv, TypeOK, Verdicts
    <3> QED
        BY <3>1, <3>2
  <2>4. TypeOK'
      BY <1>3, <2>1, <2>2, <2>3 DEF Inv, TypeOK, Authorize
  <2>5. PromptsSerialised'
      BY <1>3, <2>1 DEF Inv, TypeOK, PromptsSerialised, Authorize
  <2> QED
      BY <1>1, <2>1, <2>4, <2>5, AwayFromReads DEF Inv, TypeOK
<1>4. CASE AcquireGate(c)
  <2>1. TypeOK' /\ pc' = [pc EXCEPT ![c] = "holding"]
      BY <1>1, <1>4, GotoTyped DEF Inv, TypeOK, AcquireGate, Labels
  <2>2. PromptsSerialised'
      BY <1>4, <2>1, ApproverAssumption DEF Inv, TypeOK, PromptsSerialised, AcquireGate
  <2> QED
      BY <1>1, <1>4, <2>1, <2>2, AwayFromReads DEF Inv, TypeOK, AcquireGate
<1>5. CASE GiveUp(c)
  <2>1. TypeOK' /\ pc' = [pc EXCEPT ![c] = "idle"]
      BY <1>1, <1>5, ReturnTyped DEF Inv, TypeOK, GiveUp, Verdicts
  <2>2. PromptsSerialised'
      BY <1>5, <2>1 DEF Inv, TypeOK, PromptsSerialised, GiveUp
  <2> QED
      BY <1>1, <1>5, <2>1, <2>2, AwayFromReads DEF Inv, TypeOK, GiveUp
<1>6. CASE Enter(c)
  <2>1. CASE ~done[c] /\ ~stopped
    <3>1. Goto(c, "writing") /\ UNCHANGED <<gate, done>> /\ pc[c] = "holding"
        BY <1>6, <2>1 DEF Enter
    <3>2. TypeOK' /\ pc' = [pc EXCEPT ![c] = "writing"]
        BY <1>1, <3>1, GotoTyped DEF Inv, TypeOK, Labels
    <3>3. PromptsSerialised'
        BY <3>1, <3>2 DEF Inv, TypeOK, PromptsSerialised
    <3> QED
        BY <1>1, <2>1, <3>1, <3>2, <3>3, AwayFromReads DEF Inv, TypeOK
  <2>2. CASE done[c] \/ stopped
    <3>1. PICK v \in Verdicts : ReleaseAndReturn(c, v)
        BY <1>6, <2>2 DEF Enter, Verdicts
    <3>2. pc[c] = "holding" /\ UNCHANGED done /\ gate' = Nobody /\ Return(c, v)
        BY <1>6, <3>1 DEF Enter, ReleaseAndReturn
    <3>3. TypeOK' /\ pc' = [pc EXCEPT ![c] = "idle"]
        BY <1>1, <3>2, ReturnTyped DEF Inv, TypeOK
    <3>4. PromptsSerialised'
        BY <3>2, <3>3 DEF Inv, TypeOK, PromptsSerialised
    <3> QED
        BY <1>1, <3>2, <3>3, <3>4, AwayFromReads DEF Inv, TypeOK
  <2> QED
      BY <2>1, <2>2
<1>7. CASE PromptFails(c)
  <2>1. pc[c] = "writing" /\ UNCHANGED done /\ gate' = Nobody /\ Return(c, "failed")
      BY <1>7 DEF PromptFails, ReleaseAndReturn
  <2>2. TypeOK' /\ pc' = [pc EXCEPT ![c] = "idle"]
      BY <1>1, <2>1, ReturnTyped DEF Inv, TypeOK, Verdicts
  <2>3. PromptsSerialised'
      BY <2>1, <2>2 DEF Inv, TypeOK, PromptsSerialised
  <2> QED
      BY <1>1, <2>1, <2>2, <2>3, AwayFromReads DEF Inv, TypeOK
<1> QED
    BY <1>2, <1>3, <1>4, <1>5, <1>6, <1>7

(* A prompt finds no read pending: that would be its own, or the approver  *)
(* would be retired.                                                       *)
LEMMA PromptStep ==
    ASSUME Inv, NEW c \in Callers, Prompt(c)
    PROVE  Inv'
<1> DEFINE new == Len(reads) + 1
<1>1. /\ pc[c] = "writing" /\ gate = c /\ ~stopped
      /\ Goto(c, "reading")
      /\ reads' = Append(reads, [by |-> c, line |-> Pending])
      /\ myRead' = [myRead EXCEPT ![c] = new]
      /\ UNCHANGED <<done, gate, stopped, terminal, outcomes>>
    BY DEF Inv, PromptsSerialised, Retired, Prompt
<1>2. \A d \in Callers : pc[d] # "reading"
    BY <1>1 DEF Inv, PromptsSerialised
<1>3. \A i \in DOMAIN reads : ~isPending(i)
    BY <1>1, <1>2 DEF Inv, Sole
<1>4. /\ reads \in Seq(Read) /\ reads' \in Seq(Read) /\ new \in Nat
      /\ DOMAIN reads' = DOMAIN reads \cup {new} /\ new \notin DOMAIN reads
      /\ \A i \in DOMAIN reads : reads'[i] = reads[i]
      /\ reads'[new] = [by |-> c, line |-> Pending]
  <2>1. [by |-> c, line |-> Pending] \in Read
      BY DEF Read
  <2>2. reads \in Seq(Read)
      BY DEF Inv, TypeOK
  <2> QED
      BY <1>1, <2>1, <2>2
<1>5. TypeOK' /\ pc' = [pc EXCEPT ![c] = "reading"]
    BY <1>1, <1>4, GotoTyped DEF Inv, TypeOK, Labels
<1>6. PromptsSerialised'
    BY <1>1, <1>5 DEF Inv, TypeOK, PromptsSerialised
<1>7. OneReader' /\ Sole'
  <2>1. \A i \in DOMAIN reads' : isPending(i)' => i = new
      BY <1>3, <1>4 DEF isPending
  <2>2. pc'[c] = "reading" /\ myRead'[c] = new
      BY <1>1, <1>5 DEF Inv, TypeOK
  <2> QED
      BY <2>1, <2>2 DEF OneReader, Sole
<1>8. Retired'
    BY <1>1 DEF Retired
<1>9. Withdrawn'
    BY <1>1, <1>4 DEF Inv, Withdrawn
<1>10. \A k \in DOMAIN granted : granted[k][2] \in DOMAIN reads
    BY DEF Inv, ApprovalIsOwn
<1>11. Awaited'
  <2>1. \A d \in Callers : pc'[d] = "reading" => d = c
      BY <1>2, <1>5 DEF Inv, TypeOK
  <2>2. myRead'[c] = new
      BY <1>1 DEF Inv, TypeOK
  <2> QED
      BY <1>1, <1>4, <1>10, <2>1, <2>2 DEF Inv, Withdrawn, Awaited
<1>12. ApprovalIsOwn'
    BY <1>1, <1>4 DEF Inv, ApprovalIsOwn
<1> QED
    BY <1>5, <1>6, <1>7, <1>8, <1>9, <1>11, <1>12 DEF Inv

(* A reader goroutine answers a pending read and no other.                 *)
LEMMA ReadLineEffect ==
    ASSUME TypeOK, NEW i \in DOMAIN reads, ReadLine(i)
    PROVE  /\ input' \in Seq(Answers)
           /\ \E line \in Answers \cup {"eof"} : reads' = [reads EXCEPT ![i].line = line]
<1>1. CASE input # <<>>
  <2>1. input \in Seq(Answers)
      BY DEF TypeOK
  <2>2. Head(input) \in Answers /\ Tail(input) \in Seq(Answers)
      BY <1>1, <2>1
  <2>3. input' = Tail(input) /\ reads' = [reads EXCEPT ![i].line = Head(input)]
      BY <1>1 DEF ReadLine
  <2> QED
      BY <2>2, <2>3
<1>2. CASE input = <<>>
  <2>1. input' = input /\ reads' = [reads EXCEPT ![i].line = "eof"]
      BY <1>2 DEF ReadLine
  <2> QED
      BY <2>1 DEF TypeOK
<1> QED
    BY <1>1, <1>2

LEMMA ReadLineStep ==
    ASSUME Inv, NEW i \in DOMAIN reads, ReadLine(i)
    PROVE  Inv'
<1>1. isPending(i) /\ UNCHANGED <<done, caller, gate, stopped, myRead, lines, closed, outcomes>>
    BY DEF ReadLine
<1>2. /\ input' \in Seq(Answers)
      /\ \E line \in Answers \cup {"eof"} : reads' = [reads EXCEPT ![i].line = line]
    BY ReadLineEffect DEF Inv
<1>3. PICK line \in Answers \cup {"eof"} : reads' = [reads EXCEPT ![i].line = line]
    BY <1>2
<1>4. /\ reads' \in Seq(Read) /\ DOMAIN reads' = DOMAIN reads
      /\ reads'[i] = [by |-> reads[i].by, line |-> line]
      /\ \A j \in DOMAIN reads : j # i => reads'[j] = reads[j]
  <2>1. reads \in Seq(Read) /\ reads \in [1..Len(reads) -> Read] /\ i \in 1..Len(reads)
      BY LenProperties DEF Inv, TypeOK
  <2>2. reads[i] \in Read
      BY <2>1
  <2>3. [reads[i] EXCEPT !.line = line] = [by |-> reads[i].by, line |-> line]
      BY <2>2 DEF Read
  <2>4. [by |-> reads[i].by, line |-> line] \in Read
      BY <2>2 DEF Read
  <2>5. reads' = [reads EXCEPT ![i] = [by |-> reads[i].by, line |-> line]]
      BY <1>3, <2>3
  <2> QED
      BY <2>1, <2>4, <2>5
<1>5. line # Pending
    BY DEF Answers, Pending
<1>6. TypeOK'
    BY <1>1, <1>2, <1>4 DEF Inv, TypeOK
<1>7. PromptsSerialised' /\ Retired' /\ Withdrawn'
    BY <1>1, <1>4 DEF Inv, PromptsSerialised, Retired, Withdrawn
<1>8. OneReader' /\ Sole'
  <2>1. \A j \in DOMAIN reads' : isPending(j)' => isPending(j)
      BY <1>4, <1>5 DEF isPending
  <2> QED
      BY <1>1, <1>4, <2>1 DEF Inv, OneReader, Sole
<1>9. Awaited'
    BY <1>1, <1>4 DEF Inv, Awaited
<1>10. ApprovalIsOwn'
  <2>1. ASSUME NEW k \in DOMAIN granted, granted[k][2] = i PROVE FALSE
    <3>1. reads[i] = [by |-> granted[k][1], line |-> "yes"]
        BY <2>1 DEF Inv, ApprovalIsOwn
    <3>2. reads[i].line = "yes" /\ reads[i].line = "pending"
        BY <1>1, <3>1 DEF isPending, Pending
    <3> QED
        BY <3>2
  <2> QED
      BY <1>1, <1>4, <2>1 DEF Inv, ApprovalIsOwn
<1> QED
    BY <1>6, <1>7, <1>8, <1>9, <1>10 DEF Inv

(* A caller that leaves its read: the read is answered, or the approver is *)
(* retired.                                                                *)
LEMMA LeaveStep ==
    ASSUME Inv, NEW c \in Callers, NEW v \in Verdicts,
           pc[c] = "reading", ReleaseAndReturn(c, v),
           UNCHANGED <<done, reads, myRead, terminal>>,
           stopped' \in BOOLEAN, stopped => stopped', stopped' \/ ~isPending(myRead[c]),
           granted' \in Seq(Callers \X Nat), withdrawn' \subseteq DOMAIN reads, ApprovalIsOwn'
    PROVE  Inv'
<1>1. gate' = Nobody /\ Return(c, v)
    BY DEF ReleaseAndReturn
<1>2. DOMAIN reads \subseteq Nat
    BY DEF Inv, TypeOK
<1>3. TypeOK' /\ pc' = [pc EXCEPT ![c] = "idle"]
    BY <1>1, <1>2, ReturnTyped DEF Inv, TypeOK
<1>4. \A d \in Callers : pc'[d] \notin {"holding", "writing", "reading"}
    BY <1>3 DEF Inv, TypeOK, PromptsSerialised
<1>5. PromptsSerialised' /\ Retired' /\ Awaited'
    BY <1>4 DEF PromptsSerialised, Retired, Awaited
<1>6. OneReader' /\ Withdrawn'
    BY DEF Inv, OneReader, isPending, Withdrawn
<1>7. Sole'
  <2>1. ASSUME NEW i \in DOMAIN reads, isPending(i), ~stopped' PROVE FALSE
    <3>1. PICK d \in Callers : pc[d] = "reading" /\ myRead[d] = i
        BY <2>1 DEF Inv, Sole
    <3>2. d = c
        BY <3>1 DEF Inv, PromptsSerialised
    <3> QED
        BY <2>1, <3>1, <3>2
  <2> QED
      BY <2>1 DEF Sole, isPending
<1> QED
    BY <1>3, <1>5, <1>6, <1>7 DEF Inv

LEMMA AnswerStep ==
    ASSUME Inv, NEW c \in Callers, TakeAnswer(c) \/ TakeAnswerTooLate(c) \/ Abandon(c)
    PROVE  Inv'
<1>1. /\ pc[c] = "reading" /\ UNCHANGED <<done, reads, myRead, terminal>>
      /\ myRead[c] \in DOMAIN reads /\ myRead[c] \in Nat
    BY DEF TakeAnswer, TakeAnswerTooLate, Abandon, Inv, Awaited, TypeOK
<1>2. CASE TakeAnswer(c)
  <2>1. /\ ~isPending(myRead[c]) /\ UNCHANGED <<stopped, withdrawn>>
        /\ \E v \in Verdicts : ReleaseAndReturn(c, v)
      BY <1>2 DEF TakeAnswer, isPending, myLine, Verdicts
  <2>2. granted' \in Seq(Callers \X Nat) /\ ApprovalIsOwn'
    <3>1. CASE myLine(c) = "yes"
      <4>1. granted' = Append(granted, <<c, myRead[c]>>)
          BY <1>2, <3>1 DEF TakeAnswer
      <4>2. granted \in Seq(Callers \X Nat) /\ <<c, myRead[c]>> \in Callers \X Nat
          BY <1>1 DEF Inv, TypeOK
      <4>3. /\ granted' \in Seq(Callers \X Nat) /\ DOMAIN granted' = DOMAIN granted \cup {Len(granted) + 1}
            /\ Len(granted) + 1 \notin DOMAIN granted
            /\ granted'[Len(granted) + 1] = <<c, myRead[c]>>
            /\ \A k \in DOMAIN granted : granted'[k] = granted[k]
          BY <4>1, <4>2
      <4>4. reads[myRead[c]] = [by |-> c, line |-> "yes"]
        <5>1. reads[myRead[c]] \in Read
            BY <1>1 DEF Inv, TypeOK
        <5> QED
            BY <1>1, <3>1, <5>1 DEF Inv, Awaited, myLine, Read
      <4>5. \A k \in DOMAIN granted : granted[k][2] # myRead[c]
          BY <1>1 DEF Inv, Awaited
      <4>6. myRead[c] \notin withdrawn
          BY <1>1 DEF Inv, Awaited
      <4> QED
          BY <1>1, <2>1, <4>3, <4>4, <4>5, <4>6 DEF Inv, ApprovalIsOwn
    <3>2. CASE myLine(c) # "yes"
      <4>1. granted' = granted
          BY <1>2, <3>2 DEF TakeAnswer
      <4> QED
          BY <1>1, <2>1, <4>1 DEF Inv, TypeOK, ApprovalIsOwn
    <3> QED
        BY <3>1, <3>2
  <2>3. withdrawn' \subseteq DOMAIN reads /\ stopped' \in BOOLEAN
      BY <2>1 DEF Inv, TypeOK, Withdrawn
  <2> QED
      BY <1>1, <2>1, <2>2, <2>3, LeaveStep
<1>3. CASE TakeAnswerTooLate(c) \/ Abandon(c)
  <2>1. /\ withdrawn' = withdrawn \cup {myRead[c]} /\ UNCHANGED granted
        /\ ReleaseAndReturn(c, "cancelled") /\ "cancelled" \in Verdicts
      BY <1>3 DEF TakeAnswerTooLate, Abandon, Verdicts
  <2>2. stopped' \in BOOLEAN /\ (stopped => stopped') /\ (stopped' \/ ~isPending(myRead[c]))
      BY <1>3 DEF TakeAnswerTooLate, Abandon, Inv, TypeOK, isPending, myLine
  <2>3. ApprovalIsOwn'
      BY <1>1, <2>1 DEF Inv, Awaited, ApprovalIsOwn
  <2>4. granted' \in Seq(Callers \X Nat) /\ withdrawn' \subseteq DOMAIN reads
      BY <1>1, <2>1 DEF Inv, TypeOK, Withdrawn
  <2> QED
      BY <1>1, <2>1, <2>2, <2>3, <2>4, LeaveStep
<1> QED
    BY <1>2, <1>3

LEMMA NextStep == Inv /\ [Next]_vars => Inv'
<1> SUFFICES ASSUME Inv, [Next]_vars PROVE Inv'
    OBVIOUS
<1>1. ASSUME NEW c \in Callers,
             CtxDone(c) \/ (\E t \in Tools : Authorize(c, t)) \/ OwnStep(c)
      PROVE  Inv'
    BY <1>1, QueueStep, PromptStep, AnswerStep DEF OwnStep
<1>2. ASSUME NEW i \in DOMAIN reads, ReadLine(i) PROVE Inv'
    BY <1>2, ReadLineStep
<1>3. ASSUME NEW a \in Answers, Type(a) PROVE Inv'
  <2>1. TypeOK' /\ PromptsSerialised'
      BY <1>3 DEF Inv, TypeOK, PromptsSerialised, Type
  <2> QED
      BY <1>3, <2>1, AwayFromReads DEF Type
<1>4. CASE Close
  <2>1. TypeOK' /\ PromptsSerialised'
      BY <1>4 DEF Inv, TypeOK, PromptsSerialised, Close
  <2> QED
      BY <1>4, <2>1, AwayFromReads DEF Close
<1>5. CASE UNCHANGED vars
  <2>1. TypeOK' /\ PromptsSerialised'
      BY <1>5 DEF Inv, TypeOK, PromptsSerialised, vars
  <2> QED
      BY <1>5, <2>1, AwayFromReads DEF vars
<1> QED
    BY <1>1, <1>2, <1>3, <1>4, <1>5 DEF Next, Quiet

LEMMA Invariant == Spec => []Inv
<1> QED
    BY InitInv, NextStep, PTL DEF Spec

(* The variables keep their types.                                         *)
THEOREM Typed == Spec => []TypeOK
<1>1. Inv => TypeOK
    BY DEF Inv
<1> QED
    BY <1>1, Invariant, PTL

(* However many requests compete, only the gate's holder is at the         *)
(* terminal (cmd/hot-take/approval.go:33-38).                              *)
THEOREM Serialised == Spec => []PromptsSerialised
<1>1. Inv => PromptsSerialised
    BY DEF Inv
<1> QED
    BY <1>1, Invariant, PTL

(* The shared bufio.Reader is never in use by two goroutines, abandoned    *)
(* reads included (cmd/hot-take/approval.go:49-60).                        *)
THEOREM ReadAlone == Spec => []OneReader
<1>1. Inv => OneReader
    BY DEF Inv
<1> QED
    BY <1>1, Invariant, PTL

(* Every approval rests on a "yes" read for that very request, which was   *)
(* not cancelled, and on which nothing else rests.                         *)
THEOREM Approved == Spec => []ApprovalIsOwn
<1>1. Inv => ApprovalIsOwn
    BY DEF Inv
<1> QED
    BY <1>1, Invariant, PTL

(* Once a cancelled read has retired the approver, no step prompts, reads  *)
(* or approves again (cmd/hot-take/approval.go:42, 59).                    *)
THEOREM StaysRetired == Spec => RetiredForGood
<1>1. ASSUME Inv, [Next]_vars, stopped
      PROVE  stopped' /\ Len(reads') = Len(reads) /\ granted' = granted
  <2>1. \A c \in Callers : pc[c] \notin {"writing", "reading"}
      BY <1>1 DEF Inv, Retired
  <2>2. ASSUME NEW c \in Callers,
               CtxDone(c) \/ (\E t \in Tools : Authorize(c, t)) \/ OwnStep(c)
        PROVE  UNCHANGED <<stopped, reads, granted>>
      BY <2>1, <2>2 DEF OwnStep, CtxDone, Authorize, AcquireGate, GiveUp, Enter, PromptFails, Prompt,
                        TakeAnswer, TakeAnswerTooLate, Abandon
  <2>3. ASSUME NEW i \in DOMAIN reads, ReadLine(i)
        PROVE  UNCHANGED <<stopped, granted>> /\ Len(reads') = Len(reads)
    <3>1. PICK line \in Answers \cup {"eof"} : reads' = [reads EXCEPT ![i].line = line]
        BY <1>1, <2>3, ReadLineEffect DEF Inv
    <3>2. reads \in Seq(Read)
        BY <1>1 DEF Inv, TypeOK
    <3> QED
        BY <2>3, <3>1, <3>2 DEF ReadLine
  <2>4. ASSUME (\E a \in Answers : Type(a)) \/ Close \/ UNCHANGED vars
        PROVE  UNCHANGED <<stopped, reads, granted>>
      BY <2>4 DEF Type, Close, vars
  <2> QED
      BY <1>1, <2>2, <2>3, <2>4 DEF Next, Quiet
<1> QED
    BY <1>1, Invariant, PTL DEF Spec, RetiredForGood

(* The gate is never lost: whoever has it is between taking it and giving  *)
(* it back.  It is not enough that one holder is at the terminal at most.  *)
GateHeld == gate # Nobody => pc[gate] \in {"holding", "writing", "reading"}

(* No request ends with the gate still taken, whether it is answered,      *)
(* cancelled, refused or fails, so that a queue behind it moves on         *)
(* (cmd/hot-take/approval.go:33-64).                                       *)
THEOREM GateNeverLost == Spec => []GateHeld
<1>1. Init => GateHeld
    BY DEF Init, GateHeld
<1>2. ASSUME Inv, GateHeld, [Next]_vars
      PROVE  GateHeld'
  <2>1. /\ pc \in [Callers -> Labels] /\ gate \in Callers \cup {Nobody} /\ Nobody \notin Callers
        /\ \A c \in Callers : pc[c] \in {"holding", "writing", "reading"} => gate = c
      BY <1>2, ApproverAssumption DEF Inv, TypeOK, PromptsSerialised
  <2>2. ASSUME NEW c \in Callers, CtxDone(c) \/ (\E t \in Tools : Authorize(c, t))
        PROVE  GateHeld'
    <3>1. gate' = gate /\ (pc' = pc \/ (pc[c] = "idle" /\ pc' = [pc EXCEPT ![c] = "gate"]))
        BY <2>2 DEF CtxDone, Authorize
    <3> QED
        BY <1>2, <2>1, <3>1 DEF GateHeld
  <2>3. ASSUME NEW c \in Callers, AcquireGate(c)
        PROVE  GateHeld'
      BY <2>1, <2>3 DEF AcquireGate, Goto, GateHeld
  <2>4. ASSUME NEW c \in Callers, GiveUp(c)
        PROVE  GateHeld'
      BY <1>2, <2>1, <2>4 DEF GiveUp, Return, GateHeld
  <2>5. ASSUME NEW c \in Callers,
               Enter(c) \/ PromptFails(c) \/ Prompt(c) \/ TakeAnswer(c) \/ TakeAnswerTooLate(c) \/ Abandon(c)
        PROVE  GateHeld'
    <3>1. pc[c] \in {"holding", "writing", "reading"}
        BY <2>5 DEF Enter, PromptFails, Prompt, TakeAnswer, TakeAnswerTooLate, Abandon
    <3>2. \/ gate' = Nobody
          \/ gate' = gate /\ \E label \in {"writing", "reading"} : pc' = [pc EXCEPT ![c] = label]
        BY <2>5 DEF Enter, PromptFails, Prompt, TakeAnswer, TakeAnswerTooLate, Abandon,
                    ReleaseAndReturn, Goto
    <3> QED
        BY <2>1, <3>1, <3>2 DEF GateHeld
  <2>6. ASSUME \/ \E i \in DOMAIN reads : ReadLine(i)
               \/ \E a \in Answers : Type(a)
               \/ Close
               \/ UNCHANGED vars
        PROVE  GateHeld'
      BY <1>2, <2>6 DEF ReadLine, Type, Close, vars, GateHeld
  <2> QED
      BY <1>2, <2>2, <2>3, <2>4, <2>5, <2>6 DEF Next, Quiet, OwnStep
<1> QED
    BY <1>1, <1>2, Invariant, PTL DEF Spec
=============================================================================
