--------------------------- MODULE McpClientProofs ---------------------------
(***************************************************************************)
(* The MCP client, for any number of callers, definitions, pages and       *)
(* operations: whose answers are taken, what a listing asks for and leaves *)
(* behind, and what calls are made from.                                   *)
(***************************************************************************)
EXTENDS McpClient, TLAPS

USE DEF listing, locals, histories

Listing(c) == pc[c] \in {"paging", "listing", "replacing"}
Waiting(c) == pc[c] \in {"listing", "calling"}

(***************************************************************************)
(* The invariant.                                                          *)
(***************************************************************************)

(* Operations are numbered as they begin and belong to one caller each.    *)
Owned ==
    /\ \A c \in Callers : pc[c] = "idle" <=> operation[c] = 0
    /\ \A c, d \in Callers : operation[c] = operation[d] /\ operation[c] # 0 => c = d
    /\ \A i \in DOMAIN sent : sent[i].operation \in 1..begun

(* A caller that waits waits for a request of its operation; a listing is  *)
(* answered by pages, and what was accepted had an answer.                 *)
Asked ==
    /\ \A i \in DOMAIN sent : sent[i].method = "tools/list" => sent[i].answer \in PageAnswers
    /\ \A c \in Callers : Waiting(c) =>
        /\ id[c] \in DOMAIN sent
        /\ sent[id[c]].operation = operation[c]
        /\ sent[id[c]].method = IF pc[c] = "listing" THEN "tools/list" ELSE "tools/call"
    /\ \A i \in DOMAIN sent : <<i, i>> \in accepted => sent[i].answer # NoAnswer

(* Tools of which no two bear one name and all are valid.                  *)
wellDefined(listed) ==
    /\ \A d, e \in listed : d.name = e.name => d = e
    /\ \A d \in listed : d.class = "valid"

(* The pages "ids" of a listing that goes on at the cursor "at".           *)
partial(ids, at) ==
    \A i \in ids : LET next == sent[i].answer.page.next IN
        /\ sent[i].cursor = NoCursor <=> \A j \in ids : i <= j
        /\ next # NoCursor
        /\ \/ \E j \in ids : j > i /\ sent[j].cursor = next
           \/ (\A j \in ids : j <= i) /\ next = at

(* The pages of an operation make a listing, and what they advertise.      *)
whole(op) == wholeListing(pagesOf(op))
offered(op) == advertised(pagesOf(op))

(* A listing that is under way has taken every page it asked for, but the  *)
(* one it waits for; those are its first ones, in order.                   *)
Collected(c, op) ==
    /\ all[c] = offered(op)
    /\ wellDefined(all[c])
    /\ \A i \in DOMAIN sent : sent[i].operation = op => i \in pagesOf(op) \/ (pc[c] = "listing" /\ i = id[c])
    /\ \A i \in pagesOf(op) : sent[i].cursor \in seenCursors[c] \cup {NoCursor}
Onward(c, op) ==
    /\ partial(pagesOf(op), cursor[c])
    /\ cursor[c] \in seenCursors[c] \cup {NoCursor}
    /\ cursor[c] = NoCursor <=> pagesOf(op) = {}
    /\ \A i \in pagesOf(op) : sent[i].cursor # cursor[c]
Expected(c, op) ==
    /\ sent[id[c]].cursor = cursor[c]
    /\ id[c] \notin pagesOf(op)
    /\ \A i \in pagesOf(op) : i < id[c]
Progress ==
    \A c \in Callers, op \in 1..begun : operation[c] = op =>
        /\ Listing(c) => Collected(c, op)
        /\ pc[c] \in {"paging", "listing"} => Onward(c, op)
        /\ pc[c] = "listing" => Expected(c, op)
        /\ pc[c] = "replacing" => whole(op)

(* The listings that replaced the catalogue are over, and the last of them *)
(* left it as it is.                                                       *)
Replaced ==
    \A l \in replaced :
        /\ l.operation \in 1..begun /\ l.begun \in l.operation..begun
        /\ \A c \in Callers : operation[c] # l.operation
        /\ whole(l.operation)
        /\ wellDefined(offered(l.operation))
Latest ==
    \/ tools = {} /\ replaced = {}
    \/ \E l \in replaced :
        /\ tools = offered(l.operation)
        /\ \A m \in replaced : m.begun <= l.begun

(* What a call of operation "op" may be made from.                         *)
current(def, op) ==
    \E l \in replaced :
        /\ def \in offered(l.operation)
        /\ ~\E m \in replaced : endedBefore(l, m.operation) /\ endedBefore(m, op)
Current ==
    /\ \A c \in Callers : pc[c] = "preparing" => current(definition[c], operation[c])
    /\ \A i \in DOMAIN sent : sent[i].method = "tools/call" => current(sent[i].definition, sent[i].operation)

Inv == Owned /\ Asked /\ AnswersOwn /\ Progress /\ NoPageTwice /\ Replaced /\ Latest /\ Current
(***************************************************************************)
(* Types, and the answers a caller takes.                                  *)
(***************************************************************************)
(* A request is only made below the page limit.                            *)
Limited == \A c \in Callers : pc[c] = "listing" => page[c] < MaxToolPages

(* A caller outside any operation has the locals of none.                  *)
Cleared == \A c \in Callers : pc[c] = "idle" => cursor[c] = NoCursor /\ all[c] = {}

LEMMA Decisive ==
    ASSUME NEW reply \in Replies, decisive(reply) # 0
    PROVE  decisive(reply) \in DOMAIN reply.messages /\ reply.messages[decisive(reply)] \in Message
  <1> DEFINE One == {<<m>> : m \in Message}
             Two == {<<m, n>> : m, n \in Message}
             I == {i \in 1..Len(reply.messages) : ~notification(reply.messages[i])}
  <1>1. \/ reply.type = "json" /\ reply.messages \in One
        \/ reply.type = "stream" /\ reply.messages \in Two
    <2> HIDE DEF One, Two
    <2>1. Replies = [type : {"json"}, ok : BOOLEAN, messages : One] \cup [type : {"stream"}, ok : {TRUE}, messages : Two]
      BY DEF Replies, One, Two
    <2> QED
      BY <2>1
  <1>2. CASE reply.type = "json"
    <2>1. PICK m \in Message : reply.messages = <<m>>
      BY <1>1, <1>2
    <2> QED
      BY <1>2, <2>1 DEF decisive
  <1>3. CASE reply.type = "stream"
    <2>1. PICK m \in Message, n \in Message : reply.messages = <<m, n>>
      BY <1>1, <1>3
    <2>2. decisive(reply) = IF I # {} THEN Min(I) ELSE 0
      BY <1>3 DEF decisive, SelectInSeq
    <2>3. I # {} /\ I \subseteq {1, 2}
      BY <2>1, <2>2
    <2> HIDE DEF I
    <2>4. \E x \in I : \A y \in I : x =< y
      <3>1. CASE 1 \in I
        BY <2>3, <3>1
      <3>2. CASE 1 \notin I
        <4>1. I = {2}
          BY <2>3, <3>2
        <4> QED
          BY <4>1
      <3> QED
        BY <3>1, <3>2
    <2>5. Min(I) \in I
      BY <2>4 DEF Min
    <2>6. decisive(reply) \in {1, 2}
      BY <2>2, <2>3, <2>5
    <2> QED
      BY <2>1, <2>6
  <1> QED
    BY <1>1, <1>2, <1>3

(* What decodes under an identifier that a request has is its own answer.  *)
LEMMA OwnReply ==
    ASSUME TypeOK, NEW n \in Nat \ {0}, NEW reply \in Replies, decodes(reply, n)
    PROVE  carried(reply) = n /\ n \in DOMAIN sent /\ sent[n].answer # NoAnswer
  BY Decisive DEF decodes, carried, Message, answered

LEMMA OwnAnswer ==
    ASSUME TypeOK, Asked, NEW c \in Callers, Waiting(c), NEW j \in acceptable(c)
    PROVE  j = id[c] /\ j \in DOMAIN sent /\ sent[j].answer # NoAnswer
  <1>1. id[c] \in Nat \ {0}
    BY DEF TypeOK, Asked
  <1> QED
    BY <1>1, OwnReply DEF acceptable

Cursors == {p.next : p \in Pages} \cup {NoCursor}

LEMMA Sends ==
    ASSUME TypeOK, NEW c \in Callers, NEW method \in {"tools/list", "tools/call"}, NEW at \in Cursors,
           NEW def \in Definition \cup {NotCalling}, NEW a \in PageAnswers \cup CallAnswers,
           Request(c, method, at, def, a)
    PROVE  LET req == [method |-> method, cursor |-> at, definition |-> def,
                       operation |-> operation[c], answer |-> a]
               n == Len(sent) + 1
           IN /\ sent' \in Seq(Sent) /\ nextID' = n /\ Len(sent') = n
              /\ n \in Nat \ {0} /\ n \notin DOMAIN sent
              /\ DOMAIN sent' = DOMAIN sent \cup {n}
              /\ sent'[n] = req
              /\ \A i \in DOMAIN sent : sent'[i] = sent[i]
              /\ id' = [id EXCEPT ![c] = n] /\ id' \in [Callers -> 0..n]
  <1> DEFINE req == [method |-> method, cursor |-> at, definition |-> def,
                     operation |-> operation[c], answer |-> a]
             n == Len(sent) + 1
  <1>1. req \in Sent
    BY DEF TypeOK, Sent, Cursors
  <1>2. sent \in Seq(Sent) /\ Len(sent) \in Nat
    BY DEF TypeOK
  <1>3. sent' = Append(sent, req) /\ nextID' = n /\ id' = [id EXCEPT ![c] = n]
    BY DEF Request, TypeOK
  <1> HIDE DEF req
  <1>4. /\ sent' \in Seq(Sent) /\ Len(sent') = n /\ sent'[n] = req
        /\ \A i \in 1..Len(sent) : sent'[i] = sent[i]
    BY <1>1, <1>2, <1>3
  <1>5. id' \in [Callers -> 0..n]
    BY <1>2, <1>3 DEF TypeOK
  <1>6. DOMAIN sent = 1..Len(sent) /\ DOMAIN sent' = 1..n
    BY <1>2, <1>4
  <1> QED
    BY <1>2, <1>3, <1>4, <1>5, <1>6 DEF req

LEMMA ReturnTyped ==
    ASSUME TypeOK, NEW c \in Callers, Return(c), UNCHANGED <<nextID, begun, sent>>, tools' \subseteq Definition,
           accepted' \subseteq (DOMAIN sent) \X (DOMAIN sent)
    PROVE  TypeOK'
  <1>1. 0 \in 0..begun /\ 0 \in 0..nextID /\ 0 \in 0..MaxToolPages
    BY McpAssumption DEF TypeOK
  <1>2. pc' \in [Callers -> Labels] /\ operation' \in [Callers -> 0..begun] /\ id' \in [Callers -> 0..nextID]
        /\ page' \in [Callers -> 0..MaxToolPages]
    BY <1>1 DEF TypeOK, Return, Goto, Labels
  <1>3. cursor' \in [Callers -> {p.next : p \in Pages} \cup {NoCursor}]
    BY DEF TypeOK, Return
  <1>4. seenCursors' \in [Callers -> SUBSET {p.next : p \in Pages}] /\ all' \in [Callers -> SUBSET Definition]
        /\ definition' \in [Callers -> Definition \cup {NotCalling}]
    BY DEF TypeOK, Return
  <1> QED
    BY <1>2, <1>3, <1>4 DEF TypeOK

LEMMA SendTyped ==
    ASSUME TypeOK, NEW c \in Callers, RequestPage(c) \/ SendCall(c)
    PROVE  TypeOK'
  <1>1. PICK method \in {"tools/list", "tools/call"}, at \in Cursors, def \in Definition \cup {NotCalling},
             a \in PageAnswers \cup CallAnswers : Request(c, method, at, def, a)
    BY DEF RequestPage, SendCall, TypeOK, Cursors
  <1>2. pc' \in [Callers -> Labels]
    BY DEF RequestPage, SendCall, TypeOK, Goto, Labels
  <1>3. /\ sent' \in Seq(Sent) /\ nextID' = Len(sent') /\ id' \in [Callers -> 0..nextID']
        /\ DOMAIN sent \subseteq DOMAIN sent'
    BY <1>1, Sends
  <1>4. UNCHANGED <<tools, begun, operation, page, cursor, seenCursors, all, definition, accepted, replaced>>
    BY DEF RequestPage, SendCall
  <1> QED
    BY <1>2, <1>3, <1>4 DEF TypeOK

LEMMA BeginTyped ==
    ASSUME TypeOK, NEW c \in Callers, BeginList(c) \/ \E name \in ToolNames : BeginCall(c, name)
    PROVE  TypeOK'
  <1>1. begun \in Nat /\ begun + 1 \in Nat /\ 0..begun \subseteq 0..(begun + 1) /\ begun + 1 \in 0..(begun + 1)
    BY DEF TypeOK
  <1>2. begun' = begun + 1 /\ UNCHANGED <<nextID, tools, id, page, cursor, seenCursors, all, sent, accepted, replaced>>
    BY DEF BeginList, BeginCall, Begin
  <1>3. pc' \in [Callers -> Labels]
    BY DEF BeginList, BeginCall, Enter, Goto, TypeOK, Labels
  <1>4. operation' \in [Callers -> 0..(begun + 1)]
    <2>1. operation' = operation \/ operation' = [operation EXCEPT ![c] = begun + 1]
      BY DEF BeginList, BeginCall, Enter
    <2>2. operation \in [Callers -> 0..(begun + 1)]
      BY <1>1 DEF TypeOK
    <2> QED
      BY <1>1, <2>1, <2>2
  <1>5. definition' \in [Callers -> Definition \cup {NotCalling}]
    BY DEF BeginList, BeginCall, TypeOK
  <1> QED
    BY <1>1, <1>2, <1>3, <1>4, <1>5 DEF TypeOK

(* A page that is accepted is one of the server's.                         *)
LEMMA OwnPage ==
    ASSUME TypeOK, Asked, NEW c \in Callers, pc[c] = "listing", NEW j \in acceptable(c)
    PROVE  /\ j = id[c] /\ j \in DOMAIN sent /\ sent[j].answer # NoAnswer
           /\ sent[j].answer.page \in Pages
           /\ definitions(sent[j].answer.page) \subseteq Definition
  <1>1. j = id[c] /\ j \in DOMAIN sent /\ sent[j].answer # NoAnswer
    BY OwnAnswer DEF Waiting
  <1>2. sent[j].answer \in PageAnswers
    BY <1>1 DEF Asked, Waiting
  <1>3. sent[j].answer.page \in Pages
    BY <1>1, <1>2 DEF PageAnswers, PageAnswer
  <1>4. sent[j].answer.page.tools \in Seq(Definition)
    BY <1>3, McpAssumption
  <1> QED
    BY <1>1, <1>3, <1>4 DEF definitions, keep

LEMMA TakeTyped ==
    ASSUME TypeOK, Asked, Limited, NEW c \in Callers, TakePage(c)
    PROVE  TypeOK'
  <1>1. PICK j \in acceptable(c) :
            /\ Accept(c, j)
            /\ LET p == sent[j].answer.page IN
               IF ~goodPage(p, all[c]) \/ repeated(c, p.next) THEN Return(c)
               ELSE /\ all' = [all EXCEPT ![c] = @ \cup definitions(p)]
                    /\ page' = [page EXCEPT ![c] = @ + 1]
                    /\ cursor' = [cursor EXCEPT ![c] = p.next]
                    /\ seenCursors' = [seenCursors EXCEPT ![c] = @ \cup ({p.next} \ {NoCursor})]
                    /\ Goto(c, IF p.next = NoCursor THEN "replacing" ELSE "paging")
                    /\ UNCHANGED <<operation, id, definition>>
    BY DEF TakePage
  <1>2. pc[c] = "listing" /\ UNCHANGED <<nextID, tools, begun, sent, replaced>>
    BY DEF TakePage
  <1> DEFINE p == sent[j].answer.page
  <1>3. /\ j = id[c] /\ j \in DOMAIN sent /\ p \in Pages /\ definitions(p) \subseteq Definition
    BY <1>2, OwnPage
  <1>4. accepted' \subseteq (DOMAIN sent) \X (DOMAIN sent)
    BY <1>1, <1>3 DEF Accept, TypeOK
  <1> HIDE DEF p
  <1>5. CASE Return(c)
    BY <1>2, <1>4, <1>5, ReturnTyped DEF TypeOK
  <1>6. CASE ~Return(c)
    <2>1. /\ all' = [all EXCEPT ![c] = @ \cup definitions(p)]
          /\ page' = [page EXCEPT ![c] = @ + 1]
          /\ cursor' = [cursor EXCEPT ![c] = p.next]
          /\ seenCursors' = [seenCursors EXCEPT ![c] = @ \cup ({p.next} \ {NoCursor})]
          /\ \E label \in Labels : Goto(c, label)
          /\ UNCHANGED <<operation, id, definition>>
      BY <1>1, <1>6 DEF p, Labels
    <2>2. p.next \in {q.next : q \in Pages}
      BY <1>3
    <2>3. page[c] \in Nat /\ page[c] < MaxToolPages /\ MaxToolPages \in Nat
      BY <1>2, McpAssumption DEF TypeOK, Limited
    <2>4. page' \in [Callers -> 0..MaxToolPages]
      BY <2>1, <2>3 DEF TypeOK
    <2>5. all' \in [Callers -> SUBSET Definition]
      BY <2>1, <1>3 DEF TypeOK
    <2>6. cursor' \in [Callers -> {q.next : q \in Pages} \cup {NoCursor}]
          /\ seenCursors' \in [Callers -> SUBSET {q.next : q \in Pages}]
      BY <2>1, <2>2 DEF TypeOK
    <2>7. pc' \in [Callers -> Labels]
      BY <2>1 DEF TypeOK, Goto
    <2> QED
      BY <1>2, <1>4, <2>1, <2>4, <2>5, <2>6, <2>7 DEF TypeOK
  <1> QED
    BY <1>5, <1>6

LEMMA TypedStep == TypeOK /\ Asked /\ Limited /\ [Next]_vars => TypeOK'
  <1> SUFFICES ASSUME TypeOK, Asked, Limited, [Next]_vars PROVE TypeOK'
    OBVIOUS
  <1>1. CASE UNCHANGED vars
    BY <1>1 DEF TypeOK, vars
  <1>2. ASSUME NEW c \in Callers, TooManyPages(c) \/ BadArguments(c) \/ RequestFails(c) PROVE TypeOK'
    BY <1>2, ReturnTyped DEF TooManyPages, BadArguments, RequestFails, TypeOK
  <1>3. ASSUME NEW c \in Callers, ReplaceTools(c) PROVE TypeOK'
    BY <1>3, ReturnTyped DEF ReplaceTools, catalogue, TypeOK
  <1>4. ASSUME NEW c \in Callers, TakeResult(c) PROVE TypeOK'
    <2>1. PICK j \in acceptable(c) : accepted' = accepted \cup {<<id[c], j>>}
      BY <1>4 DEF TakeResult, Accept
    <2>2. id[c] \in DOMAIN sent /\ j \in DOMAIN sent
      BY <1>4, OwnAnswer DEF TakeResult, Waiting, Asked
    <2>3. accepted' \subseteq (DOMAIN sent) \X (DOMAIN sent)
      BY <2>1, <2>2 DEF TypeOK
    <2>4. tools' \subseteq Definition /\ Return(c) /\ UNCHANGED <<nextID, begun, sent>>
      BY <1>4 DEF TakeResult, TypeOK
    <2> QED
      BY <2>3, <2>4, ReturnTyped
  <1> QED
    BY <1>1, <1>2, <1>3, <1>4, SendTyped, BeginTyped, TakeTyped DEF Next, OwnStep, Quiet

(***************************************************************************)
(* The steps of one caller, and what they leave alone.                     *)
(***************************************************************************)
Step(c) == BeginList(c) \/ (\E name \in ToolNames : BeginCall(c, name)) \/ OwnStep(c)

LEMMA Steps == [Next]_vars => (UNCHANGED vars \/ \E c \in Callers : Step(c))
  BY DEF Next, Step, Quiet

Undisturbed(d) ==
    /\ pc'[d] = pc[d] /\ operation'[d] = operation[d] /\ id'[d] = id[d] /\ cursor'[d] = cursor[d]
    /\ seenCursors'[d] = seenCursors[d] /\ all'[d] = all[d] /\ definition'[d] = definition[d]

(* An operation has the requests and pages it had.                         *)
Extended(op) ==
    /\ \A i \in DOMAIN sent : i \in DOMAIN sent' /\ sent'[i] = sent[i]
    /\ \A i \in DOMAIN sent' : sent'[i].operation = op =>
        i \in DOMAIN sent /\ (<<i, i>> \in accepted' <=> <<i, i>> \in accepted)

LEMMA SamePages ==
    ASSUME NEW op, Extended(op)
    PROVE  /\ pagesOf(op)' = pagesOf(op)
           /\ \A i \in pagesOf(op) : i \in DOMAIN sent /\ sent'[i] = sent[i]
  BY DEF Extended, pagesOf

LEMMA SameListing ==
    ASSUME NEW op, Extended(op)
    PROVE  offered(op)' = offered(op) /\ (whole(op) => whole(op)')
  <1>1. pagesOf(op)' = pagesOf(op) /\ \A i \in pagesOf(op) : sent'[i] = sent[i]
    BY SamePages
  <1>2. offered(op)' = offered(op)
    BY <1>1 DEF offered, advertised
  <1>3. whole(op) => whole(op)'
    BY <1>1 DEF whole, wholeListing
  <1> QED
    BY <1>2, <1>3

(* What a step of one caller does to the requests, and that it does        *)
(* nothing to the others.                                                  *)
LEMMA RequestKinds ==
    ASSUME TypeOK, Asked, NEW c \in Callers, Step(c)
    PROVE  \/ UNCHANGED <<sent, accepted>>
           \/ /\ (RequestPage(c) \/ SendCall(c)) /\ UNCHANGED accepted
              /\ \A i \in DOMAIN sent : i \in DOMAIN sent' /\ sent'[i] = sent[i]
              /\ \A i \in DOMAIN sent' : i \notin DOMAIN sent => sent'[i].operation = operation[c]
           \/ /\ Waiting(c) /\ UNCHANGED sent
              /\ accepted' = accepted \cup {<<id[c], id[c]>>}
  <1>1. CASE RequestPage(c) \/ SendCall(c)
    <2>1. PICK method \in {"tools/list", "tools/call"}, at \in Cursors, def \in Definition \cup {NotCalling},
               a \in PageAnswers \cup CallAnswers : Request(c, method, at, def, a)
      BY <1>1 DEF RequestPage, SendCall, TypeOK, Cursors
    <2>2. UNCHANGED accepted
      BY <1>1 DEF RequestPage, SendCall
    <2>3. /\ DOMAIN sent' = DOMAIN sent \cup {Len(sent) + 1}
          /\ \A i \in DOMAIN sent : sent'[i] = sent[i]
      BY <2>1, Sends
    <2>4. sent'[Len(sent) + 1] = [method |-> method, cursor |-> at, definition |-> def,
                                  operation |-> operation[c], answer |-> a]
      BY <2>1, Sends
    <2> QED
      BY <1>1, <2>2, <2>3, <2>4
  <1>2. CASE TakePage(c) \/ TakeResult(c)
    <2>1. Waiting(c) /\ UNCHANGED sent /\ \E j \in acceptable(c) : Accept(c, j)
      BY <1>2 DEF TakePage, TakeResult, Waiting
    <2> QED
      BY <2>1, OwnAnswer DEF Accept
  <1>3. CASE ~(RequestPage(c) \/ SendCall(c) \/ TakePage(c) \/ TakeResult(c))
    BY <1>3 DEF Step, OwnStep, BeginList, BeginCall, TooManyPages, BadArguments, RequestFails, ReplaceTools
  <1> QED
    BY <1>1, <1>2, <1>3

LEMMA Elsewhere ==
    ASSUME TypeOK, Asked, NEW c \in Callers, Step(c), NEW op, op # operation[c]
    PROVE  Extended(op)
  <1>1. CASE Waiting(c)
    BY <1>1, RequestKinds DEF Asked, Extended
  <1>2. CASE ~Waiting(c)
    BY <1>2, RequestKinds DEF Extended
  <1> QED
    BY <1>1, <1>2

LEMMA Others ==
    ASSUME TypeOK, NEW c \in Callers, Step(c), NEW d \in Callers, d # c
    PROVE  Undisturbed(d)
  <1>1. ASSUME Return(c) PROVE Undisturbed(d)
    BY <1>1 DEF TypeOK, Return, Goto, Undisturbed
  <1>2. CASE TooManyPages(c) \/ BadArguments(c) \/ RequestFails(c) \/ ReplaceTools(c) \/ TakeResult(c)
    BY <1>1, <1>2 DEF TooManyPages, BadArguments, RequestFails, ReplaceTools, TakeResult
  <1>3. CASE BeginList(c) \/ \E name \in ToolNames : BeginCall(c, name)
    BY <1>3 DEF BeginList, BeginCall, Enter, Goto, TypeOK, Undisturbed
  <1>4. CASE RequestPage(c) \/ SendCall(c)
    BY <1>4 DEF RequestPage, SendCall, Request, Goto, TypeOK, Undisturbed
  <1>5. CASE TakePage(c)
    <2>1. ASSUME ~Return(c) PROVE Undisturbed(d)
      BY <1>5, <2>1 DEF TakePage, Goto, TypeOK, Undisturbed
    <2> QED
      BY <1>1, <2>1
  <1> QED
    BY <1>2, <1>3, <1>4, <1>5 DEF Step, OwnStep

(* The caller's own place.                                                 *)
LEMMA Returned ==
    ASSUME TypeOK, NEW c \in Callers, Return(c)
    PROVE  pc'[c] = "idle" /\ operation'[c] = 0
  BY DEF TypeOK, Return, Goto

LEMMA OwnPlace ==
    ASSUME TypeOK, NEW c \in Callers, Step(c)
    PROVE  \/ Return(c) /\ begun' = begun
           \/ operation'[c] = operation[c] /\ (pc'[c] = "idle" <=> pc[c] = "idle") /\ begun' \in {begun, begun + 1}
           \/ pc[c] = "idle" /\ pc'[c] \in {"paging", "preparing"} /\ begun' = begun + 1 /\ operation'[c] = begun'
  <1>1. CASE TooManyPages(c) \/ BadArguments(c) \/ RequestFails(c) \/ ReplaceTools(c) \/ TakeResult(c)
    BY <1>1 DEF TooManyPages, BadArguments, RequestFails, ReplaceTools, TakeResult
  <1>2. CASE BeginList(c) \/ \E name \in ToolNames : BeginCall(c, name)
    BY <1>2 DEF BeginList, BeginCall, Begin, Enter, Goto, TypeOK
  <1>3. CASE RequestPage(c) \/ SendCall(c)
    BY <1>3 DEF RequestPage, SendCall, Goto, TypeOK
  <1>4. CASE TakePage(c)
    BY <1>4 DEF TakePage, Goto, TypeOK
  <1> QED
    BY <1>1, <1>2, <1>3, <1>4 DEF Step, OwnStep

LEMMA OwnedStep ==
    ASSUME TypeOK, Owned, Asked, NEW c \in Callers, Step(c)
    PROVE  Owned'
  <1>1. \A d \in Callers : d # c => pc'[d] = pc[d] /\ operation'[d] = operation[d]
    BY Others DEF Undisturbed
  <1>2. begun \in Nat /\ operation \in [Callers -> 0..begun]
    BY DEF TypeOK
  <1>3. \/ pc'[c] = "idle" /\ operation'[c] = 0 /\ begun' = begun
        \/ operation'[c] = operation[c] /\ (pc'[c] = "idle" <=> pc[c] = "idle") /\ begun' \in {begun, begun + 1}
        \/ pc'[c] # "idle" /\ operation'[c] = begun + 1 /\ begun' = begun + 1
    BY OwnPlace, Returned
  <1>4. \A i \in DOMAIN sent' : sent'[i].operation \in 1..begun'
    <2>1. CASE RequestPage(c) \/ SendCall(c)
      <3>1. operation[c] \in 1..begun
        BY <2>1, <1>2 DEF RequestPage, SendCall, Owned
      <3>2. \A i \in DOMAIN sent' : sent'[i].operation \in 1..begun
        BY <3>1, RequestKinds DEF Owned
      <3> QED
        BY <3>2, <1>2, <1>3
    <2>2. CASE ~(RequestPage(c) \/ SendCall(c))
      <3>1. \A i \in DOMAIN sent' : sent'[i].operation \in 1..begun
        BY <2>2, RequestKinds DEF Owned
      <3> QED
        BY <3>1, <1>2, <1>3
    <2> QED
      BY <2>1, <2>2
  <1>5. \A d \in Callers : pc'[d] = "idle" <=> operation'[d] = 0
    BY <1>1, <1>2, <1>3 DEF Owned
  <1>6. \A d, e \in Callers : operation'[d] = operation'[e] /\ operation'[d] # 0 => d = e
    <2>1. \A d \in Callers : operation[d] # begun + 1
      BY <1>2
    <2> QED
      BY <1>1, <1>2, <1>3, <2>1 DEF Owned
  <1> QED
    BY <1>4, <1>5, <1>6 DEF Owned

LEMMA AskedStep ==
    ASSUME TypeOK, Asked, NEW c \in Callers, Step(c)
    PROVE  Asked'
  <1>1. \A d \in Callers : d # c => Undisturbed(d)
    BY Others
  <1>2. CASE RequestPage(c) \/ SendCall(c)
    <2>1. PICK method \in {"tools/list", "tools/call"}, at \in Cursors, def \in Definition \cup {NotCalling},
               a \in PageAnswers \cup CallAnswers :
                   /\ Request(c, method, at, def, a)
                   /\ method = "tools/list" => a \in PageAnswers
                   /\ pc' = [pc EXCEPT ![c] = IF method = "tools/list" THEN "listing" ELSE "calling"]
      <3>1. CASE RequestPage(c)
        BY <3>1 DEF RequestPage, TypeOK, Cursors, Goto
      <3>2. CASE SendCall(c)
        BY <3>2 DEF SendCall, TypeOK, Cursors, Goto
      <3> QED
        BY <1>2, <3>1, <3>2
    <2> DEFINE n == Len(sent) + 1
    <2>2. /\ n \notin DOMAIN sent /\ DOMAIN sent' = DOMAIN sent \cup {n}
          /\ \A i \in DOMAIN sent : sent'[i] = sent[i]
          /\ id' = [id EXCEPT ![c] = n]
      BY <2>1, Sends
    <2>3. sent'[n] = [method |-> method, cursor |-> at, definition |-> def,
                      operation |-> operation[c], answer |-> a]
      BY <2>1, Sends
    <2> HIDE DEF n
    <2>4. UNCHANGED <<accepted, operation>>
      BY <1>2 DEF RequestPage, SendCall
    <2>5. pc \in [Callers -> Labels] /\ id \in [Callers -> Nat] /\ <<n, n>> \notin accepted
      BY <2>2 DEF TypeOK
    <2>6. \A i \in DOMAIN sent' : sent'[i].method = "tools/list" => sent'[i].answer \in PageAnswers
      BY <2>1, <2>2, <2>3 DEF Asked
    <2>7. \A i \in DOMAIN sent' : <<i, i>> \in accepted' => sent'[i].answer # NoAnswer
      BY <2>2, <2>4, <2>5 DEF Asked
    <2>8. ASSUME NEW d \in Callers, Waiting(d)'
          PROVE  /\ id'[d] \in DOMAIN sent' /\ sent'[id'[d]].operation = operation'[d]
                 /\ sent'[id'[d]].method = IF pc'[d] = "listing" THEN "tools/list" ELSE "tools/call"
      <3>1. CASE d = c
        BY <2>1, <2>2, <2>3, <2>4, <2>5, <3>1
      <3>2. CASE d # c
        BY <1>1, <2>2, <2>8, <3>2 DEF Undisturbed, Waiting, Asked
      <3> QED
        BY <3>1, <3>2
    <2> QED
      BY <2>6, <2>7, <2>8 DEF Asked
  <1>3. CASE ~(RequestPage(c) \/ SendCall(c))
    <2>1. UNCHANGED sent /\ \A i \in DOMAIN sent : <<i, i>> \in accepted' => sent[i].answer # NoAnswer
      <3>1. CASE TakePage(c) \/ TakeResult(c)
        <4>1. Waiting(c) /\ UNCHANGED sent /\ \E j \in acceptable(c) : Accept(c, j)
          BY <3>1 DEF TakePage, TakeResult, Waiting
        <4>2. PICK j \in acceptable(c) : accepted' = accepted \cup {<<id[c], j>>}
          BY <4>1 DEF Accept
        <4>3. j = id[c] /\ sent[j].answer # NoAnswer
          BY <4>1, OwnAnswer
        <4> QED
          BY <4>1, <4>2, <4>3 DEF Asked
      <3>2. CASE ~(TakePage(c) \/ TakeResult(c))
        <4>1. UNCHANGED <<sent, accepted>>
          BY <1>3, <3>2 DEF Step, OwnStep, BeginList, BeginCall, TooManyPages, BadArguments, RequestFails, ReplaceTools
        <4> QED
          BY <4>1 DEF Asked
      <3> QED
        BY <3>1, <3>2
    <2>2. ~Waiting(c)' \/ Undisturbed(c)
      <3>1. CASE Return(c)
        BY <3>1, Returned DEF Waiting
      <3>2. CASE ~Return(c)
        BY <1>3, <3>2 DEF Step, OwnStep, TooManyPages, BadArguments, RequestFails, ReplaceTools, TakeResult,
            TakePage, BeginList, BeginCall, Begin, Enter, Goto, TypeOK, Waiting
      <3> QED
        BY <3>1, <3>2
    <2>3. \A d \in Callers : Waiting(d)' => Undisturbed(d)
      BY <1>1, <2>2
    <2> QED
      BY <2>1, <2>3 DEF Asked, Waiting, Undisturbed
  <1> QED
    BY <1>2, <1>3

LEMMA LimitedStep ==
    ASSUME TypeOK, Limited, NEW c \in Callers, Step(c)
    PROVE  Limited'
  <1>1. CASE RequestPage(c)
    BY <1>1 DEF RequestPage, Goto, Limited, TypeOK
  <1>2. CASE ~RequestPage(c)
    <2>1. pc'[c] # "listing" /\ \A d \in Callers : d # c => pc'[d] = pc[d] /\ page'[d] = page[d]
      <3>1. ASSUME Return(c) PROVE pc'[c] # "listing" /\ \A d \in Callers : d # c => pc'[d] = pc[d] /\ page'[d] = page[d]
        BY <3>1 DEF Return, Goto, TypeOK
      <3>2. CASE Return(c)
        BY <3>1, <3>2
      <3>3. CASE ~Return(c)
        BY <1>2, <3>3 DEF Step, OwnStep, TooManyPages, BadArguments, RequestFails, ReplaceTools, TakeResult,
            TakePage, SendCall, BeginList, BeginCall, Begin, Enter, Goto, TypeOK
      <3> QED
        BY <3>2, <3>3
    <2> QED
      BY <2>1 DEF Limited
  <1> QED
    BY <1>1, <1>2

LEMMA ClearedStep ==
    ASSUME TypeOK, Cleared, NEW c \in Callers, Step(c)
    PROVE  Cleared'
  <1>1. \A d \in Callers : d # c => Undisturbed(d)
    BY Others
  <1>2. pc'[c] = "idle" => cursor'[c] = NoCursor /\ all'[c] = {}
    <2>1. CASE Return(c)
      BY <2>1 DEF Return, TypeOK
    <2>2. CASE ~Return(c)
      BY <2>2 DEF Step, OwnStep, TooManyPages, BadArguments, RequestFails, ReplaceTools, TakeResult,
          TakePage, RequestPage, SendCall, BeginList, BeginCall, Begin, Enter, Goto, TypeOK, Cleared
    <2> QED
      BY <2>1, <2>2
  <1> QED
    BY <1>1, <1>2 DEF Undisturbed, Cleared

LEMMA AnswersStep ==
    ASSUME TypeOK, Asked, AnswersOwn, NEW c \in Callers, Step(c)
    PROVE  AnswersOwn'
  BY RequestKinds DEF AnswersOwn

(***************************************************************************)
(* What a listing asks for, and what it leaves behind.                     *)
(***************************************************************************)
LEMMA PageRequested ==
    ASSUME TypeOK, NEW c \in Callers, RequestPage(c)
    PROVE  \E n \in Nat \ {0} :
            /\ n \notin DOMAIN sent /\ DOMAIN sent' = DOMAIN sent \cup {n} /\ \A i \in DOMAIN sent : i < n
            /\ \A i \in DOMAIN sent : sent'[i] = sent[i]
            /\ sent'[n].method = "tools/list" /\ sent'[n].operation = operation[c] /\ sent'[n].cursor = cursor[c]
            /\ pc[c] = "paging" /\ pc'[c] = "listing" /\ id'[c] = n
            /\ UNCHANGED <<tools, begun, operation, cursor, seenCursors, all, definition, accepted, replaced>>
  <1>1. PICK a \in PageAnswers : Request(c, "tools/list", cursor[c], NotCalling, a)
    BY DEF RequestPage
  <1>2. cursor[c] \in Cursors /\ NotCalling \in Definition \cup {NotCalling} /\ a \in PageAnswers \cup CallAnswers
    BY DEF TypeOK, Cursors
  <1> DEFINE n == Len(sent) + 1
  <1>3. /\ n \in Nat \ {0} /\ n \notin DOMAIN sent /\ DOMAIN sent' = DOMAIN sent \cup {n}
        /\ \A i \in DOMAIN sent : sent'[i] = sent[i]
        /\ id' = [id EXCEPT ![c] = n]
    BY <1>1, <1>2, Sends
  <1>4. sent'[n] = [method |-> "tools/list", cursor |-> cursor[c], definition |-> NotCalling,
                    operation |-> operation[c], answer |-> a]
    BY <1>1, <1>2, Sends
  <1>5. \A i \in DOMAIN sent : i < n
    BY DEF TypeOK
  <1> HIDE DEF n
  <1>6. id'[c] = n /\ pc[c] = "paging" /\ pc'[c] = "listing"
    BY <1>3 DEF RequestPage, Goto, TypeOK
  <1> QED
    BY <1>3, <1>4, <1>5, <1>6 DEF RequestPage

LEMMA CallSent ==
    ASSUME TypeOK, NEW c \in Callers, SendCall(c)
    PROVE  \E n \in Nat \ {0} :
            /\ n \notin DOMAIN sent /\ DOMAIN sent' = DOMAIN sent \cup {n}
            /\ \A i \in DOMAIN sent : sent'[i] = sent[i]
            /\ sent'[n].method = "tools/call" /\ sent'[n].operation = operation[c]
            /\ sent'[n].definition = definition[c]
            /\ pc[c] = "preparing" /\ pc'[c] = "calling"
            /\ UNCHANGED <<tools, begun, operation, cursor, seenCursors, all, definition, accepted, replaced>>
  <1>1. PICK a \in CallAnswers : Request(c, "tools/call", NoCursor, definition[c], a)
    BY DEF SendCall
  <1>2. NoCursor \in Cursors /\ definition[c] \in Definition \cup {NotCalling} /\ a \in PageAnswers \cup CallAnswers
    BY DEF TypeOK, Cursors
  <1> DEFINE n == Len(sent) + 1
  <1>3. /\ n \in Nat \ {0} /\ n \notin DOMAIN sent /\ DOMAIN sent' = DOMAIN sent \cup {n}
        /\ \A i \in DOMAIN sent : sent'[i] = sent[i]
    BY <1>1, <1>2, Sends
  <1>4. sent'[n] = [method |-> "tools/call", cursor |-> NoCursor, definition |-> definition[c],
                    operation |-> operation[c], answer |-> a]
    BY <1>1, <1>2, Sends
  <1> HIDE DEF n
  <1>6. pc[c] = "preparing" /\ pc'[c] = "calling"
    BY DEF SendCall, Goto, TypeOK
  <1> QED
    BY <1>3, <1>4, <1>6 DEF SendCall

LEMMA LiveOperation ==
    ASSUME TypeOK, Owned, NEW c \in Callers, pc[c] # "idle"
    PROVE  operation[c] \in 1..begun
  BY DEF TypeOK, Owned

LEMMA NoPageTwiceStep ==
    ASSUME TypeOK, Owned, Asked, Progress, NoPageTwice, NEW c \in Callers, Step(c)
    PROVE  NoPageTwice'
  <1>1. CASE RequestPage(c)
    <2>1. PICK n \in Nat \ {0} :
            /\ DOMAIN sent' = DOMAIN sent \cup {n}
            /\ \A i \in DOMAIN sent : sent'[i] = sent[i]
            /\ sent'[n].method = "tools/list" /\ sent'[n].operation = operation[c] /\ sent'[n].cursor = cursor[c]
            /\ pc[c] = "paging"
      BY <1>1, PageRequested
    <2>2. PICK op \in 1..begun : op = operation[c]
      BY <2>1, LiveOperation
    <2>3. Collected(c, op) /\ Onward(c, op)
      BY <2>1, <2>2 DEF Progress, Listing
    <2>4. \A i \in DOMAIN sent : sent[i].operation = op => sent[i].cursor # cursor[c]
      BY <2>1, <2>3 DEF Collected, Onward
    <2> QED
      BY <2>1, <2>2, <2>4 DEF NoPageTwice
  <1>2. CASE SendCall(c)
    <2>1. PICK n \in Nat \ {0} :
            /\ DOMAIN sent' = DOMAIN sent \cup {n}
            /\ \A i \in DOMAIN sent : sent'[i] = sent[i]
            /\ sent'[n].method = "tools/call"
      BY <1>2, CallSent
    <2> QED
      BY <2>1 DEF NoPageTwice
  <1>3. CASE ~(RequestPage(c) \/ SendCall(c))
    <2>1. UNCHANGED sent
      BY <1>3, RequestKinds
    <2> QED
      BY <2>1 DEF NoPageTwice
  <1> QED
    BY <1>1, <1>2, <1>3

(* The listing that replaces the catalogue was a whole one.                *)
LEMMA ReplacedStep ==
    ASSUME TypeOK, Owned, Asked, Progress, Replaced, NEW c \in Callers, Step(c)
    PROVE  Replaced'
  <1>1. \A d \in Callers : d # c => operation'[d] = operation[d]
    BY Others DEF Undisturbed
  <1>2. begun \in Nat /\ operation \in [Callers -> 0..begun]
    BY DEF TypeOK
  <1>3. \/ operation'[c] = 0 /\ begun' = begun
        \/ operation'[c] = operation[c] /\ begun' \in {begun, begun + 1}
        \/ operation'[c] = begun + 1 /\ begun' = begun + 1
    BY OwnPlace, Returned
  <1>4. ASSUME NEW l \in replaced
        PROVE  /\ l.operation \in 1..begun' /\ l.begun \in l.operation..begun'
               /\ \A d \in Callers : operation'[d] # l.operation
               /\ whole(l.operation)' /\ wellDefined(offered(l.operation))'
    <2>1. PICK op \in 1..begun : op = l.operation
      BY DEF Replaced
    <2>2. op # operation[c] /\ whole(op) /\ wellDefined(offered(op)) /\ l.begun \in op..begun
          /\ \A d \in Callers : operation[d] # op
      BY <2>1 DEF Replaced
    <2>3. Extended(op)
      BY <2>2, Elsewhere
    <2>4. whole(op)' /\ offered(op)' = offered(op)
      BY <2>2, <2>3, SameListing
    <2>5. wellDefined(offered(op))'
      BY <2>2, <2>4 DEF wellDefined
    <2>6. \A d \in Callers : operation'[d] # op
      BY <1>1, <1>2, <1>3, <2>2
    <2>7. l.operation \in 1..begun' /\ l.begun \in l.operation..begun'
      BY <1>2, <1>3, <2>1, <2>2
    <2> QED
      BY <2>1, <2>4, <2>5, <2>6, <2>7
  <1>5. CASE ReplaceTools(c)
    <2>1. /\ pc[c] = "replacing" /\ Return(c) /\ UNCHANGED <<begun, sent, accepted>>
          /\ replaced' = replaced \cup {[operation |-> operation[c], begun |-> begun]}
      BY <1>5 DEF ReplaceTools
    <2>2. PICK op \in 1..begun : op = operation[c]
      BY <2>1, LiveOperation
    <2>3. whole(op) /\ wellDefined(offered(op))
      BY <2>1, <2>2 DEF Progress, Listing, Collected
    <2>4. Extended(op)
      BY <2>1 DEF Extended
    <2>5. whole(op)' /\ offered(op)' = offered(op)
      BY <2>3, <2>4, SameListing
    <2>6. wellDefined(offered(op))'
      BY <2>3, <2>5 DEF wellDefined
    <2>7. operation'[c] = 0
      BY <2>1, Returned
    <2>8. \A d \in Callers : operation'[d] # op
      BY <1>1, <2>2, <2>7, <1>2 DEF Owned
    <2>9. op \in 1..begun' /\ begun \in op..begun'
      BY <2>1, <1>2
    <2>10. ASSUME NEW l \in replaced', l \notin replaced
           PROVE  /\ l.operation \in 1..begun' /\ l.begun \in l.operation..begun'
                  /\ \A d \in Callers : operation'[d] # l.operation
                  /\ whole(l.operation)' /\ wellDefined(offered(l.operation))'
      <3>1. l.operation = op /\ l.begun = begun
        BY <2>1, <2>2, <2>10
      <3> QED
        BY <2>5, <2>6, <2>8, <2>9, <3>1
    <2> QED
      BY <1>4, <2>10 DEF Replaced
  <1>6. CASE ~ReplaceTools(c)
    <2>1. UNCHANGED replaced
      BY <1>6 DEF Step, OwnStep, BeginList, BeginCall, TooManyPages, BadArguments, RequestFails, RequestPage,
          SendCall, TakePage, TakeResult
    <2> QED
      BY <1>4, <2>1 DEF Replaced
  <1> QED
    BY <1>5, <1>6

(* The catalogue is that of a replaced listing, and those keep their pages.*)
LEMMA StillOffered ==
    ASSUME TypeOK, Asked, Replaced, NEW c \in Callers, Step(c), NEW l \in replaced
    PROVE  offered(l.operation)' = offered(l.operation)
  <1>1. PICK op : op = l.operation
    OBVIOUS
  <1>2. op # operation[c]
    BY <1>1 DEF Replaced
  <1>3. offered(op)' = offered(op)
    BY <1>2, Elsewhere, SameListing
  <1> QED
    BY <1>1, <1>3

LEMMA ReplaceFacts ==
    ASSUME TypeOK, Owned, Asked, Progress, NEW c \in Callers, ReplaceTools(c)
    PROVE  \E l \in replaced' : l.begun = begun /\ tools' = offered(l.operation)' /\ replaced' = replaced \cup {l}
  <1>1. /\ pc[c] = "replacing" /\ tools' = all[c] /\ UNCHANGED <<sent, accepted>>
        /\ replaced' = replaced \cup {[operation |-> operation[c], begun |-> begun]}
    BY DEF ReplaceTools, catalogue
  <1>2. PICK op \in 1..begun : op = operation[c]
    BY <1>1, LiveOperation
  <1>3. all[c] = offered(op)
    BY <1>1, <1>2 DEF Progress, Listing, Collected
  <1>4. offered(op)' = offered(op)
    BY <1>1, SameListing DEF Extended
  <1>5. PICK l \in replaced' : l = [operation |-> op, begun |-> begun]
    BY <1>1, <1>2
  <1>6. l.operation = op /\ l.begun = begun
    BY <1>5
  <1> QED
    BY <1>1, <1>2, <1>3, <1>4, <1>5, <1>6

LEMMA LatestStep ==
    ASSUME TypeOK, Owned, Asked, Progress, Replaced, Latest, NEW c \in Callers, Step(c)
    PROVE  Latest'
  <1>1. CASE ReplaceTools(c)
    <2>1. PICK l \in replaced' : l.begun = begun /\ tools' = offered(l.operation)' /\ replaced' = replaced \cup {l}
      BY <1>1, ReplaceFacts
    <2>2. \A m \in replaced' : m.begun <= l.begun
      BY <2>1 DEF Replaced, TypeOK
    <2> QED
      BY <2>1, <2>2 DEF Latest
  <1>2. CASE ~ReplaceTools(c)
    <2>1. UNCHANGED <<tools, replaced>>
      BY <1>2 DEF Step, OwnStep, BeginList, BeginCall, TooManyPages, BadArguments, RequestFails, RequestPage,
          SendCall, TakePage, TakeResult
    <2> QED
      BY <2>1, StillOffered DEF Latest
  <1> QED
    BY <1>1, <1>2

(* What a call may be made from it may be made from later: a listing that  *)
(* ends after the call began is none it had to know of.                    *)
LEMMA StillCurrent ==
    ASSUME TypeOK, Owned, Asked, Progress, Replaced, NEW c \in Callers, Step(c),
           NEW def, NEW op \in 0..begun, current(def, op)
    PROVE  current(def, op)'
  <1>1. PICK l \in replaced : /\ def \in offered(l.operation)
                              /\ ~\E m \in replaced : endedBefore(l, m.operation) /\ endedBefore(m, op)
    BY DEF current
  <1>2. def \in offered(l.operation)'
    BY <1>1, StillOffered
  <1>3. CASE ReplaceTools(c)
    <2>1. PICK k \in replaced' : k.begun = begun /\ replaced' = replaced \cup {k}
      BY <1>3, ReplaceFacts
    <2>2. ~endedBefore(k, op)
      BY <2>1 DEF endedBefore, TypeOK
    <2> QED
      BY <1>1, <1>2, <2>1, <2>2 DEF current, endedBefore
  <1>4. CASE ~ReplaceTools(c)
    <2>1. UNCHANGED replaced
      BY <1>4 DEF Step, OwnStep, BeginList, BeginCall, TooManyPages, BadArguments, RequestFails, RequestPage,
          SendCall, TakePage, TakeResult
    <2> QED
      BY <1>1, <1>2, <2>1 DEF current, endedBefore
  <1> QED
    BY <1>3, <1>4

(* A definition that is in the catalogue is of the last listing to end.    *)
LEMMA LookedUp ==
    ASSUME TypeOK, Replaced, Latest, NEW def \in tools, NEW op
    PROVE  current(def, op)
  <1>1. PICK l \in replaced : tools = offered(l.operation) /\ \A m \in replaced : m.begun <= l.begun
    BY DEF Latest
  <1>2. ASSUME NEW m \in replaced PROVE ~endedBefore(l, m.operation)
    <2>0. begun \in Nat /\ \A k \in replaced : k.operation \in 1..begun /\ k.begun \in k.operation..begun
      BY DEF Replaced, TypeOK
    <2>1. m.begun \in Nat /\ l.begun \in Nat /\ m.operation \in Nat /\ m.operation <= m.begun
      BY <2>0
    <2> QED
      BY <1>1, <2>1 DEF endedBefore
  <1> QED
    BY <1>1, <1>2 DEF current

LEMMA CurrentStep ==
    ASSUME TypeOK, Owned, Asked, Progress, Replaced, Latest, Current, NEW c \in Callers, Step(c)
    PROVE  Current'
  <1>1. \A d \in Callers : d # c => Undisturbed(d)
    BY Others
  <1>2. ASSUME NEW d \in Callers, pc'[d] = "preparing"
        PROVE  current(definition[d], operation[d])'
    <2>1. CASE Undisturbed(d)
      <3>0. PICK def : def = definition[d]
        OBVIOUS
      <3>1. PICK op \in 0..begun : def = definition[d] /\ op = operation[d]
        BY <3>0 DEF TypeOK
      <3>2. current(def, op)
        BY <1>2, <2>1, <3>1 DEF Undisturbed, Current
      <3>3. current(def, op)'
        BY <3>2, StillCurrent
      <3>4. def = definition'[d] /\ op = operation'[d]
        BY <2>1, <3>1 DEF Undisturbed
      <3> QED
        BY <3>3, <3>4 DEF current
    <2>2. CASE ~Undisturbed(d)
      <3>1. d = c
        BY <1>1, <2>2
      <3>2. ~Return(c)
        BY <1>2, <3>1, Returned
      <3>3. PICK name \in ToolNames : BeginCall(c, name)
        BY <1>2, <2>2, <3>1, <3>2 DEF Step, OwnStep, TooManyPages, BadArguments, RequestFails, ReplaceTools, TakeResult,
           TakePage, RequestPage, SendCall, BeginList, Enter, Goto, TypeOK
      <3>4. PICK def \in tools : definition'[c] = def
        BY <1>2, <2>2, <3>1, <3>3 DEF BeginCall, TypeOK, Undisturbed
      <3>5. UNCHANGED <<replaced, sent, accepted>>
        BY <3>3 DEF BeginCall
      <3>6. PICK op : op = operation'[c]
        OBVIOUS
      <3>7. current(def, op)
        BY LookedUp
      <3>8. \A l \in replaced : offered(l.operation)' = offered(l.operation)
        BY StillOffered
      <3>9. current(def, op)'
        BY <3>5, <3>7, <3>8 DEF current, endedBefore
      <3> QED
        BY <3>1, <3>4, <3>6, <3>9 DEF current
    <2> QED
      BY <2>1, <2>2
  <1>3. ASSUME NEW i \in DOMAIN sent', sent'[i].method = "tools/call"
        PROVE  current(sent[i].definition, sent[i].operation)'
    <2>1. ASSUME NEW def, NEW op \in 0..begun, current(def, op),
                 def = sent'[i].definition, op = sent'[i].operation
          PROVE  current(sent[i].definition, sent[i].operation)'
      <3>1. current(def, op)'
        BY <2>1, StillCurrent
      <3> QED
        BY <2>1, <3>1 DEF current
    <2>2. CASE i \in DOMAIN sent
      <3>1. sent'[i] = sent[i]
        BY <2>2, RequestKinds
      <3>2. current(sent[i].definition, sent[i].operation) /\ sent[i].operation \in 0..begun
        BY <1>3, <2>2, <3>1 DEF Current, Owned, TypeOK
      <3> QED
        BY <2>1, <3>1, <3>2
    <2>3. CASE i \notin DOMAIN sent
      <3>1. ~RequestPage(c)
        BY <1>3, <2>3, PageRequested
      <3>2. SendCall(c)
        BY <2>3, <3>1, RequestKinds
      <3>0. PICK n \in Nat \ {0} :
                /\ DOMAIN sent' = DOMAIN sent \cup {n}
                /\ sent'[n].operation = operation[c] /\ sent'[n].definition = definition[c]
                /\ pc[c] = "preparing"
        BY <3>2, CallSent
      <3>3. sent'[i].operation = operation[c] /\ sent'[i].definition = definition[c] /\ pc[c] = "preparing"
        BY <2>3, <3>0
      <3>4. current(definition[c], operation[c]) /\ operation[c] \in 0..begun
        BY <3>3 DEF Current, TypeOK
      <3> QED
        BY <2>1, <3>3, <3>4
    <2> QED
      BY <2>2, <2>3
  <1> QED
    BY <1>2, <1>3 DEF Current

(***************************************************************************)
(* A listing under way.                                                    *)
(***************************************************************************)
Going(c, op) ==
    /\ Listing(c) => Collected(c, op)
    /\ pc[c] \in {"paging", "listing"} => Onward(c, op)
    /\ pc[c] = "listing" => Expected(c, op)
    /\ pc[c] = "replacing" => whole(op)

(* The steps of other callers leave it as it is.                           *)
LEMMA GoesOn ==
    ASSUME NEW d \in Callers, NEW op, Going(d, op), Undisturbed(d), Extended(op),
           pc[d] = "listing" => id[d] \in DOMAIN sent
    PROVE  Going(d, op)'
  <1>1. pagesOf(op)' = pagesOf(op) /\ \A i \in pagesOf(op) : i \in DOMAIN sent /\ sent'[i] = sent[i]
    BY SamePages
  <1>2. offered(op)' = offered(op) /\ (whole(op) => whole(op)')
    BY SameListing
  <1>3. Listing(d)' => Collected(d, op)'
    <2>1. ASSUME NEW i \in DOMAIN sent', sent'[i].operation = op PROVE i \in DOMAIN sent /\ sent[i].operation = op
      BY <2>1 DEF Extended
    <2> QED
      BY <1>1, <1>2, <2>1 DEF Going, Listing, Undisturbed, Collected, wellDefined
  <1>4. pc'[d] \in {"paging", "listing"} => Onward(d, op)'
    BY <1>1 DEF Going, Undisturbed, Onward, partial
  <1>5. pc'[d] = "listing" => Expected(d, op)'
    BY <1>1 DEF Going, Undisturbed, Expected, Extended
  <1> QED
    BY <1>2, <1>3, <1>4, <1>5 DEF Going, Undisturbed

(* It begins with nothing asked for.                                       *)
LEMMA GoingFirst ==
    ASSUME TypeOK, Owned, Cleared, NEW c \in Callers, BeginList(c), NEW op, op = operation'[c]
    PROVE  Going(c, op)'
  <1>1. /\ pc'[c] = "paging" /\ op = begun + 1 /\ pc[c] = "idle" /\ begun \in Nat
        /\ UNCHANGED <<cursor, seenCursors, all, sent, accepted>>
    BY DEF BeginList, Begin, Enter, Goto, TypeOK
  <1>2. cursor'[c] = NoCursor /\ all'[c] = {}
    BY <1>1 DEF Cleared
  <1>3. \A i \in DOMAIN sent : sent[i].operation # op
    BY <1>1 DEF Owned
  <1>4. pagesOf(op)' = {}
    BY <1>1, <1>3 DEF pagesOf
  <1>5. Collected(c, op)'
    BY <1>1, <1>2, <1>3, <1>4 DEF Collected, offered, advertised, wellDefined
  <1>6. Onward(c, op)'
    BY <1>2, <1>4 DEF Onward, partial
  <1> QED
    BY <1>1, <1>5, <1>6 DEF Going

(* It asks for the page at its cursor.                                     *)
LEMMA GoingAsks ==
    ASSUME TypeOK, NEW c \in Callers, RequestPage(c), NEW op, op = operation[c], Going(c, op)
    PROVE  Going(c, op)'
  <1>1. PICK n \in Nat \ {0} :
            /\ n \notin DOMAIN sent /\ DOMAIN sent' = DOMAIN sent \cup {n} /\ \A i \in DOMAIN sent : i < n
            /\ \A i \in DOMAIN sent : sent'[i] = sent[i]
            /\ sent'[n].method = "tools/list" /\ sent'[n].operation = operation[c] /\ sent'[n].cursor = cursor[c]
            /\ pc[c] = "paging" /\ pc'[c] = "listing" /\ id'[c] = n
            /\ UNCHANGED <<tools, begun, operation, cursor, seenCursors, all, definition, accepted, replaced>>
    BY PageRequested
  <1>2. <<n, n>> \notin accepted
    BY <1>1 DEF TypeOK
  <1>3. /\ pagesOf(op)' = pagesOf(op)
        /\ \A i \in pagesOf(op) : i \in DOMAIN sent /\ sent'[i] = sent[i]
    BY <1>1, <1>2 DEF pagesOf
  <1>4. Collected(c, op) /\ Onward(c, op)
    BY <1>1 DEF Going, Listing
  <1>5. offered(op)' = offered(op)
    BY <1>3 DEF offered, advertised
  <1>6. Collected(c, op)'
    <2>1. \A i \in DOMAIN sent' : sent'[i].operation = op => i \in pagesOf(op) \/ i = n
      BY <1>1, <1>4 DEF Collected
    <2> QED
      BY <1>1, <1>3, <1>4, <1>5, <2>1 DEF Collected, wellDefined
  <1>7. Onward(c, op)'
    BY <1>1, <1>3, <1>4 DEF Onward, partial
  <1>8. Expected(c, op)'
    BY <1>1, <1>3 DEF Expected
  <1> QED
    BY <1>1, <1>6, <1>7, <1>8 DEF Going

(* It takes that page: the listing is whole, or goes on after it.          *)
LEMMA GoingTakes ==
    ASSUME TypeOK, Asked, NEW c \in Callers, TakePage(c), ~Return(c),
           NEW op, op = operation[c], Going(c, op)
    PROVE  Going(c, op)'
  <1>1. PICK j \in acceptable(c) :
            /\ Accept(c, j)
            /\ LET p == sent[j].answer.page IN
               /\ goodPage(p, all[c]) /\ ~repeated(c, p.next)
               /\ all' = [all EXCEPT ![c] = @ \cup definitions(p)]
               /\ cursor' = [cursor EXCEPT ![c] = p.next]
               /\ seenCursors' = [seenCursors EXCEPT ![c] = @ \cup ({p.next} \ {NoCursor})]
               /\ Goto(c, IF p.next = NoCursor THEN "replacing" ELSE "paging")
    BY DEF TakePage
  <1>2. pc[c] = "listing" /\ UNCHANGED sent
    BY DEF TakePage
  <1> DEFINE n == id[c]
             p == sent[n].answer.page
             ids == pagesOf(op)
  <1>3. j = n /\ n \in DOMAIN sent
    BY <1>2, OwnPage
  <1>4. sent[n].operation = op /\ sent[n].method = "tools/list"
    BY <1>2 DEF Asked, Waiting
  <1>5. pagesOf(op)' = ids \cup {n}
    <2>1. accepted' = accepted \cup {<<n, n>>}
      BY <1>1, <1>3 DEF Accept
    <2> QED
      BY <1>2, <1>3, <1>4, <2>1 DEF pagesOf
  <1>6. /\ all'[c] = all[c] \cup definitions(p) /\ cursor'[c] = p.next
        /\ seenCursors'[c] = seenCursors[c] \cup ({p.next} \ {NoCursor})
        /\ pc'[c] = IF p.next = NoCursor THEN "replacing" ELSE "paging"
    BY <1>1, <1>3 DEF Goto, TypeOK
  <1>7. goodPage(p, all[c]) /\ p.next \notin seenCursors[c]
    BY <1>1, <1>3 DEF repeated
  <1>8. Collected(c, op) /\ Onward(c, op) /\ Expected(c, op)
    BY <1>2 DEF Going, Listing
  <1>9. ids \subseteq DOMAIN sent /\ n \in Nat /\ \A i \in ids : i \in Nat /\ i < n
    BY <1>3, <1>8 DEF TypeOK, pagesOf, Expected
  <1>10. \A d \in definitions(p) : \E i \in keep(p) : d = p.tools[i]
    BY DEF definitions
  <1> HIDE DEF n, p, ids
  <1>11. Collected(c, op)'
    <2>1. offered(op)' = all[c] \cup definitions(p)
      BY <1>2, <1>5, <1>8 DEF Collected, offered, advertised, ids, p
    <2>2. wellDefined(all[c] \cup definitions(p))
      BY <1>7, <1>8, <1>10 DEF goodPage, Collected, wellDefined
    <2>3. \A i \in DOMAIN sent : sent[i].operation = op => i \in ids \cup {n}
      BY <1>8 DEF Collected, ids, n
    <2>4. \A i \in ids \cup {n} : sent[i].cursor \in seenCursors'[c] \cup {NoCursor}
      BY <1>6, <1>8 DEF Collected, Onward, Expected, ids, n
    <2>5. wellDefined(all[c])'
      BY <1>6, <2>2 DEF wellDefined
    <2> QED
      BY <1>2, <1>5, <1>6, <2>1, <2>3, <2>4, <2>5 DEF Collected
  <1>12. \A i \in ids \cup {n} : sent[i].cursor = NoCursor <=> \A k \in ids \cup {n} : i <= k
    <2>1. sent[n].cursor = NoCursor <=> ids = {}
      BY <1>8 DEF Expected, Onward, ids, n
    <2>2. \A i \in ids : sent[i].cursor = NoCursor <=> \A k \in ids : i <= k
      BY <1>8 DEF Onward, partial, ids
    <2> QED
      BY <1>9, <2>1, <2>2
  <1>13. \A i \in ids : /\ sent[i].answer.page.next # NoCursor
                        /\ \E k \in ids \cup {n} : k > i /\ sent[k].cursor = sent[i].answer.page.next
    BY <1>8, <1>9 DEF Onward, Expected, partial, ids, n
  <1>14. CASE p.next = NoCursor
    <2>1. wholeListing(ids \cup {n})
      BY <1>9, <1>12, <1>13, <1>14 DEF wholeListing, p
    <2>2. whole(op)'
      BY <1>2, <1>5, <2>1 DEF whole, wholeListing
    <2> QED
      BY <1>6, <1>11, <1>14, <2>2 DEF Going
  <1>15. CASE p.next # NoCursor
    <2>1. partial(ids \cup {n}, p.next)
      BY <1>9, <1>12, <1>13, <1>15 DEF partial, p
    <2>2. \A i \in ids \cup {n} : sent[i].cursor # p.next
      BY <1>7, <1>8, <1>15 DEF Collected, Onward, Expected, ids, n
    <2>3. Onward(c, op)'
      BY <1>2, <1>5, <1>6, <1>15, <2>1, <2>2 DEF Onward, partial
    <2> QED
      BY <1>6, <1>11, <1>15, <2>3 DEF Going
  <1> QED
    BY <1>14, <1>15

LEMMA ProgressStep ==
    ASSUME TypeOK, Owned, Asked, Cleared, Progress, NEW c \in Callers, Step(c)
    PROVE  Progress'
  <1>1. SUFFICES ASSUME NEW d \in Callers, NEW op \in 1..begun', operation'[d] = op
                 PROVE  Going(d, op)'
    BY DEF Progress, Going
  <1>2. operation[d] = op /\ pc[d] # "idle" => op \in 1..begun /\ Going(d, op)
    BY LiveOperation DEF Progress, Going
  <1>3. CASE d # c
    <2>1. Undisturbed(d)
      BY <1>3, Others
    <2>2. operation[d] = op /\ pc[d] # "idle"
      BY <1>1, <2>1 DEF Undisturbed, Owned
    <2>3. op # operation[c]
      BY <1>1, <1>3, <2>2 DEF Owned
    <2> QED
      BY <1>2, <2>1, <2>2, <2>3, Elsewhere, GoesOn DEF Asked, Waiting
  <1>4. CASE d = c
    <2>1. ~Return(c)
      BY <1>1, <1>4, Returned
    <2>2. CASE BeginList(c)
      BY <1>1, <1>4, <2>2, GoingFirst
    <2>3. CASE RequestPage(c)
      <3>1. operation[c] = op /\ pc[c] # "idle"
        BY <1>1, <1>4, <2>3 DEF RequestPage
      <3> QED
        BY <1>2, <1>4, <2>3, <3>1, GoingAsks
    <2>4. CASE TakePage(c)
      <3>1. operation[c] = op /\ pc[c] # "idle"
        BY <1>1, <1>4, <2>1, <2>4 DEF TakePage
      <3> QED
        BY <1>2, <1>4, <2>1, <2>4, <3>1, GoingTakes
    <2>5. CASE ~(BeginList(c) \/ RequestPage(c) \/ TakePage(c))
      <3>1. ~Listing(c)'
        BY <1>1, <2>1, <2>5, <1>4 DEF Step, OwnStep, TooManyPages, BadArguments, RequestFails, ReplaceTools, TakeResult,
           SendCall, BeginCall, Begin, Enter, Goto, TypeOK, Listing, Owned
      <3> QED
        BY <1>4, <3>1 DEF Going, Listing
    <2> QED
      BY <2>2, <2>3, <2>4, <2>5
  <1> QED
    BY <1>3, <1>4

(***************************************************************************)
(* The theorems.                                                           *)
(***************************************************************************)
IInv == TypeOK /\ Limited /\ Cleared /\ Inv

LEMMA InitialInv == Init => IInv
  <1> SUFFICES ASSUME Init PROVE IInv
    OBVIOUS
  <1>1. TypeOK
    BY McpAssumption DEF Init, TypeOK, Labels
  <1>2. Limited /\ Cleared /\ Owned /\ Asked /\ AnswersOwn /\ NoPageTwice
    BY DEF Init, Limited, Cleared, Owned, Asked, Waiting, AnswersOwn, NoPageTwice
  <1>3. Progress /\ Replaced /\ Latest /\ Current
    BY DEF Init, Progress, Replaced, Latest, Current
  <1> QED
    BY <1>1, <1>2, <1>3 DEF IInv, Inv

LEMMA InvariantStep == IInv /\ [Next]_vars => IInv'
  <1> SUFFICES ASSUME IInv, [Next]_vars PROVE IInv'
    OBVIOUS
  <1> USE DEF IInv, Inv
  <1>1. CASE UNCHANGED vars
    <2>1. /\ UNCHANGED <<nextID, tools, pc, begun, operation, id, page, cursor, seenCursors, all, definition>>
          /\ UNCHANGED <<sent, accepted, replaced>>
      BY <1>1 DEF vars
    <2>2. TypeOK' /\ Limited' /\ Cleared' /\ Owned' /\ Asked' /\ AnswersOwn' /\ NoPageTwice'
      BY <2>1 DEF TypeOK, Limited, Cleared, Owned, Asked, Waiting, AnswersOwn, NoPageTwice
    <2>3. \A op : offered(op)' = offered(op) /\ (whole(op) => whole(op)')
      BY <2>1, SameListing DEF Extended
    <2>4. Progress'
      <3>1. ASSUME NEW d \in Callers, NEW op \in 1..begun', operation'[d] = op PROVE Going(d, op)'
        BY <2>1, <3>1, GoesOn DEF Progress, Going, Undisturbed, Extended, Asked, Waiting
      <3> QED
        BY <3>1 DEF Progress, Going
    <2>5. Replaced' /\ Latest' /\ Current'
      BY <2>1, <2>3 DEF Replaced, Latest, Current, current, endedBefore, wellDefined
    <2> QED
      BY <2>2, <2>4, <2>5
  <1>2. ASSUME NEW c \in Callers, Step(c) PROVE IInv'
    <2>1. TypeOK'
      BY TypedStep
    <2>2. Limited' /\ Cleared' /\ Owned' /\ Asked' /\ AnswersOwn'
      BY <1>2, LimitedStep, ClearedStep, OwnedStep, AskedStep, AnswersStep
    <2>3. Progress' /\ NoPageTwice' /\ Replaced' /\ Latest' /\ Current'
      BY <1>2, ProgressStep, NoPageTwiceStep, ReplacedStep, LatestStep, CurrentStep
    <2> QED
      BY <2>1, <2>2, <2>3
  <1> QED
    BY <1>1, <1>2, Steps

LEMMA Invariance == Spec => []IInv
  BY InitialInv, InvariantStep, PTL DEF Spec

(* Every reachable state of a client is well typed: in particular no       *)
(* listing asks for more than the limit of pages (client.go:124).          *)
THEOREM Typed == Spec => []TypeOK
  BY Invariance, PTL DEF IInv

(* For any number of goroutines that share a client, no operation is given *)
(* the answer to another request (client.go:255, 335, 400).                *)
THEOREM OwnAnswers == Spec => []AnswersOwn
  BY Invariance, PTL DEF IInv, Inv

(* Whatever cursors a server hands out, a listing asks for no page twice   *)
(* (client.go:155-159).                                                    *)
THEOREM PagesOnce == Spec => []NoPageTwice
  BY Invariance, PTL DEF IInv, Inv

(* The catalogue is empty, or what one complete listing advertised, from   *)
(* its first page to its last, however listings overlap, fail or are given *)
(* up (client.go:119-163, 407).                                            *)
THEOREM WholeCatalogue == Spec => []CatalogueIsAListing
<1>1. IInv => CatalogueIsAListing
  <2> SUFFICES ASSUME IInv, tools # {}
               PROVE  /\ \E ids \in Listings : wholeListing(ids) /\ tools = advertised(ids)
                      /\ \A d, e \in tools : d.name = e.name => d = e
    BY DEF CatalogueIsAListing
  <2>1. PICK l \in replaced : tools = offered(l.operation)
    BY DEF IInv, Inv, Latest
  <2>2. l.operation \in 1..begun /\ whole(l.operation) /\ wellDefined(offered(l.operation))
    BY DEF IInv, Inv, Replaced
  <2>3. pagesOf(l.operation) \in Listings
    BY <2>2 DEF Listings
  <2> QED
    BY <2>1, <2>2, <2>3 DEF whole, offered, wellDefined
<1> QED
  BY <1>1, Invariance, PTL

(* A call is made only as a complete listing prescribes, and as the latest *)
(* one does unless listings overlapped (client.go:168-187, 407-415).       *)
THEOREM FreshCalls == Spec => []CallsAreFresh
<1>1. IInv => CallsAreFresh
  <2> SUFFICES ASSUME IInv, NEW i \in DOMAIN sent, sent[i].method = "tools/call"
               PROVE  \E l \in replaced :
                        /\ wholeListing(pagesOf(l.operation))
                        /\ sent[i].definition \in advertised(pagesOf(l.operation))
                        /\ sent[i].definition.class = "valid"
                        /\ ~\E m \in replaced : endedBefore(l, m.operation) /\ endedBefore(m, sent[i].operation)
    BY DEF CallsAreFresh
  <2>1. PICK l \in replaced :
            /\ sent[i].definition \in offered(l.operation)
            /\ ~\E m \in replaced : endedBefore(l, m.operation) /\ endedBefore(m, sent[i].operation)
    BY DEF IInv, Inv, Current, current
  <2>2. whole(l.operation) /\ wellDefined(offered(l.operation))
    BY DEF IInv, Inv, Replaced
  <2> QED
    BY <2>1, <2>2 DEF whole, offered, wellDefined
<1> QED
  BY <1>1, Invariance, PTL

(***************************************************************************)
(* An operation comes to its end.  That a caller is scheduled, and that a  *)
(* request ends, is left to fairness; that no server keeps an operation    *)
(* going is not: each step of it lowers what it may still do.              *)
(***************************************************************************)
Rest == [idle |-> 0, paging |-> 3, listing |-> 2, replacing |-> 1, preparing |-> 3, calling |-> 2]
toDo(c) == IF pc[c] = "idle" THEN 0 ELSE 2 * (MaxToolPages - page[c]) + Rest[pc[c]]

Lowers(c) == toDo(c)' < toDo(c)
Keeps(c) == toDo(c)' = toDo(c)

LEMMA Counted ==
    ASSUME TypeOK, NEW c \in Callers
    PROVE  /\ toDo(c) \in Nat /\ (pc[c] # "idle" => toDo(c) > 0)
           /\ page[c] \in 0..MaxToolPages /\ MaxToolPages \in Nat /\ pc[c] \in Labels
  <1>1. page[c] \in 0..MaxToolPages /\ MaxToolPages \in Nat /\ pc[c] \in Labels
    BY McpAssumption DEF TypeOK
  <1>2. Rest[pc[c]] \in Nat /\ (pc[c] # "idle" => Rest[pc[c]] > 0)
    BY <1>1 DEF Labels, Rest
  <1>3. 2 * (MaxToolPages - page[c]) \in Nat
    BY <1>1
  <1> QED
    BY <1>1, <1>2, <1>3 DEF toDo

(* A step to another label, perhaps one page on.                           *)
LEMMA Lowered ==
    ASSUME TypeOK, NEW c \in Callers, pc[c] # "idle", NEW label \in Labels \ {"idle"}, pc'[c] = label,
           NEW pages \in {0, 1}, page'[c] = page[c] + pages, Rest[label] < Rest[pc[c]] + 2 * pages
    PROVE  Lowers(c)
  <1>1. page[c] \in Nat /\ MaxToolPages \in Nat /\ pc[c] \in Labels
    BY Counted
  <1>2. Rest[label] \in Nat /\ Rest[pc[c]] \in Nat
    BY <1>1 DEF Labels, Rest
  <1>3. toDo(c) = 2 * (MaxToolPages - page[c]) + Rest[pc[c]]
    BY DEF toDo
  <1>4. toDo(c)' = 2 * (MaxToolPages - (page[c] + pages)) + Rest[label]
    BY DEF toDo
  <1>5. \A m, p, k, a, b \in Nat : a < b + 2 * k => 2 * (m - (p + k)) + a < 2 * (m - p) + b
    OBVIOUS
  <1> QED
    BY <1>1, <1>2, <1>3, <1>4, <1>5 DEF Lowers

LEMMA ReturnLowers ==
    ASSUME TypeOK, NEW c \in Callers, pc[c] # "idle", Return(c)
    PROVE  Lowers(c)
  <1>1. pc'[c] = "idle"
    BY DEF TypeOK, Return, Goto
  <1>2. toDo(c) > 0
    BY Counted
  <1>3. toDo(c)' = 0
    BY <1>1 DEF toDo
  <1> QED
    BY <1>2, <1>3 DEF Lowers

LEMMA OwnStepLowers ==
    ASSUME TypeOK, NEW c \in Callers, OwnStep(c)
    PROVE  Lowers(c)
  <1>1. CASE TooManyPages(c) \/ BadArguments(c) \/ RequestFails(c) \/ ReplaceTools(c) \/ TakeResult(c)
    BY <1>1, ReturnLowers DEF TooManyPages, BadArguments, RequestFails, ReplaceTools, TakeResult
  <1>2. CASE RequestPage(c)
    <2>1. pc[c] = "paging" /\ pc'[c] = "listing" /\ page'[c] = page[c] + 0
      BY <1>2, Counted DEF RequestPage, Goto, TypeOK
    <2>2. Rest["listing"] < Rest[pc[c]] + 2 * 0 /\ "listing" \in Labels \ {"idle"}
      BY <2>1 DEF Rest, Labels
    <2> QED
      BY <2>1, <2>2, Lowered
  <1>3. CASE SendCall(c)
    <2>1. pc[c] = "preparing" /\ pc'[c] = "calling" /\ page'[c] = page[c] + 0
      BY <1>3, Counted DEF SendCall, Goto, TypeOK
    <2>2. Rest["calling"] < Rest[pc[c]] + 2 * 0 /\ "calling" \in Labels \ {"idle"}
      BY <2>1 DEF Rest, Labels
    <2> QED
      BY <2>1, <2>2, Lowered
  <1>4. CASE TakePage(c)
    <2>1. pc[c] = "listing"
      BY <1>4 DEF TakePage
    <2>2. CASE Return(c)
      BY <2>1, <2>2, ReturnLowers
    <2>3. CASE ~Return(c)
      <3>1. PICK label \in {"replacing", "paging"} :
               pc' = [pc EXCEPT ![c] = label] /\ page' = [page EXCEPT ![c] = @ + 1]
        BY <1>4, <2>3 DEF TakePage, Goto
      <3>2. pc'[c] = label /\ page'[c] = page[c] + 1
        BY <3>1 DEF TypeOK
      <3>3. Rest[label] < Rest[pc[c]] + 2 * 1 /\ label \in Labels \ {"idle"}
        BY <2>1, <3>1 DEF Rest, Labels
      <3> QED
        BY <2>1, <3>2, <3>3, Lowered
    <2> QED
      BY <2>2, <2>3
  <1> QED
    BY <1>1, <1>2, <1>3, <1>4 DEF OwnStep

(* The steps of the others do not touch an operation.                      *)
LEMMA OthersKeep ==
    ASSUME TypeOK, [Next]_vars, NEW c \in Callers, pc[c] # "idle", ~OwnStep(c)
    PROVE  Keeps(c)
  <1>1. CASE UNCHANGED vars
    BY <1>1 DEF vars, toDo, Keeps
  <1>2. ASSUME NEW d \in Callers, d # c,
               BeginList(d) \/ (\E n \in ToolNames : BeginCall(d, n)) \/ OwnStep(d)
        PROVE  Keeps(c)
    <2>1. pc'[c] = pc[c] /\ page'[c] = page[c]
      BY <1>2
      DEF BeginList, BeginCall, Begin, Enter, OwnStep, RequestPage, TooManyPages, BadArguments, SendCall,
          RequestFails, TakePage, ReplaceTools, TakeResult, Return, Goto, TypeOK
    <2> QED
      BY <2>1 DEF toDo, Keeps
  <1>3. ~(BeginList(c) \/ \E n \in ToolNames : BeginCall(c, n))
    BY DEF BeginList, BeginCall, Begin
  <1> QED
    BY <1>1, <1>2, <1>3 DEF Next, Quiet

OperationsCounted == \A c \in Callers : toDo(c) \in Nat

OperationsAdvance ==
    \A c \in Callers :
        /\ pc[c] # "idle" => toDo(c)' <= toDo(c)
        /\ OwnStep(c) => toDo(c)' < toDo(c)

(* An operation is finite, whatever pages and cursors a server answers     *)
(* with and whatever the other callers do: what it may still do is a       *)
(* number, which every step of it lowers and nothing raises (124-163).     *)
THEOREM OperationsAreFinite ==
    Spec => []OperationsCounted /\ [][OperationsAdvance]_vars
  <1>1. TypeOK => OperationsCounted
    BY Counted DEF OperationsCounted
  <1>2. TypeOK /\ OperationsCounted /\ OperationsCounted' /\ [Next]_vars => OperationsAdvance
    <2> SUFFICES ASSUME TypeOK, OperationsCounted, OperationsCounted', [Next]_vars, NEW c \in Callers
                 PROVE  /\ pc[c] # "idle" => toDo(c)' <= toDo(c)
                        /\ OwnStep(c) => toDo(c)' < toDo(c)
      BY DEF OperationsAdvance
    <2>1. OwnStep(c) => toDo(c)' < toDo(c)
      BY OwnStepLowers DEF Lowers
    <2>2. pc[c] # "idle" /\ ~OwnStep(c) => toDo(c)' = toDo(c)
      BY OthersKeep DEF Keeps
    <2>3. toDo(c) \in Nat /\ toDo(c)' \in Nat
      BY DEF OperationsCounted
    <2>4. \A a, b \in Nat : a < b \/ a = b => a <= b
      OBVIOUS
    <2> QED
      BY <2>1, <2>2, <2>3, <2>4
  <1>3. Spec => []OperationsCounted
    BY <1>1, Typed, PTL
  <1>4. Spec => [][OperationsAdvance]_vars
    BY <1>1, <1>2, Typed, PTL DEF Spec
  <1> QED
    BY <1>3, <1>4
==============================================================================
