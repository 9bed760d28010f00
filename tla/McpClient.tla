----------------------------- MODULE McpClient -----------------------------
(***************************************************************************)
(* One MCP client used by several goroutines at once (mcp/client.go): the  *)
(* paginated discovery of ListTools, the catalogue it leaves behind, the   *)
(* calls that are made from that catalogue, and the request underneath     *)
(* both, with its JSON-RPC identifier and its JSON or SSE reply.           *)
(*                                                                         *)
(* The server and the network are external: a request is answered by any   *)
(* page or call result, changing from one request to the next, or never;   *)
(* what comes back on a connection may be an error, garbage, an answer to  *)
(* another request, or a stream that carries other messages first.  An     *)
(* answer that bears the identifier of a request is the answer to that     *)
(* request; an answer without one (a null identifier) may be any.          *)
(***************************************************************************)
EXTENDS Naturals, SequencesExt

CONSTANTS
    Callers,       \* goroutines that share the client
    Definition,    \* definitions: [name, headers, class]
    Pages,         \* tools/list results: [complete, tools, next]
    NoCursor,      \* the empty cursor
    MaxToolPages,  \* maxToolPages
    MaxOperations  \* bound: operations in all

VARIABLES
    nextID,     \* Client.nextID
    tools,      \* Client.tools: the definitions calls are made from
    pc,         \* where each caller is
    begun,      \* how many operations have begun
    operation,  \* which of them each caller is in, 0 for none
    id,         \* the identifier of its last request
    page,       \* ListTools: the page it is at
    cursor,     \* ListTools: the cursor it asks for next
    seenCursors,\* ListTools: the cursors it was given
    all,        \* ListTools: the definitions collected
    definition, \* CallTool: the definition looked up
    sent,       \* the requests, by identifier, each with the server's answer
    accepted,   \* history: for every reply taken, the request and the answer
    replaced    \* history: the listings that replaced the catalogue, each
                \* with the operations begun by then

listing == <<page, cursor, seenCursors, all>>
locals == <<operation, id, listing, definition>>
histories == <<accepted, replaced>>
vars == <<nextID, tools, pc, begun, locals, sent, histories>>

Labels == {"idle", "paging", "listing", "replacing", "preparing", "calling"}
NotCalling == [name |-> "", headers |-> "", class |-> "none"]
NoAnswer == [tag |-> "none"]
PageAnswer(p) == [tag |-> "page", page |-> p]
CallAnswer == [tag |-> "call"]
PageAnswers == {NoAnswer} \cup {PageAnswer(p) : p \in Pages}
CallAnswers == {NoAnswer, CallAnswer}

ASSUME McpAssumption ==
    /\ \A d \in Definition : d.class \in {"valid", "badHeader", "invalid"}
    /\ \A p \in Pages : p.complete \in BOOLEAN /\ p.tools \in Seq(Definition)
    /\ MaxToolPages \in Nat \ {0}
    /\ MaxOperations \in Nat

Init ==
    /\ nextID = 0
    /\ tools = {}
    /\ pc = [c \in Callers |-> "idle"]
    /\ begun = 0
    /\ operation = [c \in Callers |-> 0]
    /\ id = [c \in Callers |-> 0]
    /\ page = [c \in Callers |-> 0]
    /\ cursor = [c \in Callers |-> NoCursor]
    /\ seenCursors = [c \in Callers |-> {}]
    /\ all = [c \in Callers |-> {}]
    /\ definition = [c \in Callers |-> NotCalling]
    /\ sent = <<>>
    /\ accepted = {}
    /\ replaced = {}

Goto(c, label) == pc' = [pc EXCEPT ![c] = label]

(* An operation returns: its locals are gone.                              *)
Return(c) ==
    /\ Goto(c, "idle")
    /\ operation' = [operation EXCEPT ![c] = 0]
    /\ id' = [id EXCEPT ![c] = 0]
    /\ page' = [page EXCEPT ![c] = 0]
    /\ cursor' = [cursor EXCEPT ![c] = NoCursor]
    /\ seenCursors' = [seenCursors EXCEPT ![c] = {}]
    /\ all' = [all EXCEPT ![c] = {}]
    /\ definition' = [definition EXCEPT ![c] = NotCalling]

Begin(c) ==
    /\ pc[c] = "idle"
    /\ begun < MaxOperations
    /\ begun' = begun + 1

(* An operation that goes on after its first step.                         *)
Enter(c, label) ==
    /\ Goto(c, label)
    /\ operation' = [operation EXCEPT ![c] = begun + 1]

(* request, up to the send: the identifier is taken atomically, and the    *)
(* first is 1.  A request is kept with what the server makes of it, and    *)
(* with its operation for the properties.                                  *)
Request(c, method, at, def, answer) ==
    /\ nextID' = nextID + 1
    /\ id' = [id EXCEPT ![c] = nextID + 1]
    /\ sent' = Append(sent, [method |-> method, cursor |-> at, definition |-> def,
                             operation |-> operation[c], answer |-> answer])

BeginList(c) ==
    /\ Begin(c)
    /\ Enter(c, "paging")
    /\ UNCHANGED <<nextID, tools, id, listing, definition, sent, histories>>

(* Mutant: one page too many.                                              *)
RequestPageExtra(c) ==
    /\ pc[c] = "paging"
    /\ page[c] <= MaxToolPages
    /\ \E a \in PageAnswers : Request(c, "tools/list", cursor[c], NotCalling, a)
    /\ Goto(c, "listing")
    /\ UNCHANGED <<tools, begun, operation, listing, definition, histories>>

RequestPage(c) ==
    /\ pc[c] = "paging"
    /\ page[c] < MaxToolPages
    /\ \E a \in PageAnswers : Request(c, "tools/list", cursor[c], NotCalling, a)
    /\ Goto(c, "listing")
    /\ UNCHANGED <<tools, begun, operation, listing, definition, histories>>

TooManyPages(c) ==
    /\ pc[c] = "paging"
    /\ page[c] = MaxToolPages
    /\ Return(c)
    /\ UNCHANGED <<nextID, tools, begun, sent, histories>>

(* CallTool looks the tool up, and fails when it was not advertised.       *)
BeginCall(c, name) ==
    /\ Begin(c)
    /\ \/ \E def \in tools :
            /\ def.name = name
            /\ definition' = [definition EXCEPT ![c] = def]
            /\ Enter(c, "preparing")
       \/ name \notin {def.name : def \in tools} /\ UNCHANGED <<pc, operation, definition>>
    /\ UNCHANGED <<nextID, tools, id, listing, sent, histories>>

(* The arguments are no object, or do not fit the header bindings.         *)
BadArguments(c) ==
    /\ pc[c] = "preparing"
    /\ Return(c)
    /\ UNCHANGED <<nextID, tools, begun, sent, histories>>

(* The name, the arguments and the headers that the looked-up definition   *)
(* prescribes are sent; the catalogue may have been replaced meanwhile.    *)
SendCall(c) ==
    /\ pc[c] = "preparing"
    /\ \E a \in CallAnswers : Request(c, "tools/call", NoCursor, definition[c], a)
    /\ Goto(c, "calling")
    /\ UNCHANGED <<tools, begun, operation, listing, definition, histories>>

(* What can come back on a connection: "of" is the answer a message        *)
(* carries, a null identifier decodes as 0, a notification has none.       *)
answered == {i \in DOMAIN sent : sent[i].answer # NoAnswer}
Message ==
    {[kind |-> k, id |-> i, of |-> i] : k \in {"result", "error"}, i \in answered}
    \cup {[kind |-> "result", id |-> 0, of |-> i] : i \in answered}
    \cup {[kind |-> "notification", id |-> 0, of |-> 0], [kind |-> "garbage", id |-> 0, of |-> 0]}
Replies == [type : {"json"}, ok : BOOLEAN, messages : {<<m>> : m \in Message}]
           \cup [type : {"stream"}, ok : {TRUE}, messages : {<<m, n>> : m, n \in Message}]

(* decodeResponse and decodeEventStream: a JSON reply is one response; in  *)
(* a stream the first message that is no notification decides.             *)
notification(m) == m.kind = "notification"
decisive(reply) ==
    IF reply.type = "json" THEN 1
    ELSE SelectInSeq(reply.messages, LAMBDA m : ~notification(m))
(* Mutant: a message is taken whatever request it answers.                 *)
decodesUnmatched(reply, expected) ==
    /\ decisive(reply) # 0
    /\ reply.messages[decisive(reply)].kind = "result"
    /\ reply.ok
decodes(reply, expected) ==
    /\ decisive(reply) # 0
    /\ reply.messages[decisive(reply)].kind = "result"
    /\ reply.messages[decisive(reply)].id = expected
    /\ reply.ok
carried(reply) == reply.messages[decisive(reply)].of

(* Mutant: a timeout is taken for a reason to wait on.                     *)
RequestWaitsOn(c) ==
    /\ pc[c] \in {"listing", "calling"}
    /\ IF sent[id[c]].answer = NoAnswer THEN UNCHANGED locals /\ UNCHANGED pc ELSE Return(c)
    /\ UNCHANGED <<nextID, tools, begun, sent, histories>>

(* The transport fails or times out, the reply is too long or of another   *)
(* type, or does not decode: the operation ends with an error.             *)
RequestFails(c) ==
    /\ pc[c] \in {"listing", "calling"}
    /\ Return(c)
    /\ UNCHANGED <<nextID, tools, begun, sent, histories>>

(* The answers that a reply may make the request of caller c take.         *)
acceptable(c) == {carried(reply) : reply \in {r \in Replies : decodes(r, id[c])}}
Accept(c, j) == accepted' = accepted \cup {<<id[c], j>>}

(* The loop over one page: definitions whose header annotations are        *)
(* invalid are left out; any other invalid one, or a repeated name, fails  *)
(* the listing.                                                            *)
keep(p) == {i \in DOMAIN p.tools : p.tools[i].class # "badHeader"}
definitions(p) == {p.tools[i] : i \in keep(p)}
(* Mutants: names are compared within a page only; a cursor may come       *)
(* again.                                                                  *)
goodPageAlone(p, before) ==
    /\ p.complete
    /\ \A d \in definitions(p) : d.class = "valid"
    /\ \A i, j \in keep(p) : p.tools[i].name = p.tools[j].name => i = j
goodPage(p, before) ==
    /\ p.complete
    /\ \A d \in definitions(p) : d.class = "valid" /\ d.name \notin {e.name : e \in before}
    /\ \A i, j \in keep(p) : p.tools[i].name = p.tools[j].name => i = j
anyCursor(c, next) == FALSE
repeated(c, next) == next \in seenCursors[c]

(* ListTools takes a page: the listing is complete, goes on at the next    *)
(* cursor, or fails when that cursor was given before.                     *)
TakePage(c) ==
    /\ pc[c] = "listing"
    /\ \E j \in acceptable(c) :
        /\ Accept(c, j)
        /\ LET p == sent[j].answer.page IN
           IF ~goodPage(p, all[c]) \/ repeated(c, p.next) THEN Return(c)
           ELSE /\ all' = [all EXCEPT ![c] = @ \cup definitions(p)]
                /\ page' = [page EXCEPT ![c] = @ + 1]
                /\ cursor' = [cursor EXCEPT ![c] = p.next]
                /\ seenCursors' = [seenCursors EXCEPT ![c] = @ \cup ({p.next} \ {NoCursor})]
                /\ Goto(c, IF p.next = NoCursor THEN "replacing" ELSE "paging")
                /\ UNCHANGED <<operation, id, definition>>
    /\ UNCHANGED <<nextID, tools, begun, sent, replaced>>

(* Mutants: definitions left out of the listing stay in the catalogue; a   *)
(* catalogue once filled is kept.                                          *)
merged(listed) == tools \cup listed
kept(listed) == IF tools = {} THEN listed ELSE tools
catalogue(listed) == listed

(* replaceTools, under the lock, and the return of the listing.            *)
ReplaceTools(c) ==
    /\ pc[c] = "replacing"
    /\ tools' = catalogue(all[c])
    /\ replaced' = replaced \cup {[operation |-> operation[c], begun |-> begun]}
    /\ Return(c)
    /\ UNCHANGED <<nextID, begun, sent, accepted>>

(* CallTool takes its result: it is complete, or it asks for input or is   *)
(* of an unknown type and becomes an error.                                *)
TakeResult(c) ==
    /\ pc[c] = "calling"
    /\ \E j \in acceptable(c) : Accept(c, j)
    /\ Return(c)
    /\ UNCHANGED <<nextID, tools, begun, sent, replaced>>

OwnStep(c) ==
    \/ RequestPage(c) \/ TooManyPages(c) \/ BadArguments(c) \/ SendCall(c)
    \/ RequestFails(c) \/ TakePage(c) \/ ReplaceTools(c) \/ TakeResult(c)

ToolNames == {d.name : d \in Definition}

Quiet ==
    /\ \A c \in Callers : pc[c] = "idle"
    /\ begun = MaxOperations
    /\ UNCHANGED vars

Next ==
    \/ \E c \in Callers :
        BeginList(c) \/ (\E n \in ToolNames : BeginCall(c, n)) \/ OwnStep(c)
    \/ Quiet

(* A request is bounded by the HTTP client's timeout or its context, so a  *)
(* caller that waits is not held up for ever (cmd/hot-take/main.go:209).   *)
Spec == Init /\ [][Next]_vars
FairSpec == Spec /\ \A c \in Callers : WF_vars(OwnStep(c))

---------------------------------------------------------------------------
Sent == [method : {"tools/list", "tools/call"}, cursor : {p.next : p \in Pages} \cup {NoCursor},
         definition : Definition \cup {NotCalling}, operation : Nat,
         answer : PageAnswers \cup CallAnswers]

TypeOK ==
    /\ nextID = Len(sent)
    /\ tools \subseteq Definition
    /\ pc \in [Callers -> Labels]
    /\ begun \in Nat
    /\ operation \in [Callers -> 0..begun]
    /\ id \in [Callers -> 0..nextID]
    /\ page \in [Callers -> 0..MaxToolPages]
    /\ cursor \in [Callers -> {p.next : p \in Pages} \cup {NoCursor}]
    /\ seenCursors \in [Callers -> SUBSET {p.next : p \in Pages}]
    /\ all \in [Callers -> SUBSET Definition]
    /\ definition \in [Callers -> Definition \cup {NotCalling}]
    /\ sent \in Seq(Sent)
    /\ accepted \subseteq (DOMAIN sent) \X (DOMAIN sent)

(* No operation is ever given the answer to another request: not another   *)
(* caller's, not an earlier page's, not one without an identifier          *)
(* (335, 400, and the counter that starts at 1, 255).                      *)
AnswersOwn == \A a \in accepted : a[1] = a[2]

(* The pages one listing took; whether they are all of them, from the      *)
(* first to the last the server has; and what they advertise.              *)
pagesOf(op) == {i \in DOMAIN sent : sent[i].operation = op /\ sent[i].method = "tools/list"
                                    /\ <<i, i>> \in accepted}
Listings == {pagesOf(op) : op \in 1..begun}
wholeListing(ids) ==
    /\ ids # {}
    /\ \A i \in ids : LET next == sent[i].answer.page.next IN
        /\ sent[i].cursor = NoCursor <=> \A j \in ids : i <= j
        /\ next = NoCursor <=> \A j \in ids : j <= i
        /\ next # NoCursor => \E j \in ids : j > i /\ sent[j].cursor = next
advertised(ids) == UNION {definitions(sent[i].answer.page) : i \in ids}

(* The catalogue is all or nothing: empty, or everything one complete      *)
(* listing advertised and nothing else, whatever other listings failed,    *)
(* were given up half way or ran at the same time; and it names no tool    *)
(* twice, so a lookup has one result (119-163, 407).                       *)
CatalogueIsAListing ==
    /\ tools # {} => \E ids \in Listings : wholeListing(ids) /\ tools = advertised(ids)
    /\ \A d, e \in tools : d.name = e.name => d = e

(* A call goes out only for a tool, and with the header bindings of a      *)
(* definition, that a complete listing advertised, and that was not out of *)
(* date when the call was made: no later listing, begun after that one had *)
(* ended, had ended by then.  Only listings that overlap may leave the     *)
(* catalogue of the earlier one (168-187, 407-415).                        *)
endedBefore(l, op) == l.begun < op
CallsAreFresh ==
    \A i \in DOMAIN sent : sent[i].method = "tools/call" =>
        \E l \in replaced :
            /\ wholeListing(pagesOf(l.operation))
            /\ sent[i].definition \in advertised(pagesOf(l.operation))
            /\ sent[i].definition.class = "valid"
            /\ ~\E m \in replaced : endedBefore(l, m.operation) /\ endedBefore(m, sent[i].operation)

(* A listing asks for no page twice, whatever cursors the server hands     *)
(* out.                                                                    *)
NoPageTwice ==
    \A i, j \in DOMAIN sent :
        /\ sent[i].method = "tools/list" /\ sent[j].method = "tools/list"
        /\ sent[i].operation = sent[j].operation
        /\ sent[i].cursor = sent[j].cursor
        => i = j

(* Every operation returns, even with a server that never answers.         *)
OperationsEnd == \A c \in Callers : pc[c] # "idle" ~> pc[c] = "idle"
=============================================================================
