------------------------------ MODULE OpenAIRun ------------------------------
(***************************************************************************)
(* Runs whose model is the Responses API adapter                           *)
(* (providers/openai/client.go): AgentRuntime composed with the adapter    *)
(* and with the service behind it.  The adapter keeps nothing between      *)
(* turns; it hands the runtime an opaque state (the last response and how  *)
(* many transcript items that response has covered) and sends, next time,  *)
(* only what the service cannot know yet.  The service is external: it     *)
(* remembers, for every response it has produced, the conversation up to   *)
(* and including that response.                                            *)
(***************************************************************************)
EXTENDS AgentRuntime, SequencesExt

VARIABLES
    providerState,  \* the runtime's providerState: opaque to it
    request,        \* the request of the turn in progress
    reply,          \* the service's reply to it, 0 before there is one
    responses,      \* the conversations the service remembers, by response
    turns           \* the turn each response carries

provider == <<providerState, request, reply, responses, turns>>
allVars == <<vars, provider>>

NoState == [previous |-> 0, consumed |-> 0]
NoRequest == [previous |-> 0, input |-> <<>>]

OpenAIInit ==
    /\ Init
    /\ providerState = [r \in Runs |-> NoState]
    /\ request = [r \in Runs |-> NoRequest]
    /\ reply = [r \in Runs |-> 0]
    /\ responses = <<>>
    /\ turns = <<>>

(* encodeItems: a continued conversation already holds the model's own     *)
(* output, so its messages and calls are left out.                         *)
(* Mutant: they are not.                                                   *)
encodeEverything(unseen, continuing) == unseen
encoded(input, item, continuing) ==
    IF continuing => item.kind \in {"user", "result"} THEN Append(input, item) ELSE input
encodeItems(unseen, continuing) ==
    LET upTo[i \in 0..Len(unseen)] == IF i = 0 THEN <<>> ELSE encoded(upTo[i - 1], unseen[i], continuing)
    IN  upTo[Len(unseen)]

(* decodeState: an empty state starts a conversation, any other must fit   *)
(* the transcript.                                                         *)
acceptable(state, count) == state = NoState \/ (state.previous # 0 /\ state.consumed <= count)

(* Generate, up to the request: the state is decoded, the items it does    *)
(* not cover are encoded and sent.  A state that does not decode sends     *)
(* nothing, and CallFails returns the error.                               *)
SendRequest(r) ==
    /\ CallModel(r)
    /\ LET state == providerState[r]
           unseen == SubSeq(items[r], state.consumed + 1, Len(items[r]))
       IN request' = [request EXCEPT ![r] =
              IF acceptable(state, Len(items[r]))
              THEN [previous |-> state.previous, input |-> encodeItems(unseen, state.previous # 0)]
              ELSE NoRequest]
    /\ reply' = [reply EXCEPT ![r] = 0]
    /\ UNCHANGED <<providerState, responses, turns>>

(* What the model of the service is shown for a request.                   *)
conversation(req) == (IF req.previous = 0 THEN <<>> ELSE responses[req.previous]) \o req.input
output(t) == (IF t.text THEN <<Message("assistant")>> ELSE <<>>)
             \o [i \in DOMAIN t.calls |-> ToolCall(t.calls[i].id)]

(* The service completes a response.  Its reply may still be lost: then    *)
(* CallFails ends the run and the response is never used.                  *)
Respond(r, t) ==
    /\ pc[r] = "generating"
    /\ request[r] # NoRequest
    /\ reply[r] = 0
    /\ responses' = Append(responses, conversation(request[r]) \o output(t))
    /\ turns' = Append(turns, t)
    /\ reply' = [reply EXCEPT ![r] = Len(responses) + 1]
    /\ UNCHANGED <<vars, providerState, request>>

(* Mutants: the state names the response before this one; it is kept by    *)
(* the adapter, which all runs share.                                      *)
ReceiveStale(r) ==
    /\ reply[r] # 0
    /\ ModelReturns(r, turns[reply[r]])
    /\ providerState' = [providerState EXCEPT ![r] =
                            [previous |-> request[r].previous, consumed |-> Len(items[r])]]
    /\ UNCHANGED <<request, reply, responses, turns>>

ReceiveShared(r) ==
    /\ reply[r] # 0
    /\ ModelReturns(r, turns[reply[r]])
    /\ providerState' = [q \in Runs |-> [previous |-> reply[r], consumed |-> Len(items[r])]]
    /\ UNCHANGED <<request, reply, responses, turns>>

(* Generate returns the decoded turn with the state for the next one, and  *)
(* the runtime copies that state.                                          *)
Receive(r) ==
    /\ reply[r] # 0
    /\ ModelReturns(r, turns[reply[r]])
    /\ providerState' = [providerState EXCEPT ![r] =
                            [previous |-> reply[r], consumed |-> Len(items[r])]]
    /\ UNCHANGED <<request, reply, responses, turns>>

RunStep(r) ==
    \/ SendRequest(r) \/ Receive(r)
    \/ reply[r] # 0 /\ ModelReturnsLate(r) /\ UNCHANGED provider
    \/ \E t \in Turns : Respond(r, t)
    \/ /\ \/ \E s \in Skills : Begin(r, s)
          \/ BeginRefused(r) \/ CtxDone(r) \/ CallFails(r) \/ Refuse(r) \/ ResolveTools(r) \/ EnterLoop(r)
          \/ Published(r) \/ TakeAnswer(r) \/ TakeBatch(r)
          \/ FinishBatch(r) \/ StartCall(r) \/ AuthorizerAccepts(r) \/ PassCheck(r)
          \/ CallTool(r) \/ ToolReturns(r) \/ ToolCompletedPublished(r) \/ RunCompletedPublished(r)
       /\ UNCHANGED provider

OpenAINext ==
    \/ \E r \in Runs : RunStep(r)
    \/ AllReturned /\ UNCHANGED provider

OpenAISpec == OpenAIInit /\ [][OpenAINext]_allVars

---------------------------------------------------------------------------
Occurrences(seq, item) == Cardinality({i \in DOMAIN seq : seq[i] = item})

(* Nothing is lost and nothing is said twice: with every request the model *)
(* has in front of it exactly the items of the run's transcript, those it  *)
(* remembers and those it is sent taken together; no other run's among     *)
(* them (95, 145, 248, 253).                                               *)
ModelSeesTranscript ==
    \A r \in Runs : pc[r] = "generating" /\ request[r] # NoRequest =>
        \A item \in Range(items[r]) \cup Range(conversation(request[r])) :
            Occurrences(conversation(request[r]), item) = Occurrences(items[r], item)

(* In that conversation no call is left without a result after it, and no  *)
(* result is without its call before it, although the two may come from    *)
(* different ends: the service refuses conversations that break this (145, *)
(* 253, 268).                                                              *)
CallsAnsweredInOrder ==
    \A r \in Runs : pc[r] = "generating" /\ request[r] # NoRequest =>
        LET seen == conversation(request[r]) IN
        /\ \A i \in DOMAIN seen : IsCall(seen[i]) =>
              \E j \in DOMAIN seen : j > i /\ seen[j] = ToolResult(seen[i].id)
        /\ \A j \in DOMAIN seen : IsResult(seen[j]) =>
              \E i \in DOMAIN seen : i < j /\ seen[i] = ToolCall(seen[j].id)

(* The state the adapter hands out is never refused when it comes back:    *)
(* the response it names exists, and the transcript it counts does not     *)
(* shrink (211-224).                                                       *)
StateAccepted ==
    \A r \in Runs :
        /\ providerState[r].previous \in 0..Len(responses)
        /\ acceptable(providerState[r], Len(items[r]))
=============================================================================
