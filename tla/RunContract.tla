----------------------------- MODULE RunContract -----------------------------
(***************************************************************************)
(* What a Runtime promises its caller about the side effects of a run,     *)
(* whatever the model, the tools and the approver do: an effect happens    *)
(* only while the run is open, only with a permission given for that very  *)
(* call, never twice, never out of order, and no more often than the       *)
(* budget allows.  An answer is given only when no execution is under way, *)
(* and after cancellation at most one more execution begins and no further *)
(* permission is of any use.  AgentRuntime is shown to implement it.       *)
(***************************************************************************)
EXTENDS Naturals, Sequences

CONSTANTS Runs, MaxSteps, MaxToolCalls

VARIABLES
    phase,      \* "new", "open", "answered" or "failed"
    cancelled,  \* the caller's context is done
    permits,    \* the calls that were permitted
    useful,     \* the permitted calls that may still be carried out
    effects,    \* the calls carried out, in order
    busy        \* an execution is under way, or its end is being reported

vars == <<phase, cancelled, permits, useful, effects, busy>>

(* A call of a run: the turn that asked for it and its place in that turn. *)
Call == (1..MaxSteps) \X (1..MaxToolCalls)
Before(o, p) == o[1] < p[1] \/ (o[1] = p[1] /\ o[2] < p[2])
Later(r, o) == \A i \in DOMAIN effects[r] : Before(effects[r][i], o)

Init ==
    /\ phase = [r \in Runs |-> "new"]
    /\ cancelled = [r \in Runs |-> FALSE]
    /\ permits = [r \in Runs |-> {}]
    /\ useful = [r \in Runs |-> {}]
    /\ effects = [r \in Runs |-> <<>>]
    /\ busy = [r \in Runs |-> FALSE]

Open(r) ==
    /\ phase[r] = "new"
    /\ ~cancelled[r]
    /\ phase' = [phase EXCEPT ![r] = "open"]
    /\ UNCHANGED <<cancelled, permits, useful, effects, busy>>

Cancel(r) ==
    /\ phase[r] \in {"new", "open"}
    /\ ~cancelled[r]
    /\ cancelled' = [cancelled EXCEPT ![r] = TRUE]
    /\ UNCHANGED <<phase, permits, useful, effects, busy>>

(* A permission that arrives after the context is done is recorded and     *)
(* never useful.                                                           *)
Permit(r, o) ==
    /\ phase[r] = "open"
    /\ ~busy[r]
    /\ Later(r, o)
    /\ permits' = [permits EXCEPT ![r] = @ \cup {o}]
    /\ useful' = [useful EXCEPT ![r] = IF cancelled[r] THEN {} ELSE {o}]
    /\ UNCHANGED <<phase, cancelled, effects, busy>>

Perform(r, o) ==
    /\ phase[r] = "open"
    /\ ~busy[r]
    /\ o \in useful[r]
    /\ Later(r, o)
    /\ Len(effects[r]) < MaxToolCalls
    /\ effects' = [effects EXCEPT ![r] = Append(@, o)]
    /\ useful' = [useful EXCEPT ![r] = {}]
    /\ busy' = [busy EXCEPT ![r] = TRUE]
    /\ UNCHANGED <<phase, cancelled, permits>>

Settle(r) ==
    /\ phase[r] = "open"
    /\ busy[r]
    /\ busy' = [busy EXCEPT ![r] = FALSE]
    /\ UNCHANGED <<phase, cancelled, permits, useful, effects>>

Answer(r) ==
    /\ phase[r] = "open"
    /\ ~busy[r]
    /\ useful[r] = {}
    /\ phase' = [phase EXCEPT ![r] = "answered"]
    /\ UNCHANGED <<cancelled, permits, useful, effects, busy>>

(* A failure may come at any time; what was permitted and not carried out  *)
(* never will be.                                                          *)
Fail(r) ==
    /\ phase[r] \in {"new", "open"}
    /\ phase' = [phase EXCEPT ![r] = "failed"]
    /\ useful' = [useful EXCEPT ![r] = {}]
    /\ busy' = [busy EXCEPT ![r] = FALSE]
    /\ UNCHANGED <<cancelled, permits, effects>>

Next ==
    \E r \in Runs :
        \/ Open(r) \/ Cancel(r) \/ Settle(r) \/ Answer(r) \/ Fail(r)
        \/ \E o \in Call : Permit(r, o) \/ Perform(r, o)

Spec == Init /\ [][Next]_vars
=============================================================================
