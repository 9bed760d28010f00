--------------------------- MODULE MCAgentRuntime ---------------------------
(* Instances of AgentRuntime for TLC.                                      *)
EXTENDS AgentRuntime, TLC

CONSTANTS clock, lookup, other, a, b, noId, r1, r2

(* Two skills: one whose capabilities are provided by clock and lookup,    *)
(* and one that requires a capability nothing provides.                    *)
MCSkills == {"time", "mail"}
MCCapabilities == {"clock.read", "repo.read", "mail.send"}
MCRequires == [s \in MCSkills |->
    IF s = "time" THEN {"clock.read", "repo.read"} ELSE {"clock.read", "mail.send"}]
MCProviders == [c \in {"clock.read", "repo.read"} |->
    IF c = "clock.read" THEN {clock} ELSE {clock, lookup}]
MCTools == {clock, lookup, other}

SomeCalls == {[id |-> a, tool |-> clock], [id |-> b, tool |-> lookup],
              [id |-> noId, tool |-> clock], [id |-> a, tool |-> other]}
TurnsUpTo(n) == [text : BOOLEAN, calls : UNION {[1..k -> SomeCalls] : k \in 0..n}]
(* All batches of up to two calls: every pair of identifiers, blank ones,  *)
(* repeated ones, and a call outside the scope in either place.            *)
TurnsOfTwo == TurnsUpTo(2)
(* The turns that matter when two runs interleave.                         *)
FewTurns == {[text |-> TRUE, calls |-> <<>>],
             [text |-> FALSE, calls |-> <<[id |-> a, tool |-> clock]>>],
             [text |-> FALSE, calls |-> <<[id |-> a, tool |-> clock], [id |-> b, tool |-> lookup]>>]}
RunSymmetry == Permutations(Runs)
=============================================================================
