---------------------------- MODULE MCOpenAIRun ----------------------------
(* Instances of OpenAIRun for TLC.                                         *)
EXTENDS OpenAIRun, TLC

CONSTANTS clock, a, b, noId, r1, r2

MCSkills == {"time"}
MCCapabilities == {"clock.read"}
MCRequires == [s \in MCSkills |-> {"clock.read"}]
MCProviders == [c \in MCCapabilities |-> {clock}]
ask(id) == [id |-> id, tool |-> clock]
(* An answer; one call; two calls; two calls under the same identifier.    *)
MCTurns == {[text |-> TRUE, calls |-> <<>>], [text |-> FALSE, calls |-> <<ask(b)>>],
            [text |-> TRUE, calls |-> <<ask(a), ask(b)>>], [text |-> FALSE, calls |-> <<ask(a), ask(a)>>]}
RunSymmetry == Permutations(Runs)
=============================================================================
