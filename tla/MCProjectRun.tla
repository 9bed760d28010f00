---------------------------- MODULE MCProjectRun ----------------------------
(* Instances of ProjectRun for TLC.                                        *)
EXTENDS ProjectRun, TLC

CONSTANTS r1, noId

(* The built-in clock, a tool of a plugin that asks, one of a plugin that  *)
(* is denied.  The second skill requires what nothing provides.            *)
MCSkills == {"github", "mail"}
MCCapabilities == {"clock.read", "repo.read", "mail.send"}
MCRequires == [s \in MCSkills |->
    IF s = "github" THEN {"clock.read", "repo.read"} ELSE {"mail.send"}]
MCProviders == [c \in {"clock.read", "repo.read"} |->
    IF c = "clock.read" THEN {"clock_now"} ELSE {"github__lookup", "github__delete"}]
MCTools == {"clock_now", "github__lookup", "github__delete"}
MCMode == [t \in MCTools |->
    CASE t = "clock_now" -> "allow" [] t = "github__lookup" -> "ask" [] OTHER -> "deny"]

ask(id, t) == [id |-> id, tool |-> t]
(* An answer; a question to the user; two; one after a tool that is        *)
(* allowed and one before a tool that is denied.                           *)
MCTurns == {[text |-> TRUE, calls |-> <<>>],
            [text |-> FALSE, calls |-> <<ask("a", "github__lookup")>>],
            [text |-> FALSE, calls |-> <<ask("a", "github__lookup"), ask("b", "github__lookup")>>],
            [text |-> FALSE, calls |-> <<ask("a", "clock_now"), ask("b", "github__lookup")>>],
            [text |-> FALSE, calls |-> <<ask("a", "github__lookup"), ask("b", "github__delete")>>]}
=============================================================================
