------------------------- MODULE MCTerminalApprover -------------------------
(* Instances of TerminalApprover for TLC.                                  *)
EXTENDS TerminalApprover, TLC

CONSTANTS c1, c2, c3

(* One tool of each mode: the clock's allow rule, a plugin whose approval  *)
(* is "ask", and a tool without a rule.                                    *)
MCTools == {"clock_now", "github__lookup", "unknown"}
MCMode == [t \in MCTools |->
    CASE t = "clock_now" -> "allow" [] t = "github__lookup" -> "ask" [] OTHER -> "deny"]
AskTool == {"github__lookup"}
AskMode == [t \in AskTool |-> "ask"]
CallerSymmetry == Permutations(Callers)
=============================================================================
