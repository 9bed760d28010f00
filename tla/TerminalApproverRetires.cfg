\* Does a cancelled prompt always retire the approver?
SPECIFICATION Spec
CONSTANTS
    c1 = c1
    c2 = c2
    c3 = c3
    Nobody = nobody
    NoTool = noTool
    Callers = {c1, c2}
    Tools <- AskTool
    Mode <- AskMode
    MaxRequests = 1
    MaxLines = 2
INVARIANT CancelledApproverReadsNoMore
