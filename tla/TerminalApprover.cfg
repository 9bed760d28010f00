\* Two callers, every permission mode, a terminal that may never answer.
SPECIFICATION FairSpec
CONSTANTS
    c1 = c1
    c2 = c2
    c3 = c3
    Nobody = nobody
    NoTool = noTool
    Callers = {c1, c2}
    Tools <- MCTools
    Mode <- MCMode
    MaxRequests = 2
    MaxLines = 2
INVARIANT TypeOK OneReader ApprovalIsOwn
PROPERTY RetiredForGood CancelledReturns
