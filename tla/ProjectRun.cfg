\* One command: startup, a run of up to three turns and three calls, three lines typed.
SPECIFICATION FairCommandSpec
CONSTANTS
    r1 = r1
    noId = noId
    Runs = {r1}
    Skills <- MCSkills
    Capabilities <- MCCapabilities
    ToolNames <- MCTools
    CallIDs = {"a", "b"}
    NoId = noId
    Requires <- MCRequires
    Providers <- MCProviders
    Turns <- MCTurns
    MaxSteps = 3
    MaxToolCalls = 3
    Mode <- MCMode
    Nobody = nobody
    NoTool = noTool
    MaxRequests = 3
    MaxLines = 3
INVARIANT CommandTypeOK EffectsConfirmed StartedIsComplete
PROPERTY CommandEnds RuntimeSpec ApproverSpec
