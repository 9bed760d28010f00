\* Two runs of up to three turns and two calls share the adapter and the service.
SPECIFICATION OpenAISpec
CONSTANTS
    clock = clock
    a = a
    b = b
    noId = noId
    r1 = r1
    r2 = r2
    Runs = {r1, r2}
    Skills <- MCSkills
    Capabilities <- MCCapabilities
    ToolNames = {clock}
    CallIDs = {a, b}
    NoId = noId
    Requires <- MCRequires
    Providers <- MCProviders
    Turns <- MCTurns
    MaxSteps = 3
    MaxToolCalls = 2
SYMMETRY RunSymmetry
INVARIANT ModelSeesTranscript CallsAnsweredInOrder StateAccepted
