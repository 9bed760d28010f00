\* One run under fairness, three model turns, every batch of up to two calls.
SPECIFICATION FairSpec
CONSTANTS
    clock = clock
    lookup = lookup
    other = other
    a = a
    b = b
    noId = noId
    r1 = r1
    r2 = r2
    Runs = {r1}
    Skills <- MCSkills
    Capabilities <- MCCapabilities
    ToolNames <- MCTools
    CallIDs = {a, b}
    NoId = noId
    Requires <- MCRequires
    Providers <- MCProviders
    Turns <- TurnsOfTwo
    MaxSteps = 3
    MaxToolCalls = 3
INVARIANT TypeOK EffectsAuthorised RefusedBatchHasNoEffect TranscriptPaired CancellationStops EventsFaithful AnswerAfterAllResults
PROPERTY ContractSpec Termination
