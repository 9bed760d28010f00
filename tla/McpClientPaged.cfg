\* One caller and a server that need not answer, listings of up to three pages.
SPECIFICATION FairSpec
CONSTANTS
    c1 = c1
    c2 = c2
    Callers = {c1}
    Definition <- MCDefinition
    Pages <- PagedPages
    NoCursor = ""
    MaxToolPages = 3
    MaxOperations = 2
INVARIANT TypeOK NoPageTwice
PROPERTY OperationsEnd
