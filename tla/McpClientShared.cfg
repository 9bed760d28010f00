\* Two callers, listings of up to two pages, calls in between.
SPECIFICATION Spec
CONSTANTS
    c1 = c1
    c2 = c2
    Callers = {c1, c2}
    Definition <- MCDefinition
    Pages <- SharedPages
    NoCursor = ""
    MaxToolPages = 2
    MaxOperations = 3
SYMMETRY MCCallers
INVARIANT AnswersOwn CatalogueIsAListing CallsAreFresh
