\* Schemas of two properties, nested and beside others, scanned in any order.
SPECIFICATION Spec
CONSTANTS
    Schemas <- MCSchemas
    Arguments <- MCArguments
    Symbol <- MCSymbols
    HeaderTokens <- MCTokens
    Lower <- MCLower
    PlainText <- MCPlainText
    Base64 = "=?base64?"
    MaxSafeInteger = 7
INVARIANT KeptIsBound VerdictJustified HeadersMirrorArguments
