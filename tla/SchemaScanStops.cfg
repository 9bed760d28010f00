\* The same schemas, against the statement of docs/mcp.md.
SPECIFICATION Spec
CONSTANTS
    Schemas <- MCSchemas
    Arguments <- MCArguments
    Symbol <- MCSymbols
    HeaderTokens <- MCTokens
    Lower <- MCLower
    PlainText <- MCPlainText
    Base64 = "=?base64?"
    MaxSafeInteger = 7
INVARIANT InvalidSchemaStops
