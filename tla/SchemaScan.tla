----------------------------- MODULE SchemaScan -----------------------------
(***************************************************************************)
(* The input schema of a remote tool (mcp/schema.go): the scan that        *)
(* decides whether a definition is kept, excluded for its header           *)
(* annotations or invalid, the header bindings it collects on the way, and *)
(* the headers of a call that are made from them.                          *)
(*                                                                         *)
(* A JSON value is a tree, given as the sequence of its nodes with the     *)
(* root first.  Go visits the keys of an object in any order, so a scan is *)
(* a depth-first walk that takes any key next and stops at the first error *)
(* it meets.  A text is a sequence of symbols.                             *)
(***************************************************************************)
EXTENDS Integers, FiniteSets, SequencesExt, TLC

CONSTANTS
    Schemas,         \* schemas a server may advertise
    Arguments,       \* arguments of a call; validateArguments lets objects through
    Symbol,          \* what texts are made of
    HeaderTokens,    \* texts that are header names, see validHeaderToken
    Lower,           \* strings.ToLower on them
    PlainText,       \* texts that are printable and have no outer white space
    Base64,          \* the symbol "=?base64?"
    MaxSafeInteger   \* 2^53 - 1

Kinds == {"object", "list", "string", "integer", "number", "boolean", "null"}
isTree(tree) ==
    /\ Len(tree) \in Nat \ {0} /\ DOMAIN tree = 1..Len(tree)
    /\ \A n \in DOMAIN tree : tree[n].kind \in Kinds /\ tree[n].parent \in 0..(n - 1)
    /\ \A n \in DOMAIN tree : tree[n].parent = 0 <=> n = 1
    /\ \A n \in DOMAIN tree : tree[n].kind = "string" => tree[n].text \in Seq(Symbol)
    /\ \A m, n \in DOMAIN tree :
        /\ tree[n].parent = m => tree[m].kind \in {"object", "list"}
        /\ m # n /\ tree[m].parent = tree[n].parent /\ tree[m].key = tree[n].key
            => tree[tree[m].parent].kind = "list"

ASSUME SchemaAssumption ==
    /\ \A tree \in Schemas \cup Arguments : isTree(tree)
    /\ \A args \in Arguments : args[1].kind = "object"
    /\ \A name \in HeaderTokens : Lower[name] \in HeaderTokens
    /\ <<>> \notin PlainText /\ Base64 \in Symbol
    /\ MaxSafeInteger \in Nat

VARIABLES
    schema,    \* ToolDefinition.InputSchema
    trail,     \* the calls of scanHeaderBindings under way, outermost first
    seen,      \* the nodes that were scanned
    names,     \* the header names taken, in lower case
    bindings,  \* the header bindings collected
    outcome,   \* "scanning", a verdict, or what became of a call
    arguments, \* the arguments of the call
    headers    \* its Mcp-Param headers, by name

vars == <<schema, trail, seen, names, bindings, outcome, arguments, headers>>
scan == <<trail, seen, names, bindings>>
call == <<arguments, headers>>

children(tree, n) == {m \in DOMAIN tree : tree[m].parent = n}
member(tree, n, key) == {m \in children(tree, n) : tree[n].kind = "object" /\ tree[m].key = key}

Init ==
    /\ schema \in Schemas
    /\ trail = <<>> /\ seen = {} /\ names = {} /\ bindings = {}
    /\ outcome = "scanning"
    /\ arguments = <<>> /\ headers = <<>>

(***************************************************************************)
(* scanHeaderBindings.  A value is scanned as a "schema" whose property    *)
(* can be reached in the arguments, as the map of "properties" of one, or  *)
(* as "plain" JSON in which no annotation may occur.                       *)
(***************************************************************************)
roleOf(frame, n) ==
    CASE frame.role = "properties" -> "schema"
      [] frame.role = "schema" /\ schema[n].key = "properties" -> "properties"
      [] OTHER -> "plain"

inside(frame, n) ==
    [node |-> n, role |-> roleOf(frame, n),
     path |-> IF frame.role = "properties" THEN Append(frame.path, schema[n].key) ELSE frame.path]

(* The members of a value that its call still has to scan: an annotation   *)
(* is not one of them, unless it is the name of a property, and the items  *)
(* of a list come in order.                                                *)
unscanned(frame) ==
    {n \in children(schema, frame.node) \ seen :
        IF schema[frame.node].kind = "list"
        THEN \A m \in children(schema, frame.node) \ seen : n <= m
        ELSE schema[n].key = "x-mcp-header" => frame.role = "properties"}

Root == [node |-> 1, role |-> "schema", path |-> <<>>]
candidates ==
    IF seen = {} THEN {Root} ELSE {inside(Last(trail), n) : n \in unscanned(Last(trail))}

(* Mutant: a property that has the name of the annotation counts as one.   *)
annotatedAnywhere(frame) == member(schema, frame.node, "x-mcp-header") # {}

annotated(frame) ==
    frame.role # "properties" /\ member(schema, frame.node, "x-mcp-header") # {}
annotation(n) == LET a == CHOOSE m \in member(schema, n, "x-mcp-header") : TRUE IN schema[a]

typed(n) == \E t \in member(schema, n, "type") :
    schema[t].kind = "string" /\ schema[t].text \in {<<"string">>, <<"integer">>, <<"boolean">>}
named(n) == annotation(n).kind = "string" /\ annotation(n).text \in HeaderTokens
typeOf(n) == schema[CHOOSE t \in member(schema, n, "type") : TRUE].text[1]

(* Mutant: whether the property can be reached is not looked at.           *)
acceptableAnywhere(frame) ==
    /\ named(frame.node) /\ typed(frame.node)
    /\ Lower[annotation(frame.node).text] \notin names

acceptable(frame) ==
    /\ frame.role = "schema" /\ frame.path # <<>>
    /\ named(frame.node) /\ typed(frame.node)
    /\ Lower[annotation(frame.node).text] \notin names

malformed(frame) ==
    (frame.role = "properties" \/ frame = Root) /\ schema[frame.node].kind # "object"

Descend(frame) ==
    /\ trail' = Append(trail, frame)
    /\ seen' = seen \cup {frame.node}

(* A number, a string and the like: nothing to find.                       *)
ScanScalar(frame) ==
    /\ ~malformed(frame)
    /\ schema[frame.node].kind \notin {"object", "list"}
    /\ seen' = seen \cup {frame.node}
    /\ UNCHANGED <<schema, trail, names, bindings, outcome, call>>

ScanList(frame) ==
    /\ ~malformed(frame)
    /\ schema[frame.node].kind = "list"
    /\ Descend(frame)
    /\ UNCHANGED <<schema, names, bindings, outcome, call>>

ScanObject(frame) ==
    /\ schema[frame.node].kind = "object"
    /\ ~annotated(frame)
    /\ Descend(frame)
    /\ UNCHANGED <<schema, names, bindings, outcome, call>>

Bind(frame) ==
    /\ schema[frame.node].kind = "object"
    /\ annotated(frame) /\ acceptable(frame)
    /\ Descend(frame)
    /\ LET name == annotation(frame.node).text IN
        /\ names' = names \cup {Lower[name]}
        /\ bindings' = bindings \cup
            {[name |-> name, type |-> typeOf(frame.node), path |-> frame.path]}
    /\ UNCHANGED <<schema, outcome, call>>

(* errInvalidHeaderDefinition: ListTools leaves the tool out.              *)
Exclude(frame) ==
    /\ schema[frame.node].kind = "object"
    /\ annotated(frame) /\ ~acceptable(frame)
    /\ outcome' = "excluded"
    /\ UNCHANGED <<schema, scan, call>>

(* Any other error: ListTools fails.                                       *)
Reject(frame) ==
    /\ malformed(frame)
    /\ outcome' = "invalid"
    /\ UNCHANGED <<schema, scan, call>>

(* A call of scanHeaderBindings returns; the first one ends the scan.      *)
Leave ==
    /\ seen # {} /\ candidates = {}
    /\ trail' = Front(trail)
    /\ outcome' = IF Len(trail) = 1 THEN "valid" ELSE "scanning"
    /\ UNCHANGED <<schema, seen, names, bindings, call>>

Scan ==
    /\ outcome = "scanning"
    /\ \/ Leave
       \/ \E frame \in candidates :
            \/ ScanScalar(frame) \/ ScanList(frame) \/ ScanObject(frame)
            \/ Bind(frame) \/ Exclude(frame) \/ Reject(frame)

(***************************************************************************)
(* callHeaders: what the arguments hold at the path of each binding.       *)
(***************************************************************************)
under(args, found, key) == UNION {member(args, n, key) : n \in found}
nestedValue(args, path) ==
    LET upTo[i \in 0..Len(path)] == IF i = 0 THEN {1} ELSE under(args, upTo[i - 1], path[i])
    IN  upTo[Len(path)]

carries(type, value) ==
    CASE type = "integer" -> value.kind = "integer" /\ value.number \in -MaxSafeInteger..MaxSafeInteger
      [] OTHER -> value.kind = type

valueText(value) ==
    CASE value.kind = "integer" -> <<ToString(value.number)>>
      [] value.kind = "boolean" -> IF value.true THEN <<"true">> ELSE <<"false">>
      [] OTHER -> value.text

(* Mutant: a text that looks encoded is sent as it is.                     *)
encodePrintable(text) == IF text \in PlainText THEN text ELSE <<Base64>> \o text

(* encodeHeaderValue: what base64 makes of a text stands for that text.    *)
encodeHeaderValue(text) ==
    IF text \in PlainText /\ text[1] # Base64 THEN text ELSE <<Base64>> \o text

(* Every binding whose value is absent is passed over; one value of the    *)
(* wrong type refuses the call.                                            *)
CallHeaders(args) ==
    LET present == {b \in bindings : nestedValue(args, b.path) # {}}
        value(b) == args[CHOOSE n \in nestedValue(args, b.path) : TRUE]
        bound(h) == CHOOSE b \in present : Lower[b.name] = h
    IN  /\ outcome = "valid"
        /\ arguments' = args
        /\ IF \A b \in present : carries(b.type, value(b))
           THEN /\ outcome' = "called"
                /\ headers' = [h \in {Lower[b.name] : b \in present} |->
                                encodeHeaderValue(valueText(value(bound(h))))]
           ELSE outcome' = "refused" /\ UNCHANGED headers
        /\ UNCHANGED <<schema, scan>>

Settled ==
    /\ outcome \in {"excluded", "invalid", "called", "refused"}
    /\ UNCHANGED vars

Next == Scan \/ (\E args \in Arguments : CallHeaders(args)) \/ Settled

Spec == Init /\ [][Next]_vars

(***************************************************************************)
(* Properties.  They speak of the schema as a whole: "place" is what a     *)
(* value of it is for, found from the root, not in the order of a scan.    *)
(***************************************************************************)
place == LET at[n \in DOMAIN schema] ==
            IF n = 1 THEN "property"
            ELSE LET up == at[schema[n].parent] IN
                 CASE up = "map" /\ schema[schema[n].parent].kind = "object" -> "property"
                   [] up = "property" /\ schema[n].key = "properties" -> "map"
                   [] OTHER -> "plain"
         IN at

headed == {n \in DOMAIN schema :
    /\ schema[n].kind = "object"
    /\ place[n] # "map"
    /\ member(schema, n, "x-mcp-header") # {}}
sound == {n \in headed : place[n] = "property" /\ n # 1 /\ named(n) /\ typed(n)}
sameHeader(m, n) == Lower[annotation(m).text] = Lower[annotation(n).text]
clashing == {n \in sound : \E m \in sound \ {n} : sameHeader(m, n)}
illFormed == {n \in DOMAIN schema :
    (n = 1 \/ place[n] = "map") /\ schema[n].kind # "object"}

(* A definition that is kept has no invalid annotation anywhere, and all   *)
(* its annotations are bound, each under a name of its own (73-88).        *)
KeptIsBound ==
    outcome \in {"valid", "called", "refused"} =>
        /\ headed = sound /\ clashing = {} /\ illFormed = {}
        /\ {b.name : b \in bindings} = {annotation(n).text : n \in headed}
        /\ Cardinality(bindings) = Cardinality(headed)

(* A tool is left out only for an annotation that is invalid, and a        *)
(* listing fails only over a schema that is (ListTools 139-144).           *)
VerdictJustified ==
    /\ outcome = "excluded" => headed # sound \/ clashing # {}
    /\ outcome = "invalid" => illFormed # {}

(* Where the arguments hold the value of a property: schema and arguments  *)
(* are walked together.  A server undoes the encoding.                     *)
located == LET at[n \in DOMAIN schema] ==
              IF n = 1 THEN {1}
              ELSE CASE place[n] = "map" -> at[schema[n].parent]
                     [] place[n] = "property" ->
                            under(arguments, at[schema[n].parent], schema[n].key)
                     [] OTHER -> {}
           IN at
decoded(text) == IF text[1] = Base64 THEN Tail(text) ELSE text

(* The server is told the values that the arguments have where the         *)
(* annotated properties are, and no others; a call is refused only for a   *)
(* value of another type (138-158).                                        *)
HeadersMirrorArguments ==
    /\ outcome = "called" =>
        /\ DOMAIN headers = {Lower[annotation(n).text] : n \in {m \in headed : located[m] # {}}}
        /\ \A n \in headed : \A m \in located[n] :
            /\ carries(typeOf(n), arguments[m])
            /\ decoded(headers[Lower[annotation(n).text]]) = valueText(arguments[m])
    /\ outcome = "refused" =>
        \E n \in headed : \E m \in located[n] : ~carries(typeOf(n), arguments[m])

(* docs/mcp.md:27: "Invalid schemas stop discovery".                       *)
InvalidSchemaStops == illFormed # {} => outcome # "excluded"
=============================================================================
