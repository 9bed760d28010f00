---------------------------- MODULE MCSchemaScan ----------------------------
(* Instances of SchemaScan for TLC.                                        *)
EXTENDS SchemaScan

node(parent, key, kind) == [parent |-> parent, key |-> key, kind |-> kind]
text(parent, key, t) == [parent |-> parent, key |-> key, kind |-> "string", text |-> t]
whole(parent, key, n) == [parent |-> parent, key |-> key, kind |-> "integer", number |-> n]
truth(parent, key, b) == [parent |-> parent, key |-> key, kind |-> "boolean", true |-> b]

MCSymbols == {"A", "a", "B", " ", "hello", "x", "true", "=?base64?", "string", "boolean", "object", "integer"}
MCTokens == {<<"A">>, <<"a">>, <<"B">>}
MCLower == [t \in MCTokens |-> IF t = <<"A">> THEN <<"a">> ELSE t]
MCPlainText == {<<"hello">>, <<"=?base64?", "x">>, <<"true">>}

(* The annotation of the first property: valid, missing, or not a token.   *)
firstHeaders == {text(3, "x-mcp-header", <<"A">>), text(3, "x-mcp-header", <<" ">>),
                 text(3, "default", <<"A">>), node(3, "x-mcp-header", "null")}
(* That of the second: the same name in lower case, another, or none.      *)
secondHeaders == {text(6, key, t) : key \in {"x-mcp-header", "default"}, t \in {<<"a">>, <<"B">>}}
secondTypes == {text(6, "type", <<"boolean">>), text(6, "type", <<"object">>)}
(* What stands beside the properties, or inside a property: nothing to be  *)
(* found, a map that is none, annotations out of reach, nested properties. *)
besides(n, up) ==
    {<<node(up, "enum", "null")>>,
     <<node(up, "properties", "list")>>,
     <<node(up, "items", "object"), text(n, "x-mcp-header", <<"B">>), text(n, "type", <<"string">>)>>,
     <<node(up, "anyOf", "list"), node(n, "", "null"), node(n, "", "object"),
       node(n + 2, "x-mcp-header", "null")>>,
     <<node(up, "properties", "object"), node(n, "x-mcp-header", "object"),
       text(n + 1, "x-mcp-header", <<"B">>), text(n + 1, "type", <<"integer">>)>>}

(* Two properties "p" and "q", and something inside "q".                   *)
Wide == {<<node(0, "", "object"), node(1, "properties", "object"),
           node(2, "p", "object"), h, text(3, "type", <<"string">>),
           node(2, "q", "object"), g, t>> \o b :
            h \in firstHeaders, g \in secondHeaders, t \in secondTypes, b \in besides(9, 6)}
(* An annotated property "p" with something beside its map.                *)
Beside == {<<node(0, "", "object"), node(1, "properties", "object"),
             node(2, "p", "object"), h, text(3, "type", <<"string">>)>> \o b :
            h \in firstHeaders, b \in {c \in besides(6, 1) : c[1].key # "properties"}}
(* The root is no object, or annotated, or its properties are no map.      *)
Odd == {<<node(0, "", "list")>>,
        <<node(0, "", "object"), text(1, "x-mcp-header", <<"A">>), text(1, "type", <<"string">>)>>,
        <<node(0, "", "object"), node(1, "properties", "null"), node(1, "items", "object"),
          text(3, "x-mcp-header", <<"A">>)>>}
MCSchemas == Wide \cup Beside \cup Odd

texts == {<<>>, <<"hello">>, <<" ", "hello">>, <<"=?base64?", "x">>}
MCArguments ==
    {<<node(0, "", "object")>>} \cup {<<node(0, "", "object"), text(1, "p", t)>> : t \in texts}
    \cup {<<node(0, "", "object"), truth(1, "q", b), v>> :
            b \in BOOLEAN, v \in {node(1, "p", "null"), text(1, "p", <<"true">>), whole(1, "p", 1)}}
    \cup {<<node(0, "", "object"), node(1, "q", "object"), v>> :
            v \in {whole(2, "x-mcp-header", n) : n \in {-8, -7, 7, 8}}
                  \cup {node(2, "x-mcp-header", "number"), text(2, "p", <<"hello">>)}}
=============================================================================
