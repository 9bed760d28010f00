---------------------------- MODULE MCMcpClient ----------------------------
(* Instances of McpClient for TLC.                                         *)
EXTENDS McpClient, TLC

CONSTANTS c1, c2

define(name, headers, class) == [name |-> name, headers |-> headers, class |-> class]
search1 == define("search", "query", "valid")
search2 == define("search", "none", "valid")
searchX == define("search", "none", "badHeader")
fetch   == define("fetch", "none", "valid")
broken  == define("broken", "none", "invalid")
MCDefinition == {search1, search2, searchX, fetch, broken}

MCPage(defs, next) == [complete |-> TRUE, tools |-> defs, next |-> next]
(* For one caller: listings that span pages, cursors that come again, a    *)
(* name that comes again, an excluded and an invalid definition.           *)
PagedPages == {MCPage(<<search1>>, ""), MCPage(<<fetch>>, "x"), MCPage(<<searchX, search2>>, "y"),
               MCPage(<<>>, "x"), MCPage(<<>>, "z"), MCPage(<<>>, ""), MCPage(<<broken>>, "y"),
               [complete |-> FALSE, tools |-> <<fetch>>, next |-> ""]}
(* For two: a tool that changes between two listings, or comes again on a  *)
(* second page.                                                            *)
SharedPages == {MCPage(<<search1>>, ""), MCPage(<<search2>>, "x"), MCPage(<<fetch>>, "")}
MCCallers == Permutations(Callers)
=============================================================================
