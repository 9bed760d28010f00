-------------------------- MODULE SchemaScanProofs --------------------------
(***************************************************************************)
(* For every schema and all arguments: a definition that is kept is bound  *)
(* completely, a verdict has its reason, and the headers of a call carry   *)
(* what its arguments hold.                                                *)
(***************************************************************************)
EXTENDS SchemaScan, FiniteSetTheorems, SequenceTheorems, NaturalsInduction,
        WellFoundedInduction, TLAPS

(***************************************************************************)
(* Induction along a tree: a node has a smaller number than its children.  *)
(***************************************************************************)
LEMMA LeastNumber ==
    ASSUME NEW T, T \subseteq Nat, T # {}
    PROVE  \E n \in T : \A m \in T : n <= m
  <1> DEFINE R == OpToRel(<, Nat)
  <1>1. \E n \in T : \A m \in T : ~(<<m, n>> \in R)
    <2>1. IsWellFoundedOn(R, Nat)
      BY NatLessThanWellFounded
    <2> HIDE DEF R
    <2> QED
      BY <2>1, WFMin
  <1>2. PICK n \in T : \A m \in T : ~(<<m, n>> \in R)
    BY <1>1
  <1>3. \A m \in T : ~(m < n)
    BY <1>2 DEF OpToRel
  <1> QED
    BY <1>3

LEMMA StepByStep ==
    ASSUME NEW T, NEW n \in Nat, 0 \in T, \A i \in 1..n : i - 1 \in T => i \in T
    PROVE  \A i \in 0..n : i \in T
  <1> DEFINE U == {i \in 0..n : i \notin T}
  <1> SUFFICES ASSUME U # {} PROVE FALSE
    OBVIOUS
  <1>1. PICK i \in U : \A m \in U : i <= m
    <2>1. U \subseteq Nat
      OBVIOUS
    <2> HIDE DEF U
    <2> QED
      BY <2>1, LeastNumber
  <1>2. i # 0 /\ i - 1 \in 0..n /\ i - 1 \notin U
    BY <1>1
  <1> QED
    BY <1>1, <1>2

(* The parents of the nodes 1..N: the root has the number 0 for one.       *)
Ordered(up, N) == \A n \in 1..N : up[n] \in 0..(n - 1)

LEMMA DownTheTree ==
    ASSUME NEW T, NEW N \in Nat, NEW up, Ordered(up, N),
           \A n \in 1..N : up[n] = 0 \/ up[n] \in T => n \in T
    PROVE  \A n \in 1..N : n \in T
  <1> DEFINE U == {n \in 1..N : n \notin T}
  <1> SUFFICES ASSUME U # {} PROVE FALSE
    OBVIOUS
  <1>1. PICK n \in U : \A m \in U : n <= m
    <2>1. U \subseteq Nat
      OBVIOUS
    <2> HIDE DEF U
    <2> QED
      BY <2>1, LeastNumber
  <1>2. up[n] \in 0..(n - 1) /\ up[n] # 0 /\ up[n] \notin T
    BY <1>1 DEF Ordered
  <1> QED
    BY <1>1, <1>2

(* What D makes of what is known of the parent, and c at the root.         *)
Labels(f, c, up, k, D) == \A n \in 1..k : f[n] = IF up[n] = 0 THEN c ELSE D[<<f[up[n]], n>>]
HasLabels(S, c, up, N, D) == \E f \in [1..N -> S] : Labels(f, c, up, N, D)

LEMMA Labelling ==
    ASSUME NEW S, NEW c, c \in S, NEW N, N \in Nat, NEW up, Ordered(up, N),
           NEW D, D \in [S \X (1..N) -> S]
    PROVE  HasLabels(S, c, up, N, D)
  <1> DEFINE T == {k \in 0..N : \E f \in [1..N -> S] : Labels(f, c, up, k, D)}
  <1>1. 0 \in T
    <2> DEFINE g == [n \in 1..N |-> c]
    <2>1. g \in [1..N -> S] /\ Labels(g, c, up, 0, D)
      BY DEF Labels
    <2> HIDE DEF g
    <2> QED
      BY <2>1
  <1>2. ASSUME NEW k \in 1..N, k - 1 \in T PROVE k \in T
    <2>1. PICK f \in [1..N -> S] : Labels(f, c, up, k - 1, D)
      BY <1>2
    <2> DEFINE v == IF up[k] = 0 THEN c ELSE D[<<f[up[k]], k>>]
               g == [f EXCEPT ![k] = v]
    <2>2. up[k] \in 0..(k - 1)
      BY DEF Ordered
    <2>3. v \in S
      BY <2>2
    <2>4. g \in [1..N -> S] /\ g[k] = v /\ \A n \in 1..N : n # k => g[n] = f[n]
      BY <2>3
    <2> HIDE DEF g
    <2>5. ASSUME NEW n \in 1..k PROVE g[n] = IF up[n] = 0 THEN c ELSE D[<<g[up[n]], n>>]
      <3>1. up[n] \in 0..(n - 1)
        BY DEF Ordered
      <3>2. up[n] # 0 => g[up[n]] = f[up[n]]
        BY <2>4, <3>1
      <3>3. CASE n = k
        BY <2>4, <3>2, <3>3
      <3>4. CASE n # k
        <4>1. f[n] = IF up[n] = 0 THEN c ELSE D[<<f[up[n]], n>>]
          BY <2>1, <3>4 DEF Labels
        <4>2. g[n] = f[n]
          BY <2>4, <3>4
        <4> QED
          BY <3>2, <4>1, <4>2
      <3> QED
        BY <3>3, <3>4
    <2>6. Labels(g, c, up, k, D)
      BY <2>5 DEF Labels
    <2> QED
      BY <2>4, <2>6
  <1> HIDE DEF T
  <1>3. \A k \in 0..N : k \in T
    BY <1>1, <1>2, StepByStep
  <1>4. N \in T
    BY <1>3
  <1> QED
    BY <1>4 DEF T, HasLabels

(***************************************************************************)
(* What the properties say of a schema is well defined.                    *)
(***************************************************************************)
parentOf == [n \in DOMAIN schema |-> schema[n].parent]

LEMMA SchemaIsTree ==
    ASSUME schema \in Schemas
    PROVE  /\ isTree(schema) /\ Len(schema) \in Nat \ {0} /\ DOMAIN schema = 1..Len(schema)
           /\ Ordered(parentOf, Len(schema)) /\ \A n \in DOMAIN schema : parentOf[n] = schema[n].parent
           /\ \A n \in DOMAIN schema : schema[n].parent = 0 <=> n = 1
           /\ 1 \in DOMAIN schema
  <1>1. isTree(schema)
    BY SchemaAssumption
  <1> QED
    BY <1>1 DEF isTree, parentOf, Ordered

Places == {"property", "map", "plain"}
placeBelow(up, n) ==
    CASE up = "map" /\ schema[schema[n].parent].kind = "object" -> "property"
      [] up = "property" /\ schema[n].key = "properties" -> "map"
      [] OTHER -> "plain"

LEMMA PlaceIs ==
    ASSUME schema \in Schemas
    PROVE  /\ place \in [DOMAIN schema -> Places] /\ place[1] = "property"
           /\ \A n \in DOMAIN schema \ {1} : place[n] = placeBelow(place[schema[n].parent], n)
  <1> DEFINE N == Len(schema)
             D == [x \in Places \X (1..N) |-> placeBelow(x[1], x[2])]
  <1>1. N \in Nat /\ Ordered(parentOf, N) /\ DOMAIN schema = 1..N
    BY SchemaIsTree
  <1>2. D \in [Places \X (1..N) -> Places] /\ \A p \in Places, n \in 1..N : D[<<p, n>>] = placeBelow(p, n)
    BY DEF placeBelow, Places
  <1>3. "property" \in Places
    BY DEF Places
  <1> HIDE DEF N, D
  <1>4. PICK f \in [1..N -> Places] : Labels(f, "property", parentOf, N, D)
    BY <1>1, <1>2, <1>3, Labelling DEF HasLabels
  <1>5. ASSUME NEW n \in DOMAIN schema
        PROVE  f[n] = IF n = 1 THEN "property" ELSE placeBelow(f[schema[n].parent], n)
    <2>1. f[n] = IF schema[n].parent = 0 THEN "property" ELSE D[<<f[schema[n].parent], n>>]
      BY <1>1, <1>4, SchemaIsTree DEF Labels
    <2>2. schema[n].parent = 0 <=> n = 1
      BY SchemaIsTree
    <2>3. n # 1 => f[schema[n].parent] \in Places
      BY <1>1, <2>2, SchemaIsTree DEF Ordered
    <2> QED
      BY <1>1, <1>2, <2>1, <2>2, <2>3
  <1>6. f = [n \in DOMAIN schema |-> IF n = 1 THEN "property" ELSE placeBelow(f[schema[n].parent], n)]
    BY <1>1, <1>5
  <1> DEFINE h == CHOOSE g : g = [n \in DOMAIN schema |->
                     IF n = 1 THEN "property" ELSE placeBelow(g[schema[n].parent], n)]
  <1>7. h = [n \in DOMAIN schema |-> IF n = 1 THEN "property" ELSE placeBelow(h[schema[n].parent], n)]
    BY <1>6
  <1>8. place = h
    BY DEF place, placeBelow
  <1> HIDE DEF h
  <1>9. \A n \in DOMAIN schema :
            h[n] = IF n = 1 THEN "property" ELSE placeBelow(h[schema[n].parent], n)
    BY <1>7
  <1>10. \A n \in DOMAIN schema : h[n] \in Places
    BY <1>9 DEF placeBelow, Places
  <1>11. h \in [DOMAIN schema -> Places]
    BY <1>7, <1>10
  <1> QED
    BY <1>8, <1>9, <1>11, SchemaIsTree

(***************************************************************************)
(* The inductive invariant.  A scan forgets the values that it has left:   *)
(* that nothing of the schema was missed is only told by what was seen,    *)
(* and by the calls that are still under way.                              *)
(***************************************************************************)
pathTo == LET at[n \in DOMAIN schema] ==
             IF n = 1 THEN <<>>
             ELSE IF place[n] = "property" THEN Append(at[schema[n].parent], schema[n].key)
                  ELSE at[schema[n].parent]
          IN at

roleFor(n) == CASE place[n] = "map" -> "properties"
                [] place[n] = "property" -> "schema"
                [] OTHER -> "plain"

(* The call that scans a node: its arguments follow from where it is.      *)
frameOf(n) == [node |-> n, role |-> roleFor(n), path |-> pathTo[n]]
container(n) == schema[n].kind \in {"object", "list"} /\ (place[n] = "map" => schema[n].kind = "object")
entered == {n \in seen : container(n)}

(* An annotation is no member to scan, unless it names a property.         *)
skipped(n) ==
    /\ schema[schema[n].parent].kind = "object" /\ place[schema[n].parent] # "map"
    /\ schema[n].key = "x-mcp-header"

Visited == \* what was scanned, and by which calls
    /\ schema \in Schemas /\ seen \subseteq DOMAIN schema
    /\ trail \in Seq({frameOf(n) : n \in entered})
    /\ seen # {} => 1 \in seen

Covered == \* a value that was left has nothing more to scan
    \A n \in seen : \/ frameOf(n) \in Range(trail)
                    \/ \A m \in children(schema, n) : m \in seen \/ skipped(m)

bindingOf(n) == [name |-> annotation(n).text, type |-> typeOf(n), path |-> pathTo[n]]
taken == headed \cap seen

Collected == \* what was found is sound, and bound
    /\ taken \subseteq sound /\ illFormed \cap seen = {}
    /\ \A m, n \in taken : sameHeader(m, n) => m = n
    /\ names = {Lower[annotation(n).text] : n \in taken}
    /\ bindings = {bindingOf(n) : n \in taken}

Ended == \* a scan goes on until its first call returns
    /\ outcome \in {"scanning", "excluded", "invalid", "valid", "called", "refused"}
    /\ outcome = "scanning" => (trail = <<>> <=> seen = {})
    /\ outcome \in {"valid", "called", "refused"} => trail = <<>> /\ seen # {}

present == {b \in bindings : nestedValue(arguments, b.path) # {}}
valueOf(b) == arguments[CHOOSE n \in nestedValue(arguments, b.path) : TRUE]
boundTo(h) == CHOOSE b \in present : Lower[b.name] = h
allCarried == \A b \in present : carries(b.type, valueOf(b))

Sent == \* a call has the headers of its own arguments
    outcome \in {"called", "refused"} =>
        /\ arguments \in Arguments
        /\ allCarried <=> outcome = "called"
        /\ allCarried => headers = [h \in {Lower[b.name] : b \in present} |->
                                      encodeHeaderValue(valueText(valueOf(boundTo(h))))]

IInv == Visited /\ Covered /\ Collected /\ Ended /\ VerdictJustified /\ Sent
Keys == {schema[n].key : n \in DOMAIN schema}
pathBelow(up, n) == IF place[n] = "property" THEN Append(up, schema[n].key) ELSE up

LEMMA PathIs ==
    ASSUME schema \in Schemas
    PROVE  /\ pathTo \in [DOMAIN schema -> Seq(Keys)] /\ pathTo[1] = <<>>
           /\ \A n \in DOMAIN schema \ {1} : pathTo[n] = pathBelow(pathTo[schema[n].parent], n)
  <1> DEFINE N == Len(schema)
             S == Seq(Keys)
             D == [x \in S \X (1..N) |-> pathBelow(x[1], x[2])]
  <1>1. N \in Nat /\ Ordered(parentOf, N) /\ DOMAIN schema = 1..N
    BY SchemaIsTree
  <1>2. \A n \in 1..N : schema[n].key \in Keys
    BY <1>1 DEF Keys
  <1>3. <<>> \in S /\ \A p \in S, n \in 1..N : pathBelow(p, n) \in S
    BY <1>2 DEF pathBelow
  <1>4. D \in [S \X (1..N) -> S] /\ \A p \in S, n \in 1..N : D[<<p, n>>] = pathBelow(p, n)
    BY <1>3
  <1> HIDE DEF N, D, S
  <1>5. PICK f \in [1..N -> S] : Labels(f, <<>>, parentOf, N, D)
    BY <1>1, <1>3, <1>4, Labelling DEF HasLabels
  <1>6. ASSUME NEW n \in DOMAIN schema
        PROVE  f[n] = IF n = 1 THEN <<>> ELSE pathBelow(f[schema[n].parent], n)
    <2>1. f[n] = IF schema[n].parent = 0 THEN <<>> ELSE D[<<f[schema[n].parent], n>>]
      BY <1>1, <1>5, SchemaIsTree DEF Labels
    <2>2. schema[n].parent = 0 <=> n = 1
      BY SchemaIsTree
    <2>3. n # 1 => f[schema[n].parent] \in S
      BY <1>1, <2>2, SchemaIsTree DEF Ordered
    <2> QED
      BY <1>1, <1>4, <2>1, <2>2, <2>3
  <1>7. f = [n \in DOMAIN schema |-> IF n = 1 THEN <<>> ELSE pathBelow(f[schema[n].parent], n)]
    BY <1>1, <1>6
  <1> DEFINE h == CHOOSE g : g = [n \in DOMAIN schema |->
                     IF n = 1 THEN <<>> ELSE pathBelow(g[schema[n].parent], n)]
  <1>8. h = [n \in DOMAIN schema |-> IF n = 1 THEN <<>> ELSE pathBelow(h[schema[n].parent], n)]
    BY <1>7
  <1>9. pathTo = h
    BY DEF pathTo, pathBelow
  <1> HIDE DEF h
  <1>10. \A n \in DOMAIN schema : h[n] = IF n = 1 THEN <<>> ELSE pathBelow(h[schema[n].parent], n)
    BY <1>8
  <1>11. \A n \in 1..N : h[n] \in S
    <2> DEFINE T == {n \in 1..N : h[n] \in S}
    <2>1. ASSUME NEW n \in 1..N, parentOf[n] = 0 \/ parentOf[n] \in T PROVE n \in T
      <3>1. parentOf[n] = schema[n].parent /\ (schema[n].parent = 0 <=> n = 1)
        BY <1>1, SchemaIsTree
      <3>2. CASE n = 1
        BY <1>1, <1>3, <1>10, <3>2
      <3>3. CASE n # 1
        <4>1. h[schema[n].parent] \in S
          BY <2>1, <3>1, <3>3
        <4> QED
          BY <1>1, <1>3, <1>10, <3>3, <4>1
      <3> QED
        BY <3>2, <3>3
    <2> HIDE DEF T
    <2>2. \A n \in 1..N : n \in T
      BY <1>1, <2>1, DownTheTree
    <2> QED
      BY <2>2 DEF T
  <1>12. h \in [DOMAIN schema -> S]
    BY <1>1, <1>8, <1>11
  <1> QED
    BY <1>9, <1>10, <1>12, SchemaIsTree DEF S

(***************************************************************************)
(* What nestedValue finds is found step by step.                           *)
(***************************************************************************)
Walked(args, path, upTo) ==
    /\ upTo[0] = {1} /\ nestedValue(args, path) = upTo[Len(path)]
    /\ \A i \in 1..Len(path) : upTo[i] = under(args, upTo[i - 1], path[i])

LEMMA NestedSteps ==
    ASSUME NEW args, NEW K, NEW path \in Seq(K)
    PROVE  \E upTo : Walked(args, path, upTo)
  <1> DEFINE n == Len(path)
             S == SUBSET (DOMAIN args \cup {1})
             step(found, i) == under(args, found, path[i])
             up == [i \in 1..(n + 1) |-> i - 1]
             D == [x \in S \X (1..(n + 1)) |-> step(x[1], x[2] - 1)]
  <1>1. n \in Nat /\ n + 1 \in Nat /\ Ordered(up, n + 1) /\ \A i \in 1..(n + 1) : up[i] = i - 1
    BY DEF Ordered
  <1>2. {1} \in S /\ \A found, i : step(found, i) \in S
    BY DEF under, member, children
  <1>3. D \in [S \X (1..(n + 1)) -> S]
        /\ \A found \in S, i \in 1..(n + 1) : D[<<found, i>>] = step(found, i - 1)
    BY <1>2
  <1> HIDE DEF n, S, up, D, step
  <1>4. PICK g \in [1..(n + 1) -> S] : Labels(g, {1}, up, n + 1, D)
    BY <1>1, <1>2, <1>3, Labelling DEF HasLabels
  <1> DEFINE f == [i \in 0..n |-> g[i + 1]]
  <1>5. ASSUME NEW i \in 0..n PROVE f[i] = IF i = 0 THEN {1} ELSE step(f[i - 1], i)
    <2>1. i + 1 \in 1..(n + 1) /\ f[i] = g[i + 1]
      BY <1>1
    <2> HIDE DEF f
    <2>2. g[i + 1] = IF i = 0 THEN {1} ELSE D[<<g[i], i + 1>>]
      <3>1. up[i + 1] = i
        BY <1>1, <2>1
      <3>2. g[i + 1] = IF up[i + 1] = 0 THEN {1} ELSE D[<<g[up[i + 1]], i + 1>>]
        BY <1>4, <2>1 DEF Labels
      <3> QED
        BY <3>1, <3>2
    <2>3. CASE i = 0
      BY <2>1, <2>2, <2>3
    <2>4. CASE i # 0
      <3>1. i \in 1..(n + 1) /\ i - 1 \in 0..n /\ f[i - 1] = g[i] /\ g[i] \in S
        BY <1>1, <2>4 DEF f
      <3>2. D[<<g[i], i + 1>>] = step(g[i], i)
        BY <1>1, <1>3, <2>1, <3>1
      <3> QED
        BY <2>1, <2>2, <2>4, <3>1, <3>2
    <2> QED
      BY <2>3, <2>4
  <1>6. f = [i \in 0..n |-> IF i = 0 THEN {1} ELSE step(f[i - 1], i)]
    <2> HIDE DEF f
    <2>1. f = [i \in 0..n |-> f[i]]
      BY DEF f
    <2> QED
      BY <1>5, <2>1
  <1> DEFINE h == CHOOSE u : u = [i \in 0..n |-> IF i = 0 THEN {1} ELSE step(u[i - 1], i)]
  <1>7. h = [i \in 0..n |-> IF i = 0 THEN {1} ELSE step(h[i - 1], i)]
    <2> HIDE DEF f
    <2> QED
      BY <1>6
  <1>8. nestedValue(args, path) = h[n]
    BY DEF nestedValue, n, step
  <1> HIDE DEF f, h
  <1>9. \A i \in 0..n : h[i] = IF i = 0 THEN {1} ELSE step(h[i - 1], i)
    BY <1>7
  <1>10. Walked(args, path, h)
    BY <1>1, <1>8, <1>9 DEF Walked, n, step
  <1> QED
    BY <1>10

LEMMA NestedValue ==
    ASSUME NEW args, NEW K, NEW path \in Seq(K), NEW key \in K
    PROVE  nestedValue(args, Append(path, key)) = under(args, nestedValue(args, path), key)
  <1> DEFINE longer == Append(path, key)
             n == Len(path)
  <1>1. longer \in Seq(K) /\ n \in Nat /\ Len(longer) = n + 1 /\ longer[n + 1] = key
        /\ \A i \in 1..n : longer[i] = path[i]
    OBVIOUS
  <1> HIDE DEF longer
  <1>2. PICK f : Walked(args, path, f)
    BY NestedSteps
  <1>3. PICK g : Walked(args, longer, g)
    BY <1>1, NestedSteps
  <1> DEFINE T == {i \in 0..n : f[i] = g[i]}
  <1> HIDE DEF n
  <1>4. 0 \in T
    <2>1. f[0] = g[0]
      BY <1>2, <1>3 DEF Walked
    <2> QED
      BY <1>1, <2>1
  <1>5. ASSUME NEW i \in 1..n, i - 1 \in T PROVE i \in T
    <2>1. f[i] = under(args, f[i - 1], path[i])
      BY <1>2 DEF Walked, n
    <2>2. g[i] = under(args, g[i - 1], longer[i])
      BY <1>1, <1>3 DEF Walked
    <2> QED
      BY <1>1, <1>5, <2>1, <2>2
  <1> HIDE DEF T
  <1>6. \A i \in 0..n : i \in T
    BY <1>1, <1>4, <1>5, StepByStep
  <1>7. g[n + 1] = under(args, g[n], key)
    <2>1. n + 1 \in 1..Len(longer) /\ (n + 1) - 1 = n
      BY <1>1
    <2> QED
      BY <1>1, <1>3, <2>1 DEF Walked
  <1>8. nestedValue(args, longer) = g[n + 1] /\ nestedValue(args, path) = f[n]
    BY <1>1, <1>2, <1>3 DEF Walked, n
  <1>9. f[n] = g[n]
    BY <1>1, <1>6 DEF T
  <1> QED
    BY <1>7, <1>8, <1>9 DEF longer

LEMMA NestedNowhere == ASSUME NEW args PROVE nestedValue(args, <<>>) = {1}
  <1>1. <<>> \in Seq({}) /\ Len(<<>>) = 0
    OBVIOUS
  <1>2. PICK f : Walked(args, <<>>, f)
    BY <1>1, NestedSteps
  <1> QED
    BY <1>1, <1>2 DEF Walked

(***************************************************************************)
(* Schema and arguments, walked together and one after the other.          *)
(***************************************************************************)
locatedBelow(up, n) ==
    CASE place[n] = "map" -> up
      [] place[n] = "property" -> under(arguments, up, schema[n].key)
      [] OTHER -> {}

LEMMA LocatedIs ==
    ASSUME schema \in Schemas
    PROVE  /\ located[1] = {1}
           /\ \A n \in DOMAIN schema \ {1} : located[n] = locatedBelow(located[schema[n].parent], n)
  <1> DEFINE N == Len(schema)
             S == SUBSET (DOMAIN arguments \cup {1})
             D == [x \in S \X (1..N) |-> locatedBelow(x[1], x[2])]
  <1>1. N \in Nat /\ Ordered(parentOf, N) /\ DOMAIN schema = 1..N
    BY SchemaIsTree
  <1>2. {1} \in S /\ \A found \in S, n \in 1..N : locatedBelow(found, n) \in S
    BY DEF locatedBelow, under, member, children
  <1>3. D \in [S \X (1..N) -> S] /\ \A p \in S, n \in 1..N : D[<<p, n>>] = locatedBelow(p, n)
    BY <1>2
  <1> HIDE DEF N, D, S
  <1>4. PICK f \in [1..N -> S] : Labels(f, {1}, parentOf, N, D)
    BY <1>1, <1>2, <1>3, Labelling DEF HasLabels
  <1>5. ASSUME NEW n \in DOMAIN schema
        PROVE  f[n] = IF n = 1 THEN {1} ELSE locatedBelow(f[schema[n].parent], n)
    <2>1. f[n] = IF schema[n].parent = 0 THEN {1} ELSE D[<<f[schema[n].parent], n>>]
      BY <1>1, <1>4, SchemaIsTree DEF Labels
    <2>2. schema[n].parent = 0 <=> n = 1
      BY SchemaIsTree
    <2>3. n # 1 => f[schema[n].parent] \in S
      BY <1>1, <2>2, SchemaIsTree DEF Ordered
    <2> QED
      BY <1>1, <1>3, <2>1, <2>2, <2>3
  <1>6. f = [n \in DOMAIN schema |-> IF n = 1 THEN {1} ELSE locatedBelow(f[schema[n].parent], n)]
    BY <1>1, <1>5
  <1> DEFINE h == CHOOSE g : g = [n \in DOMAIN schema |->
                     IF n = 1 THEN {1} ELSE locatedBelow(g[schema[n].parent], n)]
  <1>8. h = [n \in DOMAIN schema |-> IF n = 1 THEN {1} ELSE locatedBelow(h[schema[n].parent], n)]
    BY <1>6
  <1>9. located = h
    BY DEF located, locatedBelow
  <1> HIDE DEF h
  <1>10. \A n \in DOMAIN schema : h[n] = IF n = 1 THEN {1} ELSE locatedBelow(h[schema[n].parent], n)
    BY <1>8
  <1> QED
    BY <1>9, <1>10, SchemaIsTree

(* A property lies in a map, and a map in a property.                      *)
LEMMA PlacesAlternate ==
    ASSUME schema \in Schemas, NEW n \in DOMAIN schema, n # 1
    PROVE  /\ schema[n].parent \in DOMAIN schema /\ schema[n].parent < n
           /\ place[n] = "property" =>
                place[schema[n].parent] = "map" /\ schema[schema[n].parent].kind = "object"
           /\ place[n] = "map" =>
                place[schema[n].parent] = "property" /\ schema[n].key = "properties"
  <1>1. schema[n].parent \in 1..(n - 1) /\ n \in 1..Len(schema) /\ Len(schema) \in Nat
    BY SchemaIsTree DEF Ordered
  <1>2. place[n] = placeBelow(place[schema[n].parent], n)
    BY PlaceIs
  <1> QED
    BY <1>1, <1>2, SchemaIsTree DEF placeBelow

LEMMA ScanFindsWhatIsLocated ==
    ASSUME schema \in Schemas
    PROVE  \A n \in DOMAIN schema : place[n] \in {"property", "map"} =>
               located[n] = nestedValue(arguments, pathTo[n])
  <1> DEFINE T == {n \in DOMAIN schema : place[n] \in {"property", "map"} =>
                        located[n] = nestedValue(arguments, pathTo[n])}
             N == Len(schema)
  <1>1. N \in Nat /\ Ordered(parentOf, N) /\ DOMAIN schema = 1..N
    BY SchemaIsTree
  <1>2. ASSUME NEW n \in 1..N, parentOf[n] = 0 \/ parentOf[n] \in T PROVE n \in T
    <2> DEFINE p == schema[n].parent
    <2>1. n \in DOMAIN schema /\ parentOf[n] = p /\ (p = 0 <=> n = 1)
      BY <1>1, SchemaIsTree
    <2>2. CASE n = 1
      <3>1. located[1] = {1} /\ pathTo[1] = <<>>
        BY LocatedIs, PathIs
      <3> QED
        BY <2>1, <2>2, <3>1, NestedNowhere
    <2>3. CASE n # 1
      <3>1. p \in DOMAIN schema /\ located[n] = locatedBelow(located[p], n)
            /\ pathTo[n] = pathBelow(pathTo[p], n)
        BY <2>1, <2>3, PlacesAlternate, LocatedIs, PathIs
      <3>2. place[p] \in {"property", "map"} => located[p] = nestedValue(arguments, pathTo[p])
        BY <1>2, <2>1, <2>3
      <3>3. CASE place[n] = "property"
        <4>1. located[p] = nestedValue(arguments, pathTo[p])
          BY <2>1, <2>3, <3>2, <3>3, PlacesAlternate
        <4>2. pathTo[p] \in Seq(Keys) /\ schema[n].key \in Keys
          BY <2>1, <3>1, PathIs DEF Keys
        <4>3. nestedValue(arguments, Append(pathTo[p], schema[n].key))
                = under(arguments, nestedValue(arguments, pathTo[p]), schema[n].key)
          BY <4>2, NestedValue
        <4>4. located[n] = under(arguments, located[p], schema[n].key)
          BY <3>1, <3>3 DEF locatedBelow
        <4>5. pathTo[n] = Append(pathTo[p], schema[n].key)
          BY <3>1, <3>3 DEF pathBelow
        <4> QED
          BY <2>1, <4>1, <4>3, <4>4, <4>5
      <3>4. CASE place[n] = "map"
        <4>1. located[p] = nestedValue(arguments, pathTo[p])
          BY <2>1, <2>3, <3>2, <3>4, PlacesAlternate
        <4>2. located[n] = located[p] /\ pathTo[n] = pathTo[p]
          BY <3>1, <3>4 DEF locatedBelow, pathBelow
        <4> QED
          BY <2>1, <4>1, <4>2
      <3> QED
        BY <2>1, <3>3, <3>4
    <2> QED
      BY <2>2, <2>3
  <1> HIDE DEF T
  <1>3. \A n \in 1..N : n \in T
    BY <1>1, <1>2, DownTheTree
  <1> QED
    BY <1>1, <1>3 DEF T

(* A member of an object is the only one of its key.                       *)
LEMMA OneMember ==
    ASSUME NEW tree, isTree(tree), NEW n \in DOMAIN tree, NEW key,
           NEW a \in member(tree, n, key), NEW b \in member(tree, n, key)
    PROVE  a = b
  BY DEF isTree, member, children

LEMMA OneLocated ==
    ASSUME schema \in Schemas, arguments \in Arguments
    PROVE  \A n \in DOMAIN schema : located[n] \subseteq DOMAIN arguments
               /\ \A a, b \in located[n] : a = b
  <1> DEFINE One(found) == found \subseteq DOMAIN arguments /\ \A a, b \in found : a = b
             T == {n \in DOMAIN schema : One(located[n])}
             N == Len(schema)
  <1>1. N \in Nat /\ Ordered(parentOf, N) /\ DOMAIN schema = 1..N
    BY SchemaIsTree
  <1>2. isTree(arguments) /\ 1 \in DOMAIN arguments
    BY SchemaAssumption DEF isTree
  <1>3. ASSUME NEW found, One(found), NEW key PROVE One(under(arguments, found, key))
    <2>1. ASSUME NEW a \in under(arguments, found, key), NEW b \in under(arguments, found, key)
          PROVE  a = b
      <3>1. PICK m \in found : a \in member(arguments, m, key) /\ b \in member(arguments, m, key)
        BY <1>3, <2>1 DEF under
      <3> QED
        BY <1>2, <1>3, <3>1, OneMember
    <2>2. under(arguments, found, key) \subseteq DOMAIN arguments
      BY DEF under, member, children
    <2> QED
      BY <2>1, <2>2
  <1>4. ASSUME NEW n \in 1..N, parentOf[n] = 0 \/ parentOf[n] \in T PROVE n \in T
    <2> DEFINE p == schema[n].parent
    <2>1. n \in DOMAIN schema /\ parentOf[n] = p /\ (p = 0 <=> n = 1)
      BY <1>1, SchemaIsTree
    <2>2. CASE n = 1
      BY <1>2, <2>1, <2>2, LocatedIs
    <2>3. CASE n # 1
      <3>1. located[n] = locatedBelow(located[p], n)
        BY <2>1, <2>3, LocatedIs
      <3>2. One(located[p])
        BY <1>4, <2>1, <2>3
      <3> HIDE DEF One
      <3>3. One(under(arguments, located[p], schema[n].key))
        BY <1>3, <3>2
      <3>4. One({})
        BY DEF One
      <3> QED
        BY <2>1, <3>1, <3>2, <3>3, <3>4 DEF locatedBelow
    <2> QED
      BY <2>2, <2>3
  <1> HIDE DEF T
  <1>5. \A n \in 1..N : n \in T
    BY <1>1, <1>4, DownTheTree
  <1> QED
    BY <1>1, <1>5 DEF T

(* A server that undoes the encoding has the text.                         *)
LEMMA Decoded ==
    ASSUME NEW S, NEW text \in Seq(S)
    PROVE  decoded(encodeHeaderValue(text)) = text
  <1>1. CASE text \in PlainText /\ text[1] # Base64
    BY <1>1 DEF decoded, encodeHeaderValue
  <1>2. CASE ~(text \in PlainText /\ text[1] # Base64)
    <2> DEFINE sent == <<Base64>> \o text
    <2>1. sent \in Seq(S \cup {Base64}) /\ sent[1] = Base64 /\ Len(sent) = 1 + Len(text)
          /\ \A i \in 1..Len(text) : sent[i + 1] = text[i]
      OBVIOUS
    <2> HIDE DEF sent
    <2>2. Tail(sent) = text
      BY <2>1
    <2>3. encodeHeaderValue(text) = sent
      BY <1>2 DEF encodeHeaderValue, sent
    <2> QED
      BY <2>1, <2>2, <2>3 DEF decoded
  <1> QED
    BY <1>1, <1>2

(***************************************************************************)
(* A schema does not change, and so neither does what is said of it.       *)
(***************************************************************************)
LEMMA Fixed ==
    ASSUME schema' = schema
    PROVE  /\ place' = place /\ pathTo' = pathTo
           /\ headed' = headed /\ sound' = sound /\ clashing' = clashing /\ illFormed' = illFormed
           /\ \A n : /\ frameOf(n)' = frameOf(n) /\ container(n)' = container(n)
                     /\ skipped(n)' = skipped(n) /\ bindingOf(n)' = bindingOf(n)
                     /\ annotation(n)' = annotation(n) /\ typeOf(n)' = typeOf(n)
  <1>1. place' = place
    BY DEF place
  <1>2. pathTo' = pathTo
    BY <1>1 DEF pathTo
  <1>3. \A n : annotation(n)' = annotation(n) /\ typeOf(n)' = typeOf(n)
    BY DEF annotation, typeOf
  <1>4. \A n : named(n)' = named(n) /\ typed(n)' = typed(n)
    BY <1>3 DEF named, typed
  <1>5. headed' = headed /\ illFormed' = illFormed
    BY <1>1 DEF headed, illFormed
  <1>6. sound' = sound
    BY <1>1, <1>4, <1>5 DEF sound
  <1>7. clashing' = clashing
    BY <1>3, <1>6 DEF clashing, sameHeader
  <1>8. \A n : frameOf(n)' = frameOf(n) /\ bindingOf(n)' = bindingOf(n)
    BY <1>1, <1>2, <1>3 DEF frameOf, roleFor, bindingOf
  <1>9. \A n : container(n)' = container(n) /\ skipped(n)' = skipped(n)
    BY <1>1 DEF container, skipped
  <1> QED
    BY <1>1, <1>2, <1>3, <1>5, <1>6, <1>7, <1>8, <1>9

LEMMA TheAnnotation ==
    ASSUME schema \in Schemas, NEW n \in DOMAIN schema
    PROVE  /\ \A a \in member(schema, n, "x-mcp-header") : annotation(n) = schema[a]
           /\ \A t \in member(schema, n, "type") : typeOf(n) = schema[t].text[1]
  <1> DEFINE A == member(schema, n, "x-mcp-header")
             T == member(schema, n, "type")
  <1>1. (\A a, b \in A : a = b) /\ (\A a, b \in T : a = b)
    BY SchemaIsTree, OneMember
  <1>2. annotation(n) = schema[CHOOSE m \in A : TRUE] /\ typeOf(n) = schema[CHOOSE t \in T : TRUE].text[1]
    BY DEF annotation, typeOf
  <1> HIDE DEF A, T
  <1>3. (\A a \in A : a = CHOOSE m \in A : TRUE) /\ (\A t \in T : t = CHOOSE m \in T : TRUE)
    BY <1>1
  <1> QED
    BY <1>2, <1>3 DEF A, T

(***************************************************************************)
(* What a step scans next.                                                 *)
(***************************************************************************)
LEMMA CallUnderWay ==
    ASSUME Visited, trail # <<>>
    PROVE  \E p \in entered : Last(trail) = frameOf(p) /\ frameOf(p) \in Range(trail)
  <1> DEFINE A == {frameOf(n) : n \in entered}
  <1>1. trail \in Seq(A) /\ Len(trail) \in Nat /\ DOMAIN trail = 1..Len(trail) /\ Len(trail) # 0
    BY DEF Visited
  <1>2. Last(trail) = trail[Len(trail)] /\ Len(trail) \in DOMAIN trail
    BY <1>1 DEF Last
  <1>3. trail[Len(trail)] \in A
    BY <1>1
  <1> QED
    BY <1>2, <1>3 DEF Range

LEMMA NextFrame ==
    ASSUME Visited, Ended, outcome = "scanning", NEW frame \in candidates
    PROVE  /\ frame.node \in DOMAIN schema \ seen
           /\ frame = frameOf(frame.node)
           /\ seen = {} => frame.node = 1
  <1>1. CASE seen = {}
    <2>1. frame = Root /\ 1 \in DOMAIN schema /\ place[1] = "property" /\ pathTo[1] = <<>>
      BY <1>1, SchemaIsTree, PlaceIs, PathIs DEF candidates, Visited
    <2> QED
      BY <1>1, <2>1 DEF Root, frameOf, roleFor
  <1>2. CASE seen # {}
    <2>1. PICK p \in entered : Last(trail) = frameOf(p)
      BY <1>2, CallUnderWay DEF Ended
    <2>2. PICK n \in unscanned(frameOf(p)) : frame = inside(frameOf(p), n)
      BY <1>2, <2>1 DEF candidates
    <2>3. /\ p \in DOMAIN schema /\ container(p) /\ frameOf(p).node = p
          /\ frameOf(p).role = roleFor(p) /\ frameOf(p).path = pathTo[p]
      BY DEF Visited, entered, frameOf
    <2>4. n \in DOMAIN schema \ seen /\ schema[n].parent = p /\ n # 1
      <3>1. n \in children(schema, p) \ seen
        BY <2>2, <2>3 DEF unscanned
      <3>2. p # 0
        BY <2>3, SchemaIsTree DEF Visited
      <3> QED
        BY <3>1, <3>2, SchemaIsTree DEF children, Visited
    <2>5. place[n] = placeBelow(place[p], n) /\ pathTo[n] = pathBelow(pathTo[p], n) /\ place[p] \in Places
      BY <2>3, <2>4, PlaceIs, PathIs DEF Visited
    <2>6. roleOf(frameOf(p), n) = roleFor(n)
      <3>1. CASE place[p] = "map"
        <4>1. schema[p].kind = "object"
          BY <2>3, <3>1 DEF container
        <4> QED
          BY <2>3, <2>4, <2>5, <3>1, <4>1 DEF placeBelow, roleOf, roleFor
      <3>2. CASE place[p] = "property"
        BY <2>3, <2>4, <2>5, <3>2 DEF placeBelow, roleOf, roleFor
      <3>3. CASE place[p] = "plain"
        BY <2>3, <2>4, <2>5, <3>3 DEF placeBelow, roleOf, roleFor
      <3> QED
        BY <2>5, <3>1, <3>2, <3>3 DEF Places
    <2>7. pathTo[n] = IF frameOf(p).role = "properties" THEN Append(frameOf(p).path, schema[n].key)
                      ELSE frameOf(p).path
      <3>1. place[n] = "property" <=> place[p] = "map"
        BY <2>3, <2>4, <2>5 DEF placeBelow, container
      <3>2. frameOf(p).role = "properties" <=> place[p] = "map"
        BY <2>3 DEF roleFor
      <3> QED
        BY <2>3, <2>5, <3>1, <3>2 DEF pathBelow
    <2>8. frame = frameOf(n)
      BY <2>2, <2>6, <2>7 DEF inside, frameOf
    <2> QED
      BY <1>2, <2>4, <2>8 DEF frameOf
  <1> QED
    BY <1>1, <1>2

LEMMA WhatIsScanned ==
    ASSUME schema \in Schemas, NEW n \in DOMAIN schema
    PROVE  /\ malformed(frameOf(n)) <=> n \in illFormed
           /\ schema[n].kind = "object" => (annotated(frameOf(n)) <=> n \in headed)
           /\ named(n) /\ typed(n) /\ frameOf(n).role = "schema" /\ frameOf(n).path # <<>> <=>
                place[n] = "property" /\ n # 1 /\ named(n) /\ typed(n)
  <1>1. frameOf(n) = Root <=> n = 1
    BY PlaceIs, PathIs DEF frameOf, roleFor, Root
  <1>2. frameOf(n).role = "properties" <=> place[n] = "map"
    BY DEF frameOf, roleFor
  <1>3. frameOf(n).role = "schema" <=> place[n] = "property"
    BY DEF frameOf, roleFor
  <1>4. place[n] = "property" => (pathTo[n] # <<>> <=> n # 1)
    <2>1. CASE n = 1
      BY <2>1, PathIs
    <2>2. CASE n # 1 /\ place[n] = "property"
      <3>1. pathTo[n] = Append(pathTo[schema[n].parent], schema[n].key)
        BY <2>2, PathIs DEF pathBelow
      <3>2. pathTo[schema[n].parent] \in Seq(Keys) /\ schema[n].key \in Keys
        BY <2>2, PlacesAlternate, PathIs DEF Keys
      <3>3. Append(pathTo[schema[n].parent], schema[n].key) # <<>>
        BY <3>2
      <3> QED
        BY <2>2, <3>1, <3>3
    <2> QED
      BY <2>1, <2>2
  <1>5. malformed(frameOf(n)) <=> n \in illFormed
    BY <1>1, <1>2 DEF malformed, illFormed, frameOf
  <1>6. schema[n].kind = "object" => (annotated(frameOf(n)) <=> n \in headed)
    BY <1>2 DEF annotated, headed, frameOf
  <1> QED
    BY <1>3, <1>4, <1>5, <1>6 DEF frameOf

(***************************************************************************)
(* The steps of a scan.                                                    *)
(***************************************************************************)
Pushed(more, s, x) == more = Append(s, x)
Of(s, A) == s \in Seq(A)

LEMMA MoreFrames ==
    ASSUME NEW A, NEW B, A \subseteq B, NEW s, Of(s, A), NEW x \in B, NEW more, Pushed(more, s, x)
    PROVE  Of(more, B) /\ more # <<>> /\ Range(more) = Range(s) \cup {x}
  <1>1. s \in Seq(B)
    BY DEF Of
  <1>2. /\ Len(s) \in Nat /\ DOMAIN s = 1..Len(s) /\ DOMAIN more = 1..(Len(s) + 1)
        /\ more[Len(s) + 1] = x /\ \A i \in 1..Len(s) : more[i] = s[i]
    BY <1>1 DEF Pushed
  <1>3. Of(more, B) /\ more # <<>>
    BY <1>1 DEF Pushed, Of
  <1>4. Range(more) = Range(s) \cup {x}
    BY <1>2 DEF Range
  <1> QED
    BY <1>3, <1>4

LEMMA Entering ==
    ASSUME Visited, Covered, Ended, outcome = "scanning", NEW frame \in candidates,
           schema' = schema, outcome' = outcome, seen' = seen \cup {frame.node},
           \/ container(frame.node) /\ trail' = Append(trail, frame)
           \/ children(schema, frame.node) = {} /\ seen # {} /\ trail' = trail
    PROVE  Visited' /\ Covered' /\ Ended'
  <1> DEFINE n == frame.node
             A == {frameOf(m) : m \in entered}
             B == {frameOf(m) : m \in entered'}
  <1>1. n \in DOMAIN schema \ seen /\ frame = frameOf(n) /\ (seen = {} => n = 1)
    BY NextFrame
  <1>2. entered' = {m \in seen \cup {n} : container(m)}
    BY Fixed DEF entered
  <1>3. A \subseteq B /\ trail \in Seq(A) /\ (container(n) => frame \in B)
    BY <1>1, <1>2 DEF Visited, entered
  <1>4. trail' \in Seq(B) /\ Range(trail) \subseteq Range(trail')
        /\ (container(n) /\ trail' = Append(trail, frame) => frame \in Range(trail') /\ trail' # <<>>)
    <2> HIDE DEF A, B, n
    <2>1. CASE container(n) /\ trail' = Append(trail, frame)
      <3>1. Pushed(trail', trail, frame)
        BY <2>1 DEF Pushed
      <3>2. trail' \in Seq(B) /\ trail' # <<>> /\ Range(trail') = Range(trail) \cup {frame}
        <4>1. A \subseteq B /\ Of(trail, A) /\ frame \in B
          BY <1>3, <2>1 DEF Of
        <4>2. Of(trail', B) /\ trail' # <<>> /\ Range(trail') = Range(trail) \cup {frame}
          BY <3>1, <4>1, MoreFrames
        <4> QED
          BY <4>2 DEF Of
      <3> QED
        BY <3>2
    <2>2. CASE trail' = trail /\ ~(container(n) /\ trail' = Append(trail, frame))
      <3>1. trail \in Seq(B)
        BY <1>3
      <3> QED
        BY <2>2, <3>1
    <2> QED
      BY <2>1, <2>2 DEF n
  <1>5. {frameOf(m) : m \in entered}' = B
    BY Fixed
  <1>6. Visited'
    <2>1. schema' \in Schemas /\ seen' \subseteq DOMAIN schema' /\ (seen' # {} => 1 \in seen')
      BY <1>1 DEF Visited
    <2>2. trail' \in Seq({frameOf(m) : m \in entered}')
      BY <1>4, <1>5
    <2> QED
      BY <2>1, <2>2 DEF Visited
  <1>7. ASSUME NEW m \in seen'
        PROVE  \/ frameOf(m) \in Range(trail')
               \/ \A c \in children(schema, m) : c \in seen' \/ skipped(c)
    <2>1. CASE m \in seen
      BY <1>4, <2>1 DEF Covered
    <2>2. CASE m = n
      BY <1>1, <1>4, <2>2
    <2> QED
      BY <2>1, <2>2
  <1>8. Covered'
    <2>1. \A m : children(schema, m)' = children(schema, m)
      BY DEF children
    <2> QED
      BY <1>7, <2>1, Fixed DEF Covered
  <1>9. Ended'
    <2>1. trail' # <<>> /\ seen' # {}
      BY <1>4 DEF Ended
    <2> QED
      BY <2>1 DEF Ended
  <1> QED
    BY <1>6, <1>8, <1>9

LEMMA NothingFound ==
    ASSUME Visited, Collected, NEW n \in DOMAIN schema, n \notin headed, n \notin illFormed,
           schema' = schema, seen' = seen \cup {n}, names' = names, bindings' = bindings
    PROVE  Collected'
  <1>1. taken' = taken
    BY Fixed DEF taken
  <1>2. /\ taken' \subseteq sound' /\ illFormed' \cap seen' = {}
        /\ \A a, b \in taken' : sameHeader(a, b)' => a = b
    BY <1>1, Fixed DEF Collected, sameHeader
  <1>3. {Lower[annotation(m).text] : m \in taken}' = {Lower[annotation(m).text] : m \in taken}
        /\ {bindingOf(m) : m \in taken}' = {bindingOf(m) : m \in taken}
    BY <1>1, Fixed
  <1> QED
    BY <1>1, <1>2, <1>3 DEF Collected

LEMMA Binding ==
    ASSUME Visited, Ended, Collected, outcome = "scanning", NEW frame \in candidates, Bind(frame)
    PROVE  Collected'
  <1> DEFINE n == frame.node
  <1>1. n \in DOMAIN schema \ seen /\ frame = frameOf(n) /\ schema \in Schemas
    BY NextFrame DEF Visited
  <1>2. schema' = schema /\ schema[n].kind = "object" /\ annotated(frame) /\ acceptable(frame)
    BY DEF Bind
  <1>3. seen' = seen \cup {n}
    BY DEF Bind, Descend
  <1>4. /\ names' = names \cup {Lower[annotation(n).text]}
        /\ bindings' = bindings \cup {[name |-> annotation(n).text, type |-> typeOf(n), path |-> frame.path]}
    BY DEF Bind
  <1>5. n \in headed /\ n \in sound /\ Lower[annotation(n).text] \notin names
    <2>1. n \in headed
      BY <1>1, <1>2, WhatIsScanned
    <2>2. /\ named(n) /\ typed(n) /\ frameOf(n).role = "schema" /\ frameOf(n).path # <<>>
          /\ Lower[annotation(n).text] \notin names
      BY <1>1, <1>2 DEF acceptable
    <2> QED
      BY <1>1, <2>1, <2>2, WhatIsScanned DEF sound
  <1>6. n \notin illFormed
    BY <1>2 DEF illFormed
  <1>7. taken' = taken \cup {n}
    BY <1>2, <1>3, <1>5, Fixed DEF taken
  <1>8. frame.path = pathTo[n]
    BY <1>1 DEF frameOf
  <1>9. \A m \in taken : ~sameHeader(m, n) /\ ~sameHeader(n, m)
    BY <1>5 DEF Collected, sameHeader
  <1>10. /\ taken' \subseteq sound' /\ illFormed' \cap seen' = {}
         /\ \A a, b \in taken' : sameHeader(a, b)' => a = b
    BY <1>2, <1>3, <1>5, <1>6, <1>7, <1>9, Fixed DEF Collected, sameHeader
  <1>11. names' = {Lower[annotation(m).text] : m \in taken}'
    BY <1>2, <1>4, <1>7, Fixed DEF Collected
  <1>12. bindings' = {bindingOf(m) : m \in taken}'
    <2>1. bindings' = bindings \cup {bindingOf(n)}
      BY <1>4, <1>8 DEF bindingOf
    <2>2. {bindingOf(m) : m \in taken}' = {bindingOf(m) : m \in taken \cup {n}}
      BY <1>2, <1>7, Fixed
    <2>3. bindings = {bindingOf(m) : m \in taken}
      BY DEF Collected
    <2> QED
      BY <2>1, <2>2, <2>3
  <1> QED
    BY <1>10, <1>11, <1>12 DEF Collected

LEMMA NothingLeft ==
    ASSUME schema \in Schemas, NEW p \in DOMAIN schema, container(p), unscanned(frameOf(p)) = {}
    PROVE  \A m \in children(schema, p) : m \in seen \/ skipped(m)
  <1> DEFINE Rest == children(schema, p) \ seen
  <1>1. frameOf(p).node = p /\ (frameOf(p).role = "properties" <=> place[p] = "map")
    BY DEF frameOf, roleFor
  <1>2. CASE schema[p].kind = "list"
    <2> SUFFICES ASSUME Rest # {} PROVE FALSE
      OBVIOUS
    <2>1. Rest \subseteq Nat
      BY SchemaIsTree DEF children
    <2> HIDE DEF Rest
    <2>2. PICK n \in Rest : \A m \in Rest : n <= m
      BY <2>1, LeastNumber
    <2>3. n \in unscanned(frameOf(p))
      BY <1>1, <1>2, <2>2 DEF unscanned, Rest
    <2> QED
      BY <2>3
  <1>3. CASE schema[p].kind = "object"
    <2>1. ASSUME NEW m \in Rest PROVE skipped(m)
      <3>1. schema[m].parent = p /\ schema[m].key = "x-mcp-header" /\ frameOf(p).role # "properties"
        BY <1>1, <1>3, <2>1 DEF unscanned, children
      <3> QED
        BY <1>1, <1>3, <3>1 DEF skipped
    <2> QED
      BY <2>1
  <1> QED
    BY <1>2, <1>3 DEF container

LEMMA FewerFrames ==
    ASSUME NEW A, NEW s, Of(s, A), s # <<>>
    PROVE  /\ Of(Front(s), A) /\ (Front(s) = <<>> <=> Len(s) = 1)
           /\ Range(s) \subseteq Range(Front(s)) \cup {Last(s)}
  <1> DEFINE r == Front(s)
  <1>1. s \in Seq(A) /\ Len(s) \in Nat \ {0} /\ DOMAIN s = 1..Len(s)
    BY DEF Of
  <1>2. r \in Seq(A) /\ Len(r) = Len(s) - 1 /\ DOMAIN r = 1..(Len(s) - 1)
        /\ \A i \in 1..(Len(s) - 1) : r[i] = s[i]
    BY <1>1 DEF Front
  <1>3. Last(s) = s[Len(s)]
    BY DEF Last
  <1> HIDE DEF r
  <1>4. r = <<>> <=> Len(s) = 1
    BY <1>1, <1>2
  <1>5. \A i \in DOMAIN s : s[i] \in Range(r) \cup {Last(s)}
    BY <1>1, <1>2, <1>3 DEF Range
  <1> QED
    BY <1>2, <1>4, <1>5 DEF r, Of, Range

LEMMA Leaving ==
    ASSUME Visited, Covered, Ended, outcome = "scanning", Leave
    PROVE  Visited' /\ Covered' /\ Ended'
  <1> DEFINE A == {frameOf(m) : m \in entered}
  <1>1. seen # {} /\ candidates = {} /\ trail' = Front(trail) /\ schema' = schema /\ seen' = seen
        /\ outcome' = IF Len(trail) = 1 THEN "valid" ELSE "scanning"
    BY DEF Leave
  <1>2. trail # <<>> /\ Of(trail, A)
    BY <1>1 DEF Ended, Visited, Of
  <1>3. PICK p \in entered : Last(trail) = frameOf(p)
    BY <1>2, CallUnderWay
  <1>4. \A m \in children(schema, p) : m \in seen \/ skipped(m)
    <2>1. unscanned(frameOf(p)) = {}
      BY <1>1, <1>3 DEF candidates
    <2>2. p \in DOMAIN schema /\ container(p) /\ schema \in Schemas
      BY DEF Visited, entered
    <2> QED
      BY <2>1, <2>2, NothingLeft
  <1> HIDE DEF A
  <1>5. /\ Of(trail', A) /\ (trail' = <<>> <=> Len(trail) = 1)
        /\ Range(trail) \subseteq Range(trail') \cup {frameOf(p)}
    BY <1>1, <1>2, <1>3, FewerFrames
  <1>6. entered' = entered /\ {frameOf(m) : m \in entered}' = A
    <2>1. entered' = entered
      BY <1>1, Fixed DEF entered
    <2> QED
      BY <1>1, <2>1, Fixed DEF A
  <1>7. Visited'
    <2>1. trail' \in Seq({frameOf(m) : m \in entered}')
      BY <1>5, <1>6 DEF Of
    <2> QED
      BY <1>1, <2>1 DEF Visited
  <1>8. ASSUME NEW m \in seen
        PROVE  \/ frameOf(m) \in Range(trail')
               \/ \A c \in children(schema, m) : c \in seen \/ skipped(c)
    <2>1. CASE frameOf(m) = frameOf(p)
      <3>1. m = p
        BY <2>1 DEF frameOf
      <3> QED
        BY <1>4, <3>1
    <2>2. CASE frameOf(m) # frameOf(p)
      BY <1>5, <2>2 DEF Covered
    <2> QED
      BY <2>1, <2>2
  <1>9. Covered'
    <2>1. \A m : children(schema, m)' = children(schema, m)
      BY <1>1 DEF children
    <2> QED
      BY <1>1, <1>8, <2>1, Fixed DEF Covered
  <1>10. Ended'
    BY <1>1, <1>5 DEF Ended
  <1> QED
    BY <1>7, <1>9, <1>10

LEMMA NoMembers == ASSUME schema \in Schemas, NEW n \in DOMAIN schema, schema[n].kind \notin {"object", "list"}
                   PROVE  children(schema, n) = {}
  BY SchemaIsTree DEF isTree, children

LEMMA SameFinds ==
    ASSUME Collected, UNCHANGED <<schema, seen, names, bindings>>
    PROVE  Collected'
  <1>1. taken' = taken
    BY Fixed DEF taken
  <1>2. {Lower[annotation(m).text] : m \in taken}' = {Lower[annotation(m).text] : m \in taken}
        /\ {bindingOf(m) : m \in taken}' = {bindingOf(m) : m \in taken}
    BY <1>1, Fixed
  <1>3. /\ taken' \subseteq sound' /\ illFormed' \cap seen' = {}
        /\ \A a, b \in taken' : sameHeader(a, b)' => a = b
    BY <1>1, Fixed DEF Collected, sameHeader
  <1> QED
    BY <1>1, <1>2, <1>3 DEF Collected

LEMMA StillScanned ==
    ASSUME Visited, Covered, Collected, UNCHANGED <<schema, scan>>
    PROVE  Visited' /\ Covered' /\ Collected'
  <1>1. schema' = schema /\ trail' = trail /\ seen' = seen /\ names' = names /\ bindings' = bindings
    BY DEF scan
  <1>2. entered' = entered
    BY <1>1, Fixed DEF entered
  <1>3. {frameOf(m) : m \in entered}' = {frameOf(m) : m \in entered}
    BY <1>1, <1>2, Fixed
  <1>4. Visited'
    BY <1>1, <1>3 DEF Visited
  <1>5. Covered'
    <2>1. \A m : children(schema, m)' = children(schema, m)
      BY <1>1 DEF children
    <2> QED
      BY <1>1, <2>1, Fixed DEF Covered
  <1> QED
    BY <1>1, <1>4, <1>5, SameFinds

(***************************************************************************)
(* Every step of the scan keeps the invariant.                             *)
(***************************************************************************)
LEMMA ScanKeepsIInv ==
    ASSUME IInv, Scan
    PROVE  Visited' /\ Covered' /\ Collected' /\ Ended' /\ VerdictJustified'
  <1> USE DEF IInv
  <1>1. outcome = "scanning" /\ schema \in Schemas
    BY DEF Scan, Visited
  <1>2. CASE Leave
    <2>1. schema' = schema /\ seen' = seen /\ names' = names /\ bindings' = bindings
          /\ outcome' \in {"valid", "scanning"}
      BY <1>2 DEF Leave
    <2>2. Collected'
      BY <2>1, SameFinds
    <2>3. VerdictJustified'
      BY <2>1 DEF VerdictJustified
    <2> QED
      BY <1>1, <1>2, <2>2, <2>3, Leaving
  <1>3. ASSUME NEW frame \in candidates,
               \/ ScanScalar(frame) \/ ScanList(frame) \/ ScanObject(frame)
               \/ Bind(frame) \/ Exclude(frame) \/ Reject(frame)
        PROVE  Visited' /\ Covered' /\ Collected' /\ Ended' /\ VerdictJustified'
    <2> DEFINE n == frame.node
    <2>1. n \in DOMAIN schema \ seen /\ frame = frameOf(n) /\ (seen = {} => n = 1)
      BY <1>1, NextFrame
    <2>2. malformed(frame) <=> n \in illFormed
      BY <1>1, <2>1, WhatIsScanned
    <2>3. schema[n].kind = "object" => n \notin illFormed /\ (annotated(frame) <=> n \in headed)
      BY <1>1, <2>1, WhatIsScanned DEF illFormed
    <2>4. schema[n].kind # "object" => n \notin headed
      BY DEF headed
    <2>5. CASE ScanScalar(frame)
      <3>1. /\ schema' = schema /\ outcome' = outcome /\ seen' = seen \cup {n} /\ trail' = trail
            /\ names' = names /\ bindings' = bindings /\ n \notin illFormed
            /\ schema[n].kind \notin {"object", "list"}
        BY <2>2, <2>5 DEF ScanScalar
      <3>2. children(schema, n) = {}
        BY <1>1, <2>1, <3>1, NoMembers
      <3>3. seen # {}
        BY <2>1, <3>1 DEF illFormed
      <3>4. Visited' /\ Covered' /\ Ended'
        BY <1>1, <3>1, <3>2, <3>3, Entering
      <3>5. Collected'
        BY <2>1, <2>4, <3>1, NothingFound
      <3>6. VerdictJustified'
        BY <1>1, <3>1 DEF VerdictJustified
      <3> QED
        BY <3>4, <3>5, <3>6
    <2>6. CASE ScanList(frame)
      <3>1. /\ schema' = schema /\ outcome' = outcome /\ seen' = seen \cup {n}
            /\ trail' = Append(trail, frame)
            /\ names' = names /\ bindings' = bindings /\ n \notin illFormed
            /\ schema[n].kind = "list"
        BY <2>2, <2>6 DEF ScanList, Descend
      <3>2. container(n)
        BY <2>1, <3>1 DEF container, illFormed
      <3>3. Visited' /\ Covered' /\ Ended'
        BY <1>1, <3>1, <3>2, Entering
      <3>4. Collected'
        BY <2>1, <2>4, <3>1, NothingFound
      <3>5. VerdictJustified'
        BY <1>1, <3>1 DEF VerdictJustified
      <3> QED
        BY <3>3, <3>4, <3>5
    <2>7. CASE ScanObject(frame)
      <3>1. /\ schema' = schema /\ outcome' = outcome /\ seen' = seen \cup {n}
            /\ trail' = Append(trail, frame)
            /\ names' = names /\ bindings' = bindings
            /\ schema[n].kind = "object" /\ ~annotated(frame)
        BY <2>7 DEF ScanObject, Descend
      <3>2. container(n)
        BY <3>1 DEF container
      <3>3. Visited' /\ Covered' /\ Ended'
        BY <1>1, <3>1, <3>2, Entering
      <3>4. Collected'
        BY <2>1, <2>3, <3>1, NothingFound
      <3>5. VerdictJustified'
        BY <1>1, <3>1 DEF VerdictJustified
      <3> QED
        BY <3>3, <3>4, <3>5
    <2>8. CASE Bind(frame)
      <3>1. /\ schema' = schema /\ outcome' = outcome /\ seen' = seen \cup {n}
            /\ trail' = Append(trail, frame) /\ schema[n].kind = "object"
        BY <2>8 DEF Bind, Descend
      <3>2. container(n)
        BY <3>1 DEF container
      <3>3. Visited' /\ Covered' /\ Ended'
        BY <1>1, <3>1, <3>2, Entering
      <3>4. Collected'
        BY <1>1, <2>8, Binding
      <3>5. VerdictJustified'
        BY <1>1, <3>1 DEF VerdictJustified
      <3> QED
        BY <3>3, <3>4, <3>5
    <2>9. CASE Exclude(frame)
      <3>1. /\ schema' = schema /\ trail' = trail /\ seen' = seen /\ names' = names
            /\ bindings' = bindings /\ outcome' = "excluded"
            /\ schema[n].kind = "object" /\ annotated(frame) /\ ~acceptable(frame)
        BY <2>9 DEF Exclude, scan
      <3>2. n \in headed
        BY <2>3, <3>1
      <3>3. headed # sound \/ clashing # {}
        <4> SUFFICES ASSUME n \in sound PROVE n \in clashing
          BY <3>2
        <4>1. named(n) /\ typed(n) /\ place[n] = "property" /\ n # 1
          BY DEF sound
        <4>2. frame.role = "schema" /\ frame.path # <<>>
          BY <1>1, <2>1, <4>1, WhatIsScanned
        <4>3. Lower[annotation(n).text] \in names
          BY <3>1, <4>1, <4>2 DEF acceptable
        <4>4. PICK m \in taken : Lower[annotation(m).text] = Lower[annotation(n).text]
          BY <4>3 DEF Collected
        <4>5. m \in sound \ {n}
          BY <2>1, <4>4 DEF Collected, taken
        <4> QED
          BY <4>4, <4>5 DEF clashing, sameHeader
      <3>4. VerdictJustified'
        BY <3>1, <3>3, Fixed DEF VerdictJustified
      <3>5. Ended'
        BY <3>1 DEF Ended
      <3> QED
        BY <3>1, <3>4, <3>5, StillScanned DEF scan
    <2>10. CASE Reject(frame)
      <3>1. /\ schema' = schema /\ trail' = trail /\ seen' = seen /\ names' = names
            /\ bindings' = bindings /\ outcome' = "invalid" /\ malformed(frame)
        BY <2>10 DEF Reject, scan
      <3>2. illFormed' # {}
        BY <2>2, <3>1, Fixed
      <3>3. VerdictJustified'
        BY <3>1, <3>2 DEF VerdictJustified
      <3>4. Ended'
        BY <3>1 DEF Ended
      <3> QED
        BY <3>1, <3>3, <3>4, StillScanned DEF scan
    <2> QED
      BY <1>3, <2>5, <2>6, <2>7, <2>8, <2>9, <2>10
  <1> QED
    BY <1>2, <1>3 DEF Scan

LEMMA CallKeepsIInv ==
    ASSUME IInv, NEW args \in Arguments, CallHeaders(args)
    PROVE  IInv'
  <1> DEFINE here == {b \in bindings : nestedValue(args, b.path) # {}}
             value(b) == args[CHOOSE n \in nestedValue(args, b.path) : TRUE]
             carried == \A b \in here : carries(b.type, value(b))
  <1>1. /\ outcome = "valid" /\ arguments' = args /\ UNCHANGED <<schema, scan>>
        /\ carried => /\ outcome' = "called"
                      /\ headers' = [h \in {Lower[b.name] : b \in here} |->
                            encodeHeaderValue(valueText(value(CHOOSE b \in here : Lower[b.name] = h)))]
        /\ ~carried => outcome' = "refused"
    BY DEF CallHeaders
  <1>2. present' = here /\ (\A b : valueOf(b)' = value(b))
    BY <1>1 DEF present, valueOf, scan
  <1>3. allCarried' <=> carried
    BY <1>2 DEF allCarried
  <1>4. \A h : boundTo(h)' = CHOOSE b \in here : Lower[b.name] = h
    BY <1>2 DEF boundTo
  <1>5. Sent'
    <2>1. arguments' \in Arguments /\ (allCarried' <=> outcome' = "called")
      BY <1>1, <1>3
    <2>2. ASSUME carried
          PROVE  headers' = [h \in {Lower[b.name] : b \in present} |->
                               encodeHeaderValue(valueText(valueOf(boundTo(h))))]'
      <3> HIDE DEF here, value, carried
      <3>1. headers' = [h \in {Lower[b.name] : b \in here} |->
                encodeHeaderValue(valueText(value(CHOOSE b \in here : Lower[b.name] = h)))]
        BY <1>1, <2>2
      <3>2. {Lower[b.name] : b \in present}' = {Lower[b.name] : b \in here}
        BY <1>2
      <3>3. \A h : encodeHeaderValue(valueText(valueOf(boundTo(h))))'
                     = encodeHeaderValue(valueText(value(CHOOSE b \in here : Lower[b.name] = h)))
        BY <1>2, <1>4
      <3> QED
        BY <3>1, <3>2, <3>3
    <2> HIDE DEF here, value, carried
    <2> QED
      BY <1>3, <2>1, <2>2 DEF Sent
  <1>6. outcome' \in {"called", "refused"}
    BY <1>1
  <1>7. VerdictJustified'
    BY <1>6 DEF VerdictJustified
  <1>8. Ended'
    BY <1>1, <1>6 DEF IInv, Ended, scan
  <1>9. Visited' /\ Covered' /\ Collected'
    BY <1>1, StillScanned DEF IInv
  <1> QED
    BY <1>5, <1>7, <1>8, <1>9 DEF IInv

LEMMA IInvInit == Init => IInv
  <1> SUFFICES ASSUME Init PROVE IInv
    OBVIOUS
  <1> USE DEF Init
  <1>1. Visited
    BY DEF Visited
  <1>2. Collected
    BY DEF Collected, taken
  <1> QED
    BY <1>1, <1>2 DEF IInv, Covered, Ended, VerdictJustified, Sent

LEMMA IInvNext == IInv /\ [Next]_vars => IInv'
  <1> SUFFICES ASSUME IInv, [Next]_vars PROVE IInv'
    OBVIOUS
  <1>1. CASE Scan
    <2>1. outcome' \notin {"called", "refused"}
      BY <1>1 DEF Scan, Leave, ScanScalar, ScanList, ScanObject, Bind, Exclude, Reject
    <2> QED
      BY <1>1, <2>1, ScanKeepsIInv DEF IInv, Sent
  <1>2. ASSUME NEW args \in Arguments, CallHeaders(args) PROVE IInv'
    BY <1>2, CallKeepsIInv
  <1>3. CASE UNCHANGED vars
    <2>1. UNCHANGED <<schema, scan>> /\ outcome' = outcome /\ arguments' = arguments /\ headers' = headers
      BY <1>3 DEF vars, scan
    <2>2. Visited' /\ Covered' /\ Collected'
      BY <2>1, StillScanned DEF IInv
    <2>3. schema' = schema /\ trail' = trail /\ seen' = seen /\ bindings' = bindings
      BY <2>1 DEF scan
    <2>4. Ended' /\ VerdictJustified'
      BY <2>1, <2>3, Fixed DEF IInv, Ended, VerdictJustified
    <2>5. Sent'
      <3>1. present' = present /\ (\A b : valueOf(b)' = valueOf(b))
        BY <2>1, <2>3 DEF present, valueOf
      <3>2. (allCarried' <=> allCarried) /\ (\A h : boundTo(h)' = boundTo(h))
        BY <3>1 DEF allCarried, boundTo
      <3>3. {Lower[b.name] : b \in present}' = {Lower[b.name] : b \in present}
            /\ \A h : encodeHeaderValue(valueText(valueOf(boundTo(h))))'
                        = encodeHeaderValue(valueText(valueOf(boundTo(h))))
        BY <3>1, <3>2
      <3>4. [h \in {Lower[b.name] : b \in present} |->
               encodeHeaderValue(valueText(valueOf(boundTo(h))))]'
            = [h \in {Lower[b.name] : b \in present} |->
               encodeHeaderValue(valueText(valueOf(boundTo(h))))]
        BY <3>3
      <3> QED
        BY <2>1, <3>2, <3>4 DEF IInv, Sent
    <2> QED
      BY <2>2, <2>4, <2>5 DEF IInv
  <1> QED
    BY <1>1, <1>2, <1>3 DEF Next, Settled

LEMMA SpecIInv == Spec => []IInv
  BY IInvInit, IInvNext, PTL DEF Spec

(***************************************************************************)
(* What is left at the end.  A value that a finished scan did not see is   *)
(* an annotation, and a sound annotation is a text: nothing is below it.   *)
(***************************************************************************)
LEMMA NothingMissed ==
    ASSUME IInv, outcome \in {"valid", "called", "refused"}
    PROVE  /\ headed \subseteq seen /\ illFormed = {}
           /\ headed = sound /\ clashing = {} /\ taken = headed
  <1> USE DEF IInv
  <1> DEFINE N == Len(schema)
             p(n) == schema[n].parent
             Passed(n) == n # 1 /\ p(n) \in seen /\ skipped(n)
             T == {n \in DOMAIN schema : n \in seen \/ Passed(n)}
  <1>1. N \in Nat /\ Ordered(parentOf, N) /\ DOMAIN schema = 1..N /\ schema \in Schemas
    BY SchemaIsTree DEF Visited
  <1>2. trail = <<>> /\ 1 \in seen /\ seen \subseteq DOMAIN schema
    BY DEF Visited, Ended
  <1>3. ASSUME NEW n \in DOMAIN schema, n # 1, p(n) \in seen
        PROVE  n \in seen \/ skipped(n)
    <2>1. n \in children(schema, p(n))
      BY DEF children
    <2>2. frameOf(p(n)) \notin Range(trail)
      BY <1>2 DEF Range
    <2> QED
      BY <1>3, <2>1, <2>2 DEF Covered
  <1>4. ASSUME NEW n \in DOMAIN schema, Passed(n)
        PROVE  schema[n].kind = "string" /\ place[n] # "map"
    <2>1. p(n) \in DOMAIN schema /\ n \in member(schema, p(n), "x-mcp-header")
      BY <1>1, <1>2, <1>4 DEF skipped, member, children
    <2>2. p(n) \in taken
      BY <1>4, <2>1 DEF skipped, headed, taken
    <2>3. named(p(n)) /\ annotation(p(n)) = schema[n]
      BY <1>1, <2>1, <2>2, TheAnnotation DEF Collected, sound
    <2>4. place[n] # "map"
      BY <1>1, <1>4, PlacesAlternate DEF skipped
    <2> QED
      BY <2>3, <2>4 DEF named
  <1>5. ASSUME NEW n \in 1..N, parentOf[n] = 0 \/ parentOf[n] \in T PROVE n \in T
    <2>1. n \in DOMAIN schema /\ parentOf[n] = p(n) /\ (p(n) = 0 <=> n = 1)
      BY <1>1, SchemaIsTree
    <2>2. CASE n = 1
      BY <1>2, <2>1, <2>2
    <2>3. CASE n # 1 /\ p(n) \in seen
      BY <1>3, <2>1, <2>3
    <2>4. CASE n # 1 /\ p(n) \in DOMAIN schema /\ Passed(p(n))
      <3>1. schema[p(n)].kind = "string"
        BY <1>4, <2>4
      <3>2. children(schema, p(n)) = {}
        BY <1>1, <2>4, <3>1, NoMembers
      <3> QED
        BY <2>1, <3>2 DEF children
    <2> HIDE DEF Passed
    <2> QED
      BY <1>5, <2>1, <2>2, <2>3, <2>4
  <1> HIDE DEF T
  <1>6. \A n \in 1..N : n \in T
    BY <1>1, <1>5, DownTheTree
  <1>7. ASSUME NEW n \in DOMAIN schema, n \notin seen
        PROVE  n \notin headed /\ n \notin illFormed
    <2>1. Passed(n)
      BY <1>1, <1>6, <1>7 DEF T
    <2>2. schema[n].kind = "string" /\ place[n] # "map" /\ n # 1
      BY <1>4, <2>1
    <2> QED
      BY <2>2 DEF headed, illFormed
  <1>8. headed \subseteq DOMAIN schema /\ illFormed \subseteq DOMAIN schema /\ sound \subseteq headed
    BY DEF headed, illFormed, sound
  <1>9. headed \subseteq seen /\ illFormed = {}
    BY <1>7, <1>8 DEF Collected
  <1>10. taken = headed /\ headed = sound
    BY <1>8, <1>9 DEF taken, Collected
  <1>11. clashing = {}
    BY <1>10 DEF clashing, Collected
  <1> QED
    BY <1>9, <1>10, <1>11

LEMMA OneBindingEach ==
    ASSUME IInv, outcome \in {"valid", "called", "refused"}
    PROVE  Cardinality(bindings) = Cardinality(headed)
  <1>1. taken = headed /\ headed \subseteq DOMAIN schema
    BY NothingMissed DEF headed
  <1>2. bindings = {bindingOf(n) : n \in headed}
    BY <1>1 DEF IInv, Collected
  <1>3. \A m, n \in headed : bindingOf(m) = bindingOf(n) => m = n
    <2>1. ASSUME NEW m \in headed, NEW n \in headed, bindingOf(m) = bindingOf(n) PROVE m = n
      <3>1. annotation(m).text = annotation(n).text
        BY <2>1 DEF bindingOf
      <3> QED
        BY <1>1, <3>1 DEF IInv, Collected, sameHeader
    <2> QED
      BY <2>1
  <1>4. IsFiniteSet(headed)
    <2>1. DOMAIN schema = 1..Len(schema) /\ Len(schema) \in Nat
      BY SchemaIsTree DEF IInv, Visited
    <2>2. IsFiniteSet(1..Len(schema))
      BY <2>1, FS_Interval
    <2> QED
      BY <1>1, <2>1, <2>2, FS_Subset
  <1>5. ExistsBijection(headed, bindings)
    <2> DEFINE f == [n \in headed |-> bindingOf(n)]
    <2>1. f \in Bijection(headed, bindings)
      BY <1>2, <1>3 DEF Bijection, Injection, Surjection, IsInjective
    <2> QED
      BY <2>1 DEF ExistsBijection
  <1> QED
    BY <1>4, <1>5, FS_Bijection

LEMMA IInvKept == IInv => KeptIsBound
  <1> SUFFICES ASSUME IInv, outcome \in {"valid", "called", "refused"}
               PROVE  /\ headed = sound /\ clashing = {} /\ illFormed = {}
                      /\ {b.name : b \in bindings} = {annotation(n).text : n \in headed}
                      /\ Cardinality(bindings) = Cardinality(headed)
    BY DEF KeptIsBound
  <1>1. headed = sound /\ clashing = {} /\ illFormed = {} /\ taken = headed
    BY NothingMissed
  <1>2. bindings = {bindingOf(n) : n \in headed}
    BY <1>1 DEF IInv, Collected
  <1>3. {b.name : b \in bindings} = {annotation(n).text : n \in headed}
    <2>1. \A n : bindingOf(n).name = annotation(n).text
      BY DEF bindingOf
    <2> QED
      BY <1>2, <2>1
  <1> QED
    BY <1>1, <1>3, OneBindingEach

(* What a server decodes is the text that was sent to it.                  *)
LEMMA TextsArrive ==
    ASSUME arguments \in Arguments, NEW m \in DOMAIN arguments,
           NEW n \in DOMAIN schema, schema \in Schemas, typed(n), carries(typeOf(n), arguments[m])
    PROVE  decoded(encodeHeaderValue(valueText(arguments[m]))) = valueText(arguments[m])
  <1>1. \E S : valueText(arguments[m]) \in Seq(S)
    <2>1. PICK t \in member(schema, n, "type") :
              schema[t].text \in {<<"string">>, <<"integer">>, <<"boolean">>}
      BY DEF typed
    <2>2. typeOf(n) = schema[t].text[1]
      BY TheAnnotation
    <2>3. typeOf(n) \in {"string", "integer", "boolean"}
      BY <2>1, <2>2
    <2>4. CASE typeOf(n) = "string"
      <3>1. arguments[m].kind = "string"
        BY <2>4 DEF carries
      <3>2. arguments[m].text \in Seq(Symbol)
        BY <3>1, SchemaAssumption DEF isTree
      <3> QED
        BY <3>1, <3>2 DEF valueText
    <2>5. CASE typeOf(n) = "integer"
      <3>1. arguments[m].kind = "integer"
        BY <2>5 DEF carries
      <3>2. valueText(arguments[m]) = <<ToString(arguments[m].number)>>
        BY <3>1 DEF valueText
      <3>3. \A x : <<x>> \in Seq({x})
        OBVIOUS
      <3> QED
        BY <3>2, <3>3
    <2>6. CASE typeOf(n) = "boolean"
      <3>1. arguments[m].kind = "boolean"
        BY <2>6 DEF carries
      <3>2. valueText(arguments[m]) \in {<<"true">>, <<"false">>}
        BY <3>1 DEF valueText
      <3>3. <<"true">> \in Seq({"true", "false"}) /\ <<"false">> \in Seq({"true", "false"})
        OBVIOUS
      <3> QED
        BY <3>2, <3>3
    <2> QED
      BY <2>3, <2>4, <2>5, <2>6
  <1> QED
    BY <1>1, Decoded

LEMMA IInvMirrors == IInv => HeadersMirrorArguments
  <1> SUFFICES ASSUME IInv, outcome \in {"called", "refused"} PROVE HeadersMirrorArguments
    BY DEF HeadersMirrorArguments
  <1>1. schema \in Schemas /\ arguments \in Arguments
    BY DEF IInv, Visited, Sent
  <1>2. headed = sound /\ taken = headed /\ headed \subseteq DOMAIN schema
    BY NothingMissed DEF headed
  <1>3. bindings = {bindingOf(n) : n \in headed}
        /\ \A m, n \in headed : sameHeader(m, n) => m = n
    BY <1>2 DEF IInv, Collected
  <1>4. ASSUME NEW n \in headed
        PROVE  /\ nestedValue(arguments, bindingOf(n).path) = located[n]
               /\ bindingOf(n) \in present <=> located[n] # {}
    <2>1. place[n] = "property"
      BY <1>2 DEF sound
    <2>2. located[n] = nestedValue(arguments, pathTo[n])
      BY <1>1, <1>2, <2>1, ScanFindsWhatIsLocated
    <2>3. bindingOf(n).path = pathTo[n]
      BY DEF bindingOf
    <2> QED
      BY <1>3, <2>2, <2>3 DEF present
  <1>5. ASSUME NEW n \in headed, NEW m \in located[n]
        PROVE  /\ valueOf(bindingOf(n)) = arguments[m] /\ bindingOf(n) \in present
               /\ m \in DOMAIN arguments
    <2>1. m \in DOMAIN arguments /\ \A a, b \in located[n] : a = b
      BY <1>1, <1>2, OneLocated
    <2>2. m = CHOOSE a \in located[n] : TRUE
      BY <2>1
    <2> QED
      BY <1>4, <2>1, <2>2 DEF valueOf
  <1>6. ASSUME NEW n \in headed, bindingOf(n) \in present
        PROVE  boundTo(Lower[annotation(n).text]) = bindingOf(n)
    <2>1. ASSUME NEW b \in present, Lower[b.name] = Lower[annotation(n).text]
          PROVE  b = bindingOf(n)
      <3>1. PICK m \in headed : b = bindingOf(m)
        BY <1>3, <2>1 DEF present
      <3>2. sameHeader(m, n)
        BY <2>1, <3>1 DEF sameHeader, bindingOf
      <3> QED
        BY <1>3, <3>1, <3>2
    <2>2. Lower[bindingOf(n).name] = Lower[annotation(n).text]
      BY DEF bindingOf
    <2> QED
      BY <1>6, <2>1, <2>2 DEF boundTo
  <1>7. ASSUME outcome = "refused"
        PROVE  \E n \in headed : \E m \in located[n] : ~carries(typeOf(n), arguments[m])
    <2>1. PICK b \in present : ~carries(b.type, valueOf(b))
      BY <1>7 DEF IInv, Sent, allCarried
    <2>2. PICK n \in headed : b = bindingOf(n)
      BY <1>3, <2>1 DEF present
    <2>3. PICK m \in located[n] : TRUE
      BY <1>4, <2>1, <2>2
    <2>4. valueOf(b) = arguments[m] /\ b.type = typeOf(n)
      BY <1>5, <2>2 DEF bindingOf
    <2> QED
      BY <2>1, <2>4
  <1>8. ASSUME outcome = "called"
        PROVE  /\ DOMAIN headers = {Lower[annotation(n).text] : n \in {m \in headed : located[m] # {}}}
               /\ \A n \in headed : \A m \in located[n] :
                    /\ carries(typeOf(n), arguments[m])
                    /\ decoded(headers[Lower[annotation(n).text]]) = valueText(arguments[m])
    <2>1. allCarried /\ headers = [h \in {Lower[b.name] : b \in present} |->
                                      encodeHeaderValue(valueText(valueOf(boundTo(h))))]
      BY <1>8 DEF IInv, Sent
    <2>2. {Lower[b.name] : b \in present}
            = {Lower[annotation(n).text] : n \in {m \in headed : located[m] # {}}}
      <3>1. present = {bindingOf(n) : n \in {m \in headed : located[m] # {}}}
        BY <1>3, <1>4 DEF present
      <3>2. \A n : bindingOf(n).name = annotation(n).text
        BY DEF bindingOf
      <3> QED
        BY <3>1, <3>2
    <2>3. ASSUME NEW n \in headed, NEW m \in located[n]
          PROVE  /\ carries(typeOf(n), arguments[m])
                 /\ decoded(headers[Lower[annotation(n).text]]) = valueText(arguments[m])
      <3>1. valueOf(bindingOf(n)) = arguments[m] /\ bindingOf(n) \in present /\ m \in DOMAIN arguments
        BY <1>5
      <3>2. bindingOf(n).type = typeOf(n) /\ bindingOf(n).name = annotation(n).text
        BY DEF bindingOf
      <3>3. carries(typeOf(n), arguments[m])
        BY <2>1, <3>1, <3>2 DEF allCarried
      <3>4. headers[Lower[annotation(n).text]]
              = encodeHeaderValue(valueText(valueOf(boundTo(Lower[annotation(n).text]))))
        BY <2>1, <3>1, <3>2
      <3>5. headers[Lower[annotation(n).text]] = encodeHeaderValue(valueText(arguments[m]))
        BY <1>6, <3>1, <3>4
      <3>6. typed(n)
        BY <1>2 DEF sound
      <3> QED
        BY <1>1, <1>2, <3>1, <3>3, <3>5, <3>6, TextsArrive
    <2> QED
      BY <2>1, <2>2, <2>3
  <1> QED
    BY <1>7, <1>8 DEF HeadersMirrorArguments

(***************************************************************************)
(* Theorems.                                                               *)
(***************************************************************************)
(* In whatever order the keys come, a definition that ListTools keeps has  *)
(* only sound annotations, and a binding of its own for each (KeptIsBound).*)
THEOREM KeptIsComplete == Spec => []KeptIsBound
  BY SpecIInv, IInvKept, PTL

(* A definition is excluded, or a listing fails, for a fault that the      *)
(* schema has, whichever is met first (VerdictJustified).                  *)
THEOREM VerdictsHaveReasons == Spec => []VerdictJustified
  <1>1. IInv => VerdictJustified
    BY DEF IInv
  <1> QED
    BY <1>1, SpecIInv, PTL

(* callHeaders sends the value that the arguments hold at each annotated   *)
(* property, no more and no less, in a form that a server reads back, and  *)
(* refuses only a value of another type (HeadersMirrorArguments).          *)
THEOREM ArgumentsReachServer == Spec => []HeadersMirrorArguments
  BY SpecIInv, IInvMirrors, PTL
=============================================================================
