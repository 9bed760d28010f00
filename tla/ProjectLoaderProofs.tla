------------------------ MODULE ProjectLoaderProofs ------------------------
(***************************************************************************)
(* For every file system and every set of manifests: what a project loads  *)
(* is exactly what its directories hold.                                   *)
(***************************************************************************)
EXTENDS ProjectLoader, SequenceTheorems, NaturalsInduction, WellFoundedInduction, TLAPS

USE DEF found

(***************************************************************************)
(* Induction, and what a walk of n steps finds.  The library's theorems on *)
(* induction take an operator; these take sets and functions.              *)
(***************************************************************************)
LEMMA LeastNumber ==
    ASSUME NEW T, T \subseteq Nat, T # {}
    PROVE  \E n \in T : \A m \in T : n <= m
  <1> DEFINE R == OpToRel(<, Nat)
  <1>1. \E n \in T : \A m \in T : ~(<<m, n>> \in R)
    <2>1. IsWellFoundedOn(R, Nat)
      BY NatLessThanWellFounded
    <2> HIDE DEF R
    <2> QED
      BY <2>1, WFMin
  <1>2. PICK n \in T : \A m \in T : ~(<<m, n>> \in R)
    BY <1>1
  <1>3. \A m \in T : ~(m < n)
    BY <1>2 DEF OpToRel
  <1> QED
    BY <1>3

LEMMA StepByStep ==
    ASSUME NEW T, NEW n \in Nat, 0 \in T, \A i \in 1..n : i - 1 \in T => i \in T
    PROVE  \A i \in 0..n : i \in T
  <1> DEFINE U == {i \in 0..n : i \notin T}
  <1> SUFFICES ASSUME U # {} PROVE FALSE
    OBVIOUS
  <1>1. PICK i \in U : \A m \in U : i <= m
    <2>1. U \subseteq Nat
      OBVIOUS
    <2> HIDE DEF U
    <2> QED
      BY <2>1, LeastNumber
  <1>2. i # 0 /\ i - 1 \in 0..n /\ i - 1 \notin U
    BY <1>1
  <1> QED
    BY <1>1, <1>2

HasWalk(S, c, n, D) ==
    \E f \in [0..n -> S] : f[0] = c /\ \A i \in 1..n : f[i] = D[<<f[i - 1], i>>]

(* From c there is one step after another, when D knows a step from        *)
(* everywhere.                                                             *)
LEMMA Iteration ==
    ASSUME NEW S, NEW c, c \in S, NEW n, n \in Nat, NEW D, D \in [S \X (1..n) -> S]
    PROVE  HasWalk(S, c, n, D)
  <1> DEFINE Walk(f, k) == f[0] = c /\ \A i \in 1..k : f[i] = D[<<f[i - 1], i>>]
             T == {k \in 0..n : \E f \in [0..n -> S] : Walk(f, k)}
  <1>1. 0 \in T
    <2> DEFINE g == [i \in 0..n |-> c]
    <2>1. g \in [0..n -> S] /\ Walk(g, 0)
      OBVIOUS
    <2> HIDE DEF g, Walk
    <2> QED
      BY <2>1
  <1>2. ASSUME NEW k \in 1..n, k - 1 \in T PROVE k \in T
    <2>1. PICK f \in [0..n -> S] : Walk(f, k - 1)
      BY <1>2
    <2> DEFINE v == D[<<f[k - 1], k>>]
               g == [f EXCEPT ![k] = v]
    <2>2. g \in [0..n -> S] /\ g[k] = v /\ \A i \in 0..n : i # k => g[i] = f[i]
      OBVIOUS
    <2> HIDE DEF g
    <2>3. ASSUME NEW i \in 1..k PROVE g[i] = D[<<g[i - 1], i>>]
      <3>1. g[i - 1] = f[i - 1]
        BY <2>2
      <3>2. CASE i = k
        BY <2>2, <3>1, <3>2
      <3>3. CASE i # k
        BY <2>1, <2>2, <3>1, <3>3
      <3> QED
        BY <3>2, <3>3
    <2>4. Walk(g, k)
      BY <2>1, <2>2, <2>3
    <2> HIDE DEF Walk
    <2> QED
      BY <2>2, <2>4
  <1> HIDE DEF T
  <1>3. \A k \in 0..n : k \in T
    BY <1>1, <1>2, StepByStep
  <1>4. n \in T
    BY <1>3
  <1> QED
    BY <1>4 DEF T, HasWalk

(***************************************************************************)
(* The walks along a path.                                                 *)
(***************************************************************************)
Written == Names \cup {Up, Slash}
Place == Path \cup {Nowhere}

LEMMA NowhereIsNoPath == Nowhere \notin Path
  <1> SUFFICES ASSUME Nowhere \in Seq(Names) PROVE FALSE
    BY DEF Path
  <1>1. Nowhere[1] = Slash /\ Len(Nowhere) = 1
    BY DEF Nowhere
  <1>2. Nowhere[1] \in Names
    BY <1>1, ElementOfSeq
  <1> QED
    BY <1>1, <1>2, LoaderAssumption

LEMMA CleanSteps ==
    ASSUME NEW path \in Seq(Written)
    PROVE  \E upTo \in [0..Len(path) -> Seq(Written)] :
               /\ upTo[0] = <<>> /\ clean(path) = upTo[Len(path)]
               /\ \A i \in 1..Len(path) : upTo[i] = cleaned(upTo[i - 1], path[i])
  <1> DEFINE S == Seq(Written)
             n == Len(path)
             D == [x \in S \X (1..n) |-> cleaned(x[1], path[x[2]])]
  <1>1. n \in Nat /\ <<>> \in S /\ \A i \in 1..n : path[i] \in Written
    OBVIOUS
  <1>2. \A p \in S, i \in 1..n : cleaned(p, path[i]) \in S
    BY <1>1 DEF cleaned, Front
  <1>3. \A p \in S, i \in 1..n : D[<<p, i>>] = cleaned(p, path[i])
    OBVIOUS
  <1>4. D \in [S \X (1..n) -> S]
    BY <1>2
  <1> HIDE DEF S, n, D
  <1>5. PICK f \in [0..n -> S] : f[0] = <<>> /\ \A i \in 1..n : f[i] = D[<<f[i - 1], i>>]
    <2>1. HasWalk(S, <<>>, n, D)
      BY <1>1, <1>4, Iteration
    <2> QED
      BY <2>1 DEF HasWalk
  <1>6. ASSUME NEW i \in 1..n PROVE f[i] = cleaned(f[i - 1], path[i])
    <2>1. i - 1 \in 0..n /\ f[i - 1] \in S
      BY <1>1
    <2> QED
      BY <1>3, <1>5, <2>1
  <1>7. f = [i \in 0..n |-> IF i = 0 THEN <<>> ELSE cleaned(f[i - 1], path[i])]
    BY <1>5, <1>6
  <1> DEFINE h == CHOOSE g : g = [i \in 0..n |-> IF i = 0 THEN <<>> ELSE cleaned(g[i - 1], path[i])]
  <1>8. h = [i \in 0..n |-> IF i = 0 THEN <<>> ELSE cleaned(h[i - 1], path[i])]
    BY <1>7, Zenon
  <1>9. clean(path) = h[n]
    BY DEF clean, n
  <1> HIDE DEF h
  <1>10. h[0] = <<>> /\ \A i \in 1..n : h[i] = cleaned(h[i - 1], path[i])
    BY <1>1, <1>8
  <1>11. \A i \in 0..n : h[i] \in S
    <2> DEFINE T == {i \in 0..n : h[i] \in S}
    <2>1. 0 \in T
      BY <1>1, <1>10
    <2>2. ASSUME NEW i \in 1..n, i - 1 \in T PROVE i \in T
      <3>1. h[i - 1] \in S /\ h[i] = cleaned(h[i - 1], path[i])
        BY <1>10, <2>2
      <3>2. h[i] \in S
        BY <1>2, <3>1
      <3> QED
        BY <3>2
    <2> HIDE DEF T
    <2>3. \A i \in 0..n : i \in T
      BY <1>1, <2>1, <2>2, StepByStep
    <2> QED
      BY <2>3 DEF T
  <1>12. h \in [0..n -> S]
    BY <1>8, <1>11
  <1> QED
    BY <1>9, <1>10, <1>12 DEF S, n

LEMMA FollowSteps ==
    ASSUME tree \in Trees, NEW path \in Seq(Written)
    PROVE  \E upTo \in [0..Len(path) -> Place] :
               /\ upTo[0] = <<>> /\ EvalSymlinks(path) = upTo[Len(path)]
               /\ \A i \in 1..Len(path) : upTo[i] = followed(tree, upTo[i - 1], path[i])
  <1> DEFINE S == Place
             n == Len(path)
             D == [x \in S \X (1..n) |-> followed(tree, x[1], path[x[2]])]
  <1>1. n \in Nat /\ <<>> \in S /\ \A i \in 1..n : path[i] \in Written
    BY DEF Place, Path
  <1>2. \A p \in S, i \in 1..n : followed(tree, p, path[i]) \in S
    BY LoaderAssumption DEF followed, Place, Path, Node, File, AgentFile, SkillFile, PluginFile, TextFile
  <1>3. \A p \in S, i \in 1..n : D[<<p, i>>] = followed(tree, p, path[i])
    OBVIOUS
  <1>4. D \in [S \X (1..n) -> S]
    BY <1>2
  <1> HIDE DEF S, n, D
  <1>5. PICK f \in [0..n -> S] : f[0] = <<>> /\ \A i \in 1..n : f[i] = D[<<f[i - 1], i>>]
    <2>1. HasWalk(S, <<>>, n, D)
      BY <1>1, <1>4, Iteration
    <2> QED
      BY <2>1 DEF HasWalk
  <1>6. ASSUME NEW i \in 1..n PROVE f[i] = followed(tree, f[i - 1], path[i])
    <2>1. i - 1 \in 0..n /\ f[i - 1] \in S
      BY <1>1
    <2> QED
      BY <1>3, <1>5, <2>1
  <1>7. f = [i \in 0..n |-> IF i = 0 THEN <<>> ELSE followed(tree, f[i - 1], path[i])]
    BY <1>5, <1>6
  <1> DEFINE h == CHOOSE g : g = [i \in 0..n |-> IF i = 0 THEN <<>> ELSE followed(tree, g[i - 1], path[i])]
  <1>8. h = [i \in 0..n |-> IF i = 0 THEN <<>> ELSE followed(tree, h[i - 1], path[i])]
    BY <1>7, Zenon
  <1>9. EvalSymlinks(path) = h[n]
    BY DEF EvalSymlinks, follow, n
  <1> HIDE DEF h
  <1>10. h[0] = <<>> /\ \A i \in 1..n : h[i] = followed(tree, h[i - 1], path[i])
    BY <1>1, <1>8
  <1>11. \A i \in 0..n : h[i] \in S
    <2> DEFINE T == {i \in 0..n : h[i] \in S}
    <2>1. 0 \in T
      BY <1>1, <1>10
    <2>2. ASSUME NEW i \in 1..n, i - 1 \in T PROVE i \in T
      <3>1. h[i - 1] \in S /\ h[i] = followed(tree, h[i - 1], path[i])
        BY <1>10, <2>2
      <3>2. h[i] \in S
        BY <1>2, <3>1
      <3> QED
        BY <3>2
    <2> HIDE DEF T
    <2>3. \A i \in 0..n : i \in T
      BY <1>1, <2>1, <2>2, StepByStep
    <2> QED
      BY <2>3 DEF T
  <1>12. h \in [0..n -> S]
    BY <1>8, <1>11
  <1> QED
    BY <1>9, <1>10, <1>12 DEF S, n

(* A place on disk that is reached through directories only is where the   *)
(* path says: nothing is cleaned away, no link is followed.                *)
LEMMA DirectWay ==
    ASSUME tree \in Trees, NEW path \in Seq(Names), isDirectory(path)
    PROVE  clean(path) = path /\ EvalSymlinks(path) = path
  <1> DEFINE n == Len(path)
             way(i) == SubSeq(path, 1, i)
  <1>0. n \in Nat /\ path \in Seq(Written) /\ Names \cap {Up, Slash} = {} /\ DOMAIN tree \subseteq Seq(Names)
    BY LoaderAssumption DEF Written, Path
  <1>1. ASSUME NEW i \in 1..n
        PROVE  /\ way(i) = Append(way(i - 1), path[i]) /\ path[i] \in Names
               /\ way(i) \in DOMAIN tree /\ tree[way(i)].kind = "directory"
    <2>1. way(i) = Append(way(i - 1), path[i]) /\ path[i] \in Names
      OBVIOUS
    <2>2. path \in DOMAIN tree /\ tree[path].kind = "directory"
      BY DEF isDirectory
    <2>3. way(n) = path
      OBVIOUS
    <2>4. CASE i = n
      BY <2>1, <2>2, <2>3, <2>4
    <2>5. CASE i # n
      <3>1. i \in 1..(Len(path) - 1)
        BY <2>5
      <3> QED
        BY <2>1, <2>2, <3>1, LoaderAssumption
    <2> QED
      BY <2>4, <2>5
  <1>2. way(0) = <<>> /\ way(n) = path
    OBVIOUS
  <1>3. \A i \in 0..n : way(i) \in Seq(Names) /\ way(i) # Nowhere
    <2>1. \A i \in 0..n : way(i) \in Seq(Names)
      OBVIOUS
    <2> QED
      BY <2>1, NowhereIsNoPath DEF Path
  <1> HIDE DEF way
  <1>4. clean(path) = path
    <2>1. PICK upTo \in [0..n -> Seq(Written)] :
              /\ upTo[0] = <<>> /\ clean(path) = upTo[n]
              /\ \A i \in 1..n : upTo[i] = cleaned(upTo[i - 1], path[i])
      BY <1>0, CleanSteps
    <2> DEFINE T == {i \in 0..n : upTo[i] = way(i)}
    <2>2. 0 \in T
      BY <1>0, <1>2, <2>1
    <2>3. ASSUME NEW i \in 1..n, i - 1 \in T PROVE i \in T
      <3>1. upTo[i - 1] = way(i - 1)
        BY <2>3
      <3>2. cleaned(way(i - 1), path[i]) = way(i)
        BY <1>0, <1>1 DEF cleaned
      <3> QED
        BY <2>1, <3>1, <3>2
    <2> HIDE DEF T
    <2>4. \A i \in 0..n : i \in T
      BY <1>0, <2>2, <2>3, StepByStep
    <2>5. upTo[n] = way(n)
      BY <1>0, <2>4 DEF T
    <2> QED
      BY <1>2, <2>1, <2>5
  <1>5. EvalSymlinks(path) = path
    <2>1. PICK upTo \in [0..n -> Place] :
              /\ upTo[0] = <<>> /\ EvalSymlinks(path) = upTo[n]
              /\ \A i \in 1..n : upTo[i] = followed(tree, upTo[i - 1], path[i])
      BY <1>0, FollowSteps
    <2> DEFINE T == {i \in 0..n : upTo[i] = way(i)}
    <2>2. 0 \in T
      BY <1>0, <1>2, <2>1
    <2>3. ASSUME NEW i \in 1..n, i - 1 \in T PROVE i \in T
      <3>1. upTo[i - 1] = way(i - 1) /\ way(i - 1) # Nowhere
        BY <1>0, <1>3, <2>3
      <3>2. followed(tree, way(i - 1), path[i]) = way(i)
        BY <1>1, <3>1 DEF followed
      <3> QED
        BY <2>1, <3>1, <3>2
    <2> HIDE DEF T
    <2>4. \A i \in 0..n : i \in T
      BY <1>0, <2>2, <2>3, StepByStep
    <2>5. upTo[n] = way(n)
      BY <1>0, <2>4 DEF T
    <2> QED
      BY <1>2, <2>1, <2>5
  <1> QED
    BY <1>4, <1>5

skillNames == {s.name : s \in skills}

(* A path that was resolved leads to the place that Declared looks at.     *)
LEMMA Resolved ==
    ASSUME NEW relative, resolveWithin(Root, relative) # Nowhere
    PROVE  relative # <<>> /\ resolveWithin(Root, relative) = place(relative)
  BY DEF resolveWithin, place

LEMMA DirectoryIsPath ==
    ASSUME tree \in Trees, NEW directory, isDirectory(directory)
    PROVE  directory # Nowhere /\ directory \in Seq(Names)
  <1>1. DOMAIN tree \subseteq Seq(Names) /\ Slash \notin Names
    BY LoaderAssumption DEF Path
  <1>2. directory \in Seq(Names)
    <2>1. <<>> \in Seq(Names)
      OBVIOUS
    <2> QED
      BY <1>1, <2>1 DEF isDirectory
  <1>3. Nowhere \notin Seq(Names)
    BY NowhereIsNoPath DEF Path
  <1> QED
    BY <1>2, <1>3

(* The entries that are listed are the directories declared there.         *)
LEMMA ListedIsDeclared ==
    ASSUME tree \in Trees, NEW relative, place(relative) \in Seq(Names)
    PROVE  subdirectories(place(relative)) = Declared(relative)
  <1> DEFINE d == place(relative)
  <1>1. DOMAIN tree \subseteq Seq(Names)
    BY LoaderAssumption DEF Path
  <1>2. ASSUME NEW name \in subdirectories(d) PROVE name \in Declared(relative)
    <2>1. name \in Names /\ isDirectory(Append(d, name)) /\ Append(d, name) # <<>>
      BY <1>2 DEF subdirectories, isDirectory
    <2>2. Append(d, name) \in DOMAIN tree /\ tree[Append(d, name)].kind = "directory"
      BY <2>1 DEF isDirectory
    <2>3. Front(Append(d, name)) = d /\ Last(Append(d, name)) = name
      BY <2>1 DEF Front, Last
    <2> QED
      BY <2>1, <2>2, <2>3 DEF Declared, place
  <1>3. ASSUME NEW name \in Declared(relative) PROVE name \in subdirectories(d)
    <2>1. PICK p \in DOMAIN tree :
              p # <<>> /\ Front(p) = d /\ tree[p].kind = "directory" /\ Last(p) = name
      BY <1>3 DEF Declared, place
    <2>2. p \in Seq(Names) /\ p # <<>>
      BY <1>1, <2>1
    <2>3. name \in Names /\ p = Append(d, name)
      BY <2>1, <2>2 DEF Front, Last
    <2> QED
      BY <2>1, <2>3 DEF subdirectories, isDirectory
  <1> QED
    BY <1>2, <1>3

(***************************************************************************)
(* The inductive invariant: while a directory is being loaded, what is     *)
(* loaded of it and what is still to come make up all it declares.         *)
(***************************************************************************)
SkillsDone == {"openPlugins", "plugins", "loaded"}

Inv ==
    /\ tree \in Trees
    /\ phase \in Phases
    /\ phase \in {"manifest", "instructions", "openSkills"} => skills = {}
    /\ phase \notin {"plugins", "loaded", "failed"} => plugins = {}
    /\ phase = "skills" => skillNames \cup entries = Declared(agent.skills)
    /\ phase \in SkillsDone => skillNames = Declared(agent.skills) /\ agent.default \in skillNames
    /\ phase = "plugins" => agent.plugins # <<>> /\ plugins \cup entries = Declared(agent.plugins)
    /\ phase = "loaded" => plugins = IF agent.plugins = <<>> THEN {} ELSE Declared(agent.plugins)

LEMMA FailKeeps == ASSUME Inv, Fail PROVE Inv'
  BY DEF Inv, Fail, Goto, SkillsDone, Phases

LEMMA SameDeclared == ASSUME UNCHANGED tree, NEW relative PROVE Declared(relative)' = Declared(relative)
  BY DEF Declared, place, EvalSymlinks

LEMMA OpenedIsDeclared ==
    ASSUME Inv, NEW relative, NEW label, OpenDirectory(relative, label), ~Fail
    PROVE  /\ entries' = Declared(relative) /\ phase' = label /\ relative # <<>>
           /\ UNCHANGED <<tree, found>>
  <1> DEFINE directory == resolveWithin(Root, relative)
  <1>1. /\ isDirectory(directory) /\ entries' = subdirectories(directory) /\ phase' = label
        /\ UNCHANGED <<tree, found>>
    BY DEF OpenDirectory, Goto
  <1>2. directory # Nowhere /\ directory \in Seq(Names)
    BY <1>1, DirectoryIsPath DEF Inv
  <1> QED
    BY <1>1, <1>2, Resolved, ListedIsDeclared DEF Inv

LEMMA NextStep == Inv /\ [Next]_vars => Inv'
  <1> SUFFICES ASSUME Inv, [Next]_vars PROVE Inv'
    OBVIOUS
  <1> USE DEF Inv, SkillsDone, Phases, skillNames, Goto
  <1>0. UNCHANGED tree /\ \A relative : Declared(relative)' = Declared(relative)
    <2>1. UNCHANGED tree
      BY DEF Next, vars, ReadFails, Fail, ReadManifest, ReadInstructions, OpenSkills, OpenDirectory,
             LoadSkill, NewRegistry, OpenPlugins, LoadPlugin, Finish, Returned
    <2> QED
      BY <2>1, SameDeclared
  <1>1. CASE Fail
    BY <1>1, FailKeeps
  <1>2. CASE ReadManifest /\ ~Fail
    BY <1>2 DEF ReadManifest
  <1>3. CASE ReadInstructions /\ ~Fail
    BY <1>3 DEF ReadInstructions
  <1>4. CASE OpenSkills /\ ~Fail
    BY <1>0, <1>4, OpenedIsDeclared DEF OpenSkills
  <1>5. ASSUME NEW name \in Names, LoadSkill(name), ~Fail PROVE Inv'
    <2>1. PICK s : s.name = name /\ skills' = skills \cup {s}
      BY <1>5 DEF LoadSkill
    <2>2. /\ phase = "skills" /\ name \in entries /\ entries' = entries \ {name}
          /\ UNCHANGED <<phase, agent, plugins>>
      BY <1>5 DEF LoadSkill
    <2>3. skillNames' \cup entries' = skillNames \cup entries
      BY <2>1, <2>2
    <2> QED
      BY <1>0, <2>2, <2>3
  <1>6. CASE NewRegistry /\ ~Fail
    BY <1>0, <1>6 DEF NewRegistry, acceptedSkills
  <1>7. CASE OpenPlugins /\ ~Fail
    <2>1. CASE agent.plugins = <<>>
      BY <1>0, <1>7, <2>1 DEF OpenPlugins
    <2>2. CASE agent.plugins # <<>>
      BY <1>0, <1>7, <2>2, OpenedIsDeclared DEF OpenPlugins
    <2> QED
      BY <2>1, <2>2
  <1>8. ASSUME NEW name \in Names, LoadPlugin(name), ~Fail PROVE Inv'
    <2>1. /\ phase = "plugins" /\ name \in entries /\ entries' = entries \ {name}
          /\ plugins' = plugins \cup {name} /\ UNCHANGED <<phase, agent, skills>>
      BY <1>8 DEF LoadPlugin
    <2>2. plugins' \cup entries' = plugins \cup entries
      BY <2>1
    <2> QED
      BY <1>0, <2>1, <2>2
  <1>9. CASE Finish
    BY <1>0, <1>9 DEF Finish
  <1>10. CASE Returned \/ UNCHANGED vars
    BY <1>0, <1>10 DEF Returned, vars
  <1> QED
    BY <1>1, <1>2, <1>3, <1>4, <1>5, <1>6, <1>7, <1>8, <1>9, <1>10 DEF Next, ReadFails

(* A project that loads is loaded whole, whatever its file system: every   *)
(* skill and plugin directory of the configured places is loaded or the    *)
(* loading fails (loader.go:163-209, 296-345).                             *)
THEOREM LoadsWhole == Spec => []LoadedWhole
  <1>1. Init => Inv
    BY DEF Init, Inv, SkillsDone, Phases
  <1>2. Inv => LoadedWhole
    BY DEF Inv, SkillsDone, skillNames, LoadedWhole
  <1> QED
    BY <1>1, <1>2, NextStep, PTL DEF Spec

(***************************************************************************)
(* Where the files are that were opened.                                   *)
(***************************************************************************)
LEMMA WithinTransitive ==
    ASSUME NEW a \in Path, NEW b \in Path, NEW c \in Path, within(a, b), within(b, c)
    PROVE  within(a, c)
  <1>1. \A i \in 1..Len(a) : a[i] = b[i]
    BY DEF within, IsPrefix, Path
  <1>2. \A i \in 1..Len(b) : b[i] = c[i]
    BY DEF within, IsPrefix, Path
  <1>3. Len(a) <= Len(c) /\ \A i \in 1..Len(a) : a[i] = c[i]
    BY <1>1, <1>2 DEF within, IsPrefix, Path
  <1> QED
    BY <1>3 DEF within, IsPrefix, Path

LEMMA OwnName ==
    ASSUME NEW f \in Path, NEW a \in Names, NEW b \in Names, NEW p \in Path,
           within(Append(f, a), p), within(Append(f, b), p)
    PROVE  a = b
  <1> DEFINE k == Len(f) + 1
  <1>1. k \in 1..k /\ k \in Nat /\ Len(Append(f, a)) = k /\ Len(Append(f, b)) = k
        /\ Append(f, a)[k] = a /\ Append(f, b)[k] = b
    BY DEF Path
  <1>2. SubSeq(Append(f, a), 1, k) = SubSeq(p, 1, k) /\ SubSeq(Append(f, b), 1, k) = SubSeq(p, 1, k)
    BY <1>1 DEF within, IsPrefix
  <1>3. SubSeq(Append(f, a), 1, k)[k] = a /\ SubSeq(Append(f, b), 1, k)[k] = b
    BY <1>1 DEF Path
  <1> QED
    BY <1>2, <1>3

LEMMA ResolvedPlace ==
    ASSUME tree \in Trees, NEW root \in Path, NEW relative \in RelativePath
    PROVE  /\ resolveWithin(root, relative) \in Place
           /\ resolveWithin(root, relative) # Nowhere => within(root, resolveWithin(root, relative))
  <1>1. root \o relative \in Seq(Written)
    BY DEF Path, RelativePath, Written
  <1>2. ASSUME NEW path \in Seq(Written) PROVE clean(path) \in Seq(Written) /\ EvalSymlinks(path) \in Place
    <2>1. Len(path) \in 0..Len(path)
      OBVIOUS
    <2>2. PICK f \in [0..Len(path) -> Seq(Written)] : clean(path) = f[Len(path)]
      BY CleanSteps
    <2>3. PICK g \in [0..Len(path) -> Place] : EvalSymlinks(path) = g[Len(path)]
      BY FollowSteps
    <2> QED
      BY <2>1, <2>2, <2>3
  <1>3. EvalSymlinks(clean(root \o relative)) \in Place
    BY <1>1, <1>2
  <1>4. Nowhere \in Place
    BY DEF Place
  <1> QED
    BY <1>3, <1>4 DEF resolveWithin

(* An entry that is a directory is its own owner: no other leads there.    *)
LEMMA EntryIsOwner ==
    ASSUME tree \in Trees, folder \in Path, NEW name \in subdirectories(folder)
    PROVE  /\ resolveWithin(folder, <<name>>) = Append(folder, name)
           /\ Append(folder, name) \in Path /\ within(folder, Append(folder, name))
  <1>1. name \in Names /\ isDirectory(Append(folder, name)) /\ name # Slash
    BY LoaderAssumption DEF subdirectories
  <1>2. folder \o <<name>> = Append(folder, name) /\ Append(folder, name) \in Seq(Names)
    BY <1>1 DEF Path
  <1>3. EvalSymlinks(clean(folder \o <<name>>)) = Append(folder, name)
    BY <1>1, <1>2, DirectWay
  <1>4. within(folder, Append(folder, name))
    BY <1>1 DEF within, IsPrefix, Path
  <1>5. <<name>> # <<>> /\ Head(<<name>>) = name
    OBVIOUS
  <1> QED
    BY <1>1, <1>2, <1>3, <1>4, <1>5 DEF resolveWithin, Path

Confined(owner, path) ==
    /\ within(Root, owner) /\ within(owner, path)
    /\ tree[path].kind # "link"
    /\ \A n \in Len(Root)..(Len(path) - 1) : isDirectory(SubSeq(path, 1, n))

LEMMA FileIsConfined ==
    ASSUME tree \in Trees, NEW owner \in Path, within(Root, owner), NEW relative \in RelativePath,
           NEW path, path = resolveWithin(owner, relative), path \in DOMAIN tree, tree[path].kind # "link"
    PROVE  path \in Path /\ within(owner, path) /\ Confined(owner, path)
  <1>1. path \in Path /\ within(owner, path)
    BY ResolvedPlace, NowhereIsNoPath, LoaderAssumption DEF Path
  <1>2. ASSUME NEW n \in Len(Root)..(Len(path) - 1) PROVE isDirectory(SubSeq(path, 1, n))
    <2>1. Len(Root) \in Nat /\ Len(path) \in Nat
      BY <1>1, LoaderAssumption DEF Path
    <2>2. CASE n = 0
      <3>1. SubSeq(path, 1, 0) = <<>>
        BY <1>1 DEF Path
      <3> QED
        BY <2>2, <3>1 DEF isDirectory
    <2>3. CASE n # 0
      <3>1. n \in 1..(Len(path) - 1)
        BY <2>1, <2>3
      <3> QED
        BY <3>1, LoaderAssumption DEF isDirectory
    <2> QED
      BY <2>2, <2>3
  <1> QED
    BY <1>1, <1>2 DEF Confined

(***************************************************************************)
(* The inductive invariant: the directory that is being loaded lies in the *)
(* project, and what was loaded of it so far lies in the entries that are  *)
(* done with, each in its own.                                             *)
(***************************************************************************)
Confinement ==
    /\ TypeOK /\ ReadsConfined
    /\ within(Root, folder)
    /\ entries \subseteq subdirectories(folder)
    /\ phase = "skills" =>
        \A s \in skills : s.name \notin entries /\ within(Append(folder, s.name), s.instructions)

LEMMA ConfinementKept ==
    ASSUME Confinement, Inv, UNCHANGED <<tree, folder, skills>>, TypeOK',
           entries' \subseteq entries, phase' # "skills" \/ phase = "skills",
           \A o \in opened' \ opened : Confined(o.owner, o.path)
    PROVE  Confinement'
  BY DEF Confinement, TypeOK, ReadsConfined, Confined, within, isDirectory, subdirectories

(* What decodes as a manifest is one.                                      *)
LEMMA Decoded ==
    ASSUME tree \in Trees, NEW path \in DOMAIN tree
    PROVE  /\ tree[path].kind = "agent" => tree[path] \in AgentFile
           /\ tree[path].kind = "skill" => tree[path] \in SkillFile
           /\ tree[path].kind = "plugin" => tree[path] \in PluginFile
  <1>1. tree[path] \in Node
    BY LoaderAssumption
  <1> QED
    BY <1>1 DEF Node, File, AgentFile, SkillFile, PluginFile, TextFile

LEMMA ConfinementInit == Init => Confinement
  <1> SUFFICES ASSUME Init PROVE Confinement
    OBVIOUS
  <1>1. within(Root, Root)
    BY LoaderAssumption DEF within, IsPrefix, Path
  <1>2. TypeOK
    BY LoaderAssumption DEF Init, TypeOK, Phases
  <1> QED
    BY <1>1, <1>2 DEF Init, Confinement, ReadsConfined

LEMMA DirectoryOpened ==
    ASSUME Inv, Confinement, NEW relative \in RelativePath, NEW label \in {"skills", "plugins"},
           phase \in {"openSkills", "openPlugins"}, phase = "openPlugins" => label = "plugins",
           OpenDirectory(relative, label), ~Fail
    PROVE  Confinement'
  <1> DEFINE directory == resolveWithin(Root, relative)
  <1>1. /\ isDirectory(directory) /\ folder' = directory /\ entries' = subdirectories(directory)
        /\ phase' = label /\ UNCHANGED <<tree, found, opened>>
    BY DEF OpenDirectory, Goto
  <1>2. directory \in Path /\ within(Root, directory)
    BY <1>1, DirectoryIsPath, ResolvedPlace, LoaderAssumption DEF Inv, Path
  <1>3. TypeOK'
    BY <1>1, <1>2 DEF Confinement, TypeOK, Phases, subdirectories
  <1>4. label = "skills" => skills' = {}
    BY <1>1 DEF Inv
  <1> HIDE DEF directory
  <1>5. entries' \subseteq subdirectories(folder)'
    BY <1>1 DEF subdirectories, isDirectory
  <1>6. ReadsConfined'
    BY <1>1 DEF Confinement, ReadsConfined, within, isDirectory
  <1> QED
    BY <1>1, <1>2, <1>3, <1>4, <1>5, <1>6 DEF Confinement, within

(* A skill is read from its own directory, and from nobody else's.         *)
LEMMA SkillConfined ==
    ASSUME Inv, Confinement, NEW name \in Names, LoadSkill(name), ~Fail
    PROVE  Confinement'
  <1> DEFINE owner == resolveWithin(folder, <<name>>)
             manifest == resolveWithin(owner, <<"skill.json">>)
             instructions == resolveWithin(owner, tree[manifest].instructions)
             s == [name |-> name, manifest |-> manifest, instructions |-> instructions]
  <1>1. /\ phase = "skills" /\ name \in entries
        /\ decodes(manifest, "skill") /\ named(name, manifest) /\ text(instructions)
        /\ skills' = skills \cup {s}
        /\ opened' = opened \cup {[owner |-> owner, path |-> p] : p \in {manifest, instructions}}
        /\ entries' = entries \ {name}
        /\ UNCHANGED <<tree, phase, folder, agent, plugins>>
    BY DEF LoadSkill, Open
  <1>2. /\ owner = Append(folder, name) /\ owner \in Path
        /\ within(folder, owner) /\ within(Root, owner)
    BY <1>1, EntryIsOwner, WithinTransitive, LoaderAssumption DEF Inv, Confinement, TypeOK
  <1> HIDE DEF owner
  <1>3. <<"skill.json">> \in RelativePath
    BY LoaderAssumption DEF RelativePath
  <1>4. manifest \in DOMAIN tree /\ tree[manifest].kind = "skill"
    BY <1>1 DEF decodes
  <1>5. manifest \in Path /\ Confined(owner, manifest)
    BY <1>2, <1>3, <1>4, FileIsConfined DEF Inv
  <1>6. tree[manifest].instructions \in RelativePath
    BY <1>4, Decoded DEF Inv, SkillFile
  <1> HIDE DEF manifest
  <1>7. instructions \in Path /\ within(owner, instructions) /\ Confined(owner, instructions)
    BY <1>1, <1>2, <1>6, FileIsConfined DEF Inv, text
  <1> HIDE DEF instructions
  <1>8. s \in [name : Identifiers, manifest : Path, instructions : Path]
    BY <1>1, <1>5, <1>7 DEF named
  <1>9. s.name = name /\ s.instructions = instructions
    OBVIOUS
  <1> HIDE DEF s
  <1>10. TypeOK'
    <2> DEFINE Reads == [owner : Path, path : Path]
    <2>1. \A p \in {manifest, instructions} : [owner |-> owner, path |-> p] \in Reads
      BY <1>2, <1>5, <1>7
    <2>2. opened \subseteq Reads
      BY DEF Confinement, TypeOK
    <2>3. opened' \subseteq Reads
      <3> HIDE DEF Reads
      <3> QED
        BY <1>1, <2>1, <2>2
    <2> QED
      BY <1>1, <1>8, <2>3 DEF Confinement, TypeOK
  <1>11. ASSUME NEW q \in skills PROVE q.instructions # instructions
    <2>1. /\ q.name \in Names /\ q.name # name /\ q.instructions \in Path /\ folder \in Path
          /\ within(Append(folder, q.name), q.instructions)
      BY <1>1, LoaderAssumption DEF Confinement, TypeOK
    <2> QED
      BY <1>2, <1>7, <2>1, OwnName
  <1>12. \A q, t \in skills' : q.instructions = t.instructions => q = t
    BY <1>1, <1>9, <1>11 DEF Confinement, ReadsConfined
  <1>13. \A o \in opened' : Confined(o.owner, o.path)
    BY <1>1, <1>5, <1>7 DEF Confinement, ReadsConfined, Confined
  <1>14. ReadsConfined'
    BY <1>1, <1>12, <1>13 DEF ReadsConfined, Confined, within, isDirectory
  <1>15. \A q \in skills' : q.name \notin entries' /\ within(Append(folder, q.name), q.instructions)
    BY <1>1, <1>2, <1>7, <1>9 DEF Confinement
  <1> QED
    BY <1>1, <1>10, <1>14, <1>15 DEF Confinement, within, subdirectories, isDirectory

LEMMA PluginConfined ==
    ASSUME Inv, Confinement, NEW name \in Names, LoadPlugin(name), ~Fail
    PROVE  Confinement'
  <1> DEFINE owner == resolveWithin(folder, <<name>>)
             manifest == resolveWithin(owner, <<"plugin.json">>)
  <1>1. /\ phase = "plugins" /\ name \in entries
        /\ decodes(manifest, "plugin") /\ named(name, manifest)
        /\ plugins' = plugins \cup {name}
        /\ opened' = opened \cup {[owner |-> owner, path |-> p] : p \in {manifest}}
        /\ entries' = entries \ {name}
        /\ UNCHANGED <<tree, phase, folder, agent, skills>>
    BY DEF LoadPlugin, Open
  <1>2. /\ owner = Append(folder, name) /\ owner \in Path
        /\ within(folder, owner) /\ within(Root, owner)
    BY <1>1, EntryIsOwner, WithinTransitive, LoaderAssumption DEF Inv, Confinement, TypeOK
  <1> HIDE DEF owner
  <1>3. <<"plugin.json">> \in RelativePath
    BY LoaderAssumption DEF RelativePath
  <1>4. manifest \in DOMAIN tree /\ tree[manifest].kind = "plugin"
    BY <1>1 DEF decodes
  <1>5. manifest \in Path /\ Confined(owner, manifest)
    BY <1>2, <1>3, <1>4, FileIsConfined DEF Inv
  <1> HIDE DEF manifest
  <1>6. TypeOK'
    <2> DEFINE Reads == [owner : Path, path : Path]
    <2>1. \A p \in {manifest} : [owner |-> owner, path |-> p] \in Reads
      BY <1>2, <1>5
    <2>2. opened \subseteq Reads
      BY DEF Confinement, TypeOK
    <2>3. opened' \subseteq Reads
      <3> HIDE DEF Reads
      <3> QED
        BY <1>1, <2>1, <2>2
    <2> QED
      BY <1>1, <2>3 DEF Confinement, TypeOK, named
  <1>7. \A o \in opened' \ opened : Confined(o.owner, o.path)
    BY <1>1, <1>5
  <1> QED
    BY <1>1, <1>6, <1>7, ConfinementKept

LEMMA ConfinementStep == Inv /\ Confinement /\ [Next]_vars => Confinement'
  <1> SUFFICES ASSUME Inv, Confinement, [Next]_vars PROVE Confinement'
    OBVIOUS
  <1> USE DEF Goto, Phases
  <1>a. tree \in Trees /\ TypeOK /\ Root \in Path /\ within(Root, Root)
    BY LoaderAssumption DEF Inv, Confinement, within, IsPrefix, Path
  <1>b. /\ <<"agent.json">> \in RelativePath /\ <<"skill.json">> \in RelativePath
        /\ <<"plugin.json">> \in RelativePath
    BY LoaderAssumption DEF RelativePath
  <1>1. CASE Fail
    BY <1>1, ConfinementKept DEF Fail, TypeOK, Confinement
  <1>2. CASE ReadManifest /\ ~Fail
    <2>1. /\ phase = "manifest" /\ phase' = "instructions" /\ agent' = tree[manifestPath]
          /\ opened' = opened \cup {[owner |-> Root, path |-> manifestPath]}
          /\ manifestPath \in DOMAIN tree /\ tree[manifestPath].kind = "agent"
          /\ UNCHANGED <<tree, folder, entries, skills, plugins>>
      BY <1>2 DEF ReadManifest, goodManifest, decodes, Open
    <2>2. manifestPath \in Path /\ Confined(Root, manifestPath) /\ agent' \in AgentFile
      BY <1>a, <1>b, <2>1, FileIsConfined, Decoded DEF manifestPath
    <2>3. agent' # NoFile
      BY <2>2 DEF AgentFile, NoFile
    <2>4. TypeOK'
      BY <1>a, <2>1, <2>2, <2>3 DEF TypeOK
    <2> QED
      BY <2>1, <2>2, <2>4, ConfinementKept
  <1>3. CASE ReadInstructions /\ ~Fail
    <2> DEFINE path == resolveWithin(Root, agent.instructions)
    <2>1. /\ phase = "instructions" /\ phase' = "openSkills" /\ text(path)
          /\ opened' = opened \cup {[owner |-> Root, path |-> path]}
          /\ UNCHANGED <<tree, folder, entries, found>>
      BY <1>3 DEF ReadInstructions, Open
    <2>2. agent \in AgentFile /\ agent.instructions \in RelativePath
      BY <1>a, <2>1 DEF TypeOK, AgentFile
    <2>3. path \in Path /\ Confined(Root, path)
      BY <1>a, <2>1, <2>2, FileIsConfined DEF text
    <2>4. TypeOK'
      BY <1>a, <2>1, <2>3 DEF TypeOK
    <2> QED
      BY <2>1, <2>3, <2>4, ConfinementKept
  <1>4. CASE OpenSkills /\ ~Fail
    <2>1. agent.skills \in RelativePath
      BY <1>a, <1>4 DEF OpenSkills, TypeOK, AgentFile
    <2> QED
      BY <1>4, <2>1, DirectoryOpened DEF OpenSkills
  <1>5. ASSUME NEW name \in Names, LoadSkill(name), ~Fail PROVE Confinement'
    BY <1>5, SkillConfined
  <1>6. CASE NewRegistry /\ ~Fail
    <2>1. phase = "skills" /\ phase' = "openPlugins" /\ UNCHANGED <<tree, folder, entries, found, opened>>
      BY <1>6 DEF NewRegistry
    <2>2. TypeOK'
      BY <1>a, <2>1 DEF TypeOK
    <2> QED
      BY <2>1, <2>2, ConfinementKept
  <1>7. CASE OpenPlugins /\ ~Fail
    <2>1. phase = "openPlugins" /\ agent.plugins \in RelativePath
      BY <1>a, <1>7 DEF OpenPlugins, TypeOK, AgentFile
    <2>2. CASE agent.plugins # <<>>
      BY <1>7, <2>1, <2>2, DirectoryOpened DEF OpenPlugins
    <2>3. CASE agent.plugins = <<>>
      <3>1. phase' = "loaded" /\ UNCHANGED <<tree, folder, entries, found, opened>>
        BY <1>7, <2>3 DEF OpenPlugins
      <3>2. TypeOK'
        BY <1>a, <2>1, <3>1 DEF TypeOK
      <3> QED
        BY <3>1, <3>2, ConfinementKept
    <2> QED
      BY <2>2, <2>3
  <1>8. ASSUME NEW name \in Names, LoadPlugin(name), ~Fail PROVE Confinement'
    BY <1>8, PluginConfined
  <1>9. CASE Finish
    <2>1. phase = "plugins" /\ phase' = "loaded" /\ UNCHANGED <<tree, folder, entries, found, opened>>
      BY <1>9 DEF Finish
    <2>2. TypeOK'
      BY <1>a, <2>1 DEF TypeOK
    <2> QED
      BY <2>1, <2>2, ConfinementKept
  <1>10. CASE Returned \/ UNCHANGED vars
    <2>1. UNCHANGED vars
      BY <1>10 DEF Returned
    <2>2. TypeOK'
      BY <1>a, <2>1 DEF TypeOK, vars
    <2> QED
      BY <2>1, <2>2, ConfinementKept DEF vars
  <1> QED
    BY <1>1, <1>2, <1>3, <1>4, <1>5, <1>6, <1>7, <1>8, <1>9, <1>10 DEF Next, ReadFails

(* What the loader holds is of its type, whatever the manifests say.       *)
THEOREM TypeCorrect == Spec => []TypeOK
  <1>1. Init => Inv
    BY DEF Init, Inv, SkillsDone, Phases
  <1>2. Confinement => TypeOK
    BY DEF Confinement
  <1> QED
    BY <1>1, <1>2, NextStep, ConfinementInit, ConfinementStep, PTL DEF Spec

(* Whatever its manifests contain and wherever its links lead, loading a   *)
(* project opens no file outside it, a skill's and a plugin's files only   *)
(* in their own directories, and gives no skill another one's text         *)
(* (loader.go:211-263, 388-406).                                           *)
THEOREM LoadsConfined == Spec => []ReadsConfined
  <1>1. Init => Inv
    BY DEF Init, Inv, SkillsDone, Phases
  <1>2. Confinement => ReadsConfined
    BY DEF Confinement
  <1> QED
    BY <1>1, <1>2, NextStep, ConfinementInit, ConfinementStep, PTL DEF Spec
=============================================================================
