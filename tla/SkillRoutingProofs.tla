-------------------------- MODULE SkillRoutingProofs --------------------------
(***************************************************************************)
(* For every set of skills, every input and every order in which the map   *)
(* and the sort leave the skills: an input goes to the best of them.       *)
(***************************************************************************)
EXTENDS SkillRouting, FiniteSetTheorems, NaturalsInduction, WellFoundedInduction, TLAPS

USE DEF registry

(***************************************************************************)
(* Induction over the examples of a skill.                                 *)
(***************************************************************************)
LEMMA LeastNumber ==
    ASSUME NEW T, T \subseteq Nat, T # {}
    PROVE  \E n \in T : \A m \in T : n <= m
  <1> DEFINE R == OpToRel(<, Nat)
  <1>1. \E n \in T : \A m \in T : ~(<<m, n>> \in R)
    <2>1. IsWellFoundedOn(R, Nat)
      BY NatLessThanWellFounded
    <2> HIDE DEF R
    <2> QED
      BY <2>1, WFMin
  <1>2. PICK n \in T : \A m \in T : ~(<<m, n>> \in R)
    BY <1>1
  <1>3. \A m \in T : ~(m < n)
    BY <1>2 DEF OpToRel
  <1> QED
    BY <1>3

LEMMA StepByStep ==
    ASSUME NEW T, NEW n \in Nat, 0 \in T, \A i \in 1..n : i - 1 \in T => i \in T
    PROVE  \A i \in 0..n : i \in T
  <1> DEFINE U == {i \in 0..n : i \notin T}
  <1> SUFFICES ASSUME U # {} PROVE FALSE
    OBVIOUS
  <1>1. PICK i \in U : \A m \in U : i <= m
    <2>1. U \subseteq Nat
      OBVIOUS
    <2> HIDE DEF U
    <2> QED
      BY <2>1, LeastNumber
  <1>2. i # 0 /\ i - 1 \in 0..n /\ i - 1 \notin U
    BY <1>1
  <1> QED
    BY <1>1, <1>2

(***************************************************************************)
(* The sum over the examples is the number of their letters.               *)
(***************************************************************************)
isSkill(s) == s.name \in Nat /\ s.examples \in Seq(Text)
hits(s, t) == {i \in DOMAIN s.examples : occurs(lowered(s.examples[i]), t)}
block(s, i) == {<<i, k>> : k \in DOMAIN s.examples[i]}
lettersUpTo(s, t, n) == UNION {block(s, i) : i \in hits(s, t) \cap 1..n}

LEMMA OneBlock ==
    ASSUME NEW s, isSkill(s), NEW i \in DOMAIN s.examples
    PROVE  IsFiniteSet(block(s, i)) /\ Cardinality(block(s, i)) = Len(s.examples[i])
  <1> DEFINE m == Len(s.examples[i])
             f == [k \in 1..m |-> <<i, k>>]
  <1>1. m \in Nat /\ DOMAIN s.examples[i] = 1..m
    BY DEF isSkill, Text
  <1>2. f \in Bijection(1..m, block(s, i))
    BY <1>1 DEF block, Bijection, Injection, Surjection, IsInjective
  <1>3. IsFiniteSet(1..m) /\ Cardinality(1..m) = m
    BY <1>1, FS_Interval
  <1> HIDE DEF f, m
  <1>4. ExistsBijection(1..m, block(s, i))
    BY <1>2 DEF ExistsBijection
  <1> QED
    BY <1>3, <1>4, FS_Bijection DEF m

LEMMA NoLetters == ASSUME NEW s, NEW t PROVE lettersUpTo(s, t, 0) = {}
  BY DEF lettersUpTo

LEMMA MoreLetters ==
    ASSUME NEW s, isSkill(s), NEW t, NEW n \in 1..Len(s.examples), IsFiniteSet(lettersUpTo(s, t, n - 1))
    PROVE  /\ IsFiniteSet(lettersUpTo(s, t, n))
           /\ Cardinality(lettersUpTo(s, t, n)) =
                  IF occurs(lowered(s.examples[n]), t)
                  THEN Cardinality(lettersUpTo(s, t, n - 1)) + Len(s.examples[n])
                  ELSE Cardinality(lettersUpTo(s, t, n - 1))
  <1>1. n \in DOMAIN s.examples /\ Len(s.examples) \in Nat
    BY DEF isSkill
  <1>2. CASE n \in hits(s, t)
    <2>1. lettersUpTo(s, t, n) = lettersUpTo(s, t, n - 1) \cup block(s, n)
      <3>1. hits(s, t) \cap 1..n = (hits(s, t) \cap 1..(n - 1)) \cup {n}
        BY <1>1, <1>2
      <3> QED
        BY <3>1 DEF lettersUpTo
    <2>2. lettersUpTo(s, t, n - 1) \cap block(s, n) = {}
      BY <1>1 DEF lettersUpTo, block
    <2>3. IsFiniteSet(block(s, n)) /\ Cardinality(block(s, n)) = Len(s.examples[n])
      BY <1>1, OneBlock
    <2>4. Cardinality({}) = 0
      BY FS_EmptySet
    <2>5. Cardinality(lettersUpTo(s, t, n - 1)) \in Nat /\ Len(s.examples[n]) \in Nat
      BY <1>1, FS_CardinalityType DEF isSkill, Text
    <2>6. /\ IsFiniteSet(lettersUpTo(s, t, n))
          /\ Cardinality(lettersUpTo(s, t, n)) =
                Cardinality(lettersUpTo(s, t, n - 1)) + Cardinality(block(s, n)) - Cardinality({})
      BY <2>1, <2>2, <2>3, FS_Union
    <2> QED
      BY <1>2, <2>3, <2>4, <2>5, <2>6 DEF hits
  <1>3. CASE n \notin hits(s, t)
    <2>1. hits(s, t) \cap 1..n = hits(s, t) \cap 1..(n - 1)
      BY <1>1, <1>3
    <2>2. lettersUpTo(s, t, n) = lettersUpTo(s, t, n - 1)
      BY <2>1 DEF lettersUpTo
    <2> QED
      BY <1>1, <1>3, <2>2 DEF hits
  <1> QED
    BY <1>2, <1>3

LEMMA LettersCounted ==
    ASSUME NEW s, isSkill(s), NEW t
    PROVE  \A n \in 0..Len(s.examples) :
              IsFiniteSet(lettersUpTo(s, t, n)) /\ Cardinality(lettersUpTo(s, t, n)) \in Nat
  <1> DEFINE T == {n \in 0..Len(s.examples) : IsFiniteSet(lettersUpTo(s, t, n))}
  <1>1. Len(s.examples) \in Nat
    BY DEF isSkill
  <1>2. 0 \in T
    BY <1>1, NoLetters, FS_EmptySet
  <1>3. \A n \in 1..Len(s.examples) : n - 1 \in T => n \in T
    BY <1>1, MoreLetters
  <1> HIDE DEF T
  <1>4. \A n \in 0..Len(s.examples) : n \in T
    BY <1>1, <1>2, <1>3, StepByStep
  <1> QED
    BY <1>4, FS_CardinalityType DEF T

LEMMA ScoreIsPoints ==
    ASSUME NEW s, isSkill(s)
    PROVE  score(s) = points(s, input) /\ score(s) \in Nat
  <1> DEFINE N == Len(s.examples)
             add(n, m) == IF occurs(lowered(s.examples[n]), input) THEN m + Len(s.examples[n]) ELSE m
             f == [n \in 0..N |-> Cardinality(lettersUpTo(s, input, n))]
             h == CHOOSE u : u = [n \in 0..N |-> IF n = 0 THEN 0 ELSE add(n, u[n - 1])]
  <1>1. N \in Nat /\ DOMAIN s.examples = 1..N
    BY DEF isSkill
  <1>2. score(s) = h[N]
    BY DEF score
  <1>3. ASSUME NEW n \in 0..N PROVE f[n] = IF n = 0 THEN 0 ELSE add(n, f[n - 1])
    <2>1. CASE n = 0
      BY <2>1, NoLetters, FS_EmptySet
    <2>2. CASE n # 0
      <3>1. n \in 1..N /\ n - 1 \in 0..N
        BY <1>1, <2>2
      <3>2. IsFiniteSet(lettersUpTo(s, input, n - 1))
        BY <3>1, LettersCounted
      <3> QED
        BY <2>2, <3>1, <3>2, MoreLetters
    <2> QED
      BY <2>1, <2>2
  <1> HIDE DEF add, N
  <1>4. f = [n \in 0..N |-> IF n = 0 THEN 0 ELSE add(n, f[n - 1])]
    <2>1. f = [n \in 0..N |-> f[n]]
      OBVIOUS
    <2> HIDE DEF f
    <2> QED
      BY <1>3, <2>1
  <1> HIDE DEF f
  <1>5. h = [n \in 0..N |-> IF n = 0 THEN 0 ELSE add(n, h[n - 1])]
    BY <1>4
  <1> HIDE DEF h
  <1> DEFINE T == {n \in 0..N : h[n] = f[n]}
  <1>6. 0 \in T
    BY <1>1, <1>3, <1>5
  <1>7. \A n \in 1..N : n - 1 \in T => n \in T
    BY <1>1, <1>3, <1>5
  <1> HIDE DEF T
  <1>8. N \in T
    <2>1. \A n \in 0..N : n \in T
      BY <1>1, <1>6, <1>7, StepByStep
    <2> QED
      BY <1>1, <2>1
  <1>9. score(s) = Cardinality(lettersUpTo(s, input, N)) /\ N \in 0..N
    BY <1>1, <1>2, <1>8 DEF T, f
  <1>10. lettersUpTo(s, input, N) = UNION {block(s, i) : i \in hits(s, input)}
    <2>1. hits(s, input) \cap 1..N = hits(s, input)
      BY <1>1 DEF hits
    <2> QED
      BY <2>1 DEF lettersUpTo
  <1>11. points(s, input) = Cardinality(lettersUpTo(s, input, N))
    BY <1>10 DEF points, hits, block
  <1>12. Cardinality(lettersUpTo(s, input, N)) \in Nat
    BY <1>1, <1>9, LettersCounted DEF N
  <1> QED
    BY <1>9, <1>11, <1>12

(***************************************************************************)
(* The invariant: what is in the registry, and what is known of the skills *)
(* while an input is routed.                                               *)
(***************************************************************************)
Registered ==
    /\ definitions \in Definitions
    /\ phase \in {"building", "refused", "ready", "scoring", "sorted"}
    /\ \A s \in skills : isSkill(s)
    /\ phase \in {"building", "refused"} => routed = {}
    /\ phase \in {"ready", "scoring", "sorted"} => \E s \in skills : s.name = defaultName

ScoredSkill == [skill : skills, score : Nat]
Known ==
    /\ scored \in Seq(ScoredSkill)
    /\ \A i \in DOMAIN scored : scored[i].score = points(scored[i].skill, input)
Ranked == sorted(scored) /\ \A s \in skills : \E i \in DOMAIN scored : scored[i].skill = s

Scored == /\ phase \in {"scoring", "sorted"} => Known
          /\ phase = "sorted" => Ranked

IInv == Registered /\ Scored /\ RoutedToBest

(* The sort leaves the same skills, each of them once.                     *)
LEMMA SameElements ==
    ASSUME NEW S, NEW seq \in Seq(S), NEW order \in SetToSeqs(ToSet(seq))
    PROVE  order \in Seq(ToSet(seq)) /\ ToSet(order) = ToSet(seq)
  <1> DEFINE E == ToSet(seq)
             n == Cardinality(E)
  <1>1. Len(seq) \in Nat /\ seq \in Surjection(1..Len(seq), E)
    BY DEF ToSet, Surjection
  <1>2. IsFiniteSet(E)
    <2>1. IsFiniteSet(1..Len(seq))
      BY <1>1, FS_Interval
    <2> HIDE DEF E
    <2> QED
      BY <1>1, <2>1, FS_Surjection
  <1>3. n \in Nat
    BY <1>2, FS_CardinalityType
  <1>4. order \in Injection(1..n, E)
    BY DEF SetToSeqs, Injection, IsInjective
  <1>5. Cardinality(1..n) = n
    BY <1>3, FS_Interval
  <1> HIDE DEF n, E
  <1>6. order \in Surjection(1..n, E)
    <2>1. Cardinality(1..n) = Cardinality(E)
      BY <1>5 DEF n
    <2> QED
      BY <1>2, <1>4, <2>1, FS_Injection
  <1>7. order \in [1..n -> E] /\ \A e \in E : \E i \in 1..n : order[i] = e
    BY <1>6 DEF Surjection
  <1>8. order \in Seq(E) /\ DOMAIN order = 1..n
    BY <1>3, <1>7
  <1>9. ToSet(order) = E
    BY <1>7, <1>8 DEF ToSet
  <1> QED
    BY <1>8, <1>9 DEF E

(* The routing of one input, of skills ranked by their points.             *)
Best(name, t) == \E s \in skills :
    /\ s.name = name
    /\ IF \A q \in skills : points(q, t) = 0
       THEN s.name = defaultName
       ELSE \A q \in skills :
                \/ points(q, t) < points(s, t)
                \/ points(q, t) = points(s, t) /\ s.name <= q.name

LEMMA RoutedIsBest == RoutedToBest <=> \A r \in routed : Best(r.skill, r.input)
  BY DEF RoutedToBest, Best

LEMMA ChosenIsBest ==
    ASSUME Registered, Known, Ranked, phase = "sorted"
    PROVE  Best(chosen, input)
  <1>0. ASSUME NEW j \in DOMAIN scored
        PROVE  /\ scored[j].skill \in skills /\ scored[j].score = points(scored[j].skill, input)
               /\ points(scored[j].skill, input) \in Nat /\ scored[j].skill.name \in Nat
    <2>1. scored[j] \in ScoredSkill /\ scored[j].score = points(scored[j].skill, input)
      BY DEF Known
    <2>2. scored[j].skill \in skills /\ scored[j].score \in Nat
      BY <2>1 DEF ScoredSkill
    <2>3. scored[j].skill.name \in Nat
      BY <2>2 DEF Registered, isSkill
    <2> QED
      BY <2>1, <2>2, <2>3
  <1>1. PICK d \in skills : d.name = defaultName
    BY DEF Registered
  <1>2. PICK i \in DOMAIN scored : scored[i].skill = d
    BY DEF Ranked
  <1>3. 1 \in DOMAIN scored
    BY <1>2 DEF Known
  <1> DEFINE s == scored[1].skill
  <1>4. /\ s \in skills /\ scored[1].score = points(s, input)
        /\ points(s, input) \in Nat /\ s.name \in Nat
    BY <1>0, <1>3
  <1>5. ASSUME NEW q \in skills
        PROVE  /\ points(q, input) \in Nat /\ q.name \in Nat
               /\ \/ points(q, input) < points(s, input)
                  \/ points(q, input) = points(s, input) /\ s.name <= q.name
    <2>1. PICK j \in DOMAIN scored : scored[j].skill = q
      BY DEF Ranked
    <2>2. scored[j].score = points(q, input) /\ points(q, input) \in Nat /\ q.name \in Nat
      BY <1>0, <2>1
    <2>3. j \in Nat /\ j >= 1
      BY DEF Known
    <2>4. CASE j = 1
      BY <1>4, <2>1, <2>2, <2>4
    <2>5. CASE j # 1
      <3>1. ~less(scored[j], scored[1])
        BY <1>3, <2>1, <2>5, <2>3 DEF Ranked, sorted
      <3>2. ~(points(q, input) > points(s, input))
            /\ ~(points(q, input) = points(s, input) /\ q.name < s.name)
        BY <1>4, <2>1, <2>2, <3>1 DEF less
      <3> QED
        BY <1>4, <2>2, <3>2
    <2> QED
      BY <2>4, <2>5
  <1> HIDE DEF s
  <1>6. CASE points(s, input) = 0
    <2>1. chosen = defaultName
      BY <1>4, <1>6 DEF chosen
    <2>2. \A q \in skills : points(q, input) = 0
      BY <1>5, <1>6
    <2> QED
      BY <1>1, <2>1, <2>2 DEF Best
  <1>7. CASE points(s, input) # 0
    <2>1. chosen = s.name
      BY <1>4, <1>7 DEF chosen, s
    <2> QED
      BY <1>4, <1>5, <1>7, <2>1 DEF Best
  <1> QED
    BY <1>6, <1>7

LEMMA Invariant == Spec => []IInv
  <1> USE DEF IInv
  <1>1. Init => IInv
    BY DEF Init, Registered, Scored, RoutedToBest
  <1>2. IInv /\ [Next]_vars => IInv'
    <2> SUFFICES ASSUME IInv, [Next]_vars PROVE IInv'
      OBVIOUS
    <2>1. CASE Build
      <3>1. \A s \in skills' : isSkill(s)
        BY <2>1, RoutingAssumption DEF Build, ToSet, Registered, isSkill
      <3>2. \E s \in skills' : s.name = defaultName'
        BY <2>1 DEF Build, accepted, ToSet
      <3> QED
        BY <2>1, <3>1, <3>2 DEF Build, Registered, Scored, RoutedToBest
    <2>2. CASE BuildRefused
      BY <2>2 DEF BuildRefused, Registered, Scored, RoutedToBest
    <2>3. ASSUME NEW t \in Inputs, Select(t) PROVE IInv'
      <3>1. Known'
        BY <2>3 DEF Select, Known
      <3> QED
        BY <2>3, <3>1 DEF Select, Registered, Scored, RoutedToBest
    <2>4. ASSUME NEW s \in skills, Score(s) PROVE IInv'
      <3>1. score(s) = points(s, input) /\ score(s) \in Nat
        BY ScoreIsPoints DEF Registered
      <3>2. Known'
        BY <2>4, <3>1 DEF Score, Scored, Known, ScoredSkill
      <3> QED
        BY <2>4, <3>2 DEF Score, Registered, Scored, RoutedToBest
    <2>5. CASE Sort
      <3>1. PICK order \in SetToSeqs(ToSet(scored)) : sorted(order) /\ scored' = order
        BY <2>5 DEF Sort
      <3>2. Known /\ phase = "scoring" /\ phase' = "sorted" /\ UNCHANGED <<registry, input, routed>>
        BY <2>5 DEF Sort, Scored
      <3>3. order \in Seq(ToSet(scored)) /\ ToSet(order) = ToSet(scored)
        BY <3>1, <3>2, SameElements DEF Known
      <3>4. \A i \in DOMAIN order : \E j \in DOMAIN scored : order[i] = scored[j]
        BY <3>3 DEF ToSet
      <3>5. \A j \in DOMAIN scored : \E i \in DOMAIN order : order[i] = scored[j]
        BY <3>3 DEF ToSet
      <3>6. Known'
        <4>1. ToSet(scored) \subseteq ScoredSkill
          BY <3>2 DEF Known, ToSet
        <4> QED
          BY <3>1, <3>2, <3>3, <3>4, <4>1 DEF Known, ScoredSkill
      <3>7. Ranked'
        BY <2>5, <3>1, <3>2, <3>5 DEF Sort, Ranked, sorted
      <3> QED
        BY <3>2, <3>6, <3>7 DEF Registered, Scored, RoutedToBest
    <2>6. CASE Return
      <3>1. Best(chosen, input)
        BY <2>6, ChosenIsBest DEF Return, Scored
      <3>2. \A r \in routed' : Best(r.skill, r.input)
        BY <2>6, <3>1, RoutedIsBest DEF Return
      <3>3. RoutedToBest'
        BY <2>6, <3>2 DEF Return, RoutedToBest, Best
      <3> QED
        BY <2>6, <3>3 DEF Return, Registered, Scored
    <2>7. CASE Idle \/ UNCHANGED vars
      BY <2>7 DEF Idle, vars, Registered, Scored, Known, ScoredSkill, Ranked, RoutedToBest
    <2> QED
      BY <2>1, <2>2, <2>3, <2>4, <2>5, <2>6, <2>7 DEF Next
  <1> QED
    BY <1>1, <1>2, PTL DEF Spec

(* Whatever order the map and the sort leave the skills in, an input goes  *)
(* to the first by name of those with most points, and to the default only *)
(* if none has any (RoutedToBest).                                         *)
THEOREM Routes == Spec => []RoutedToBest
  BY Invariant, PTL DEF IInv
=============================================================================
