---------------------------- MODULE SkillRouting ----------------------------
(***************************************************************************)
(* The skill registry (skill/skill.go): validation and the routing of      *)
(* inputs.  Select ranges over a map, so it meets the skills in an order   *)
(* of Go's choice, and sorts them with a sort that is not stable; runs     *)
(* nevertheless count on the same input going to the same skill.           *)
(*                                                                         *)
(* A text is a sequence of letters.  Names are numbers, which are ordered  *)
(* as the names are.                                                       *)
(***************************************************************************)
EXTENDS Naturals, FiniteSets, SequencesExt

CONSTANTS
    Letter,      \* what texts are made of
    Lower,       \* strings.ToLower, letter by letter
    Space,       \* the letter that strings.TrimSpace removes
    Inputs,      \* what users write
    Definitions, \* lists of skills: [name, complete, examples]
    DefaultNames \* defaults an application names

Text == Seq(Letter)

ASSUME RoutingAssumption ==
    /\ Space \in Letter /\ Lower \in [Letter -> Letter] /\ Lower[Space] = Space
    /\ Inputs \subseteq Text
    /\ \A list \in Definitions : \A i \in DOMAIN list :
        /\ list[i].name \in Nat /\ list[i].complete \in BOOLEAN
        /\ list[i].examples \in Seq(Text)

VARIABLES
    phase,       \* what the registry is doing
    definitions, \* the skills given to NewRegistry
    defaultName, \* Registry.defaultName
    skills,      \* Registry.skills
    input,       \* Select: the normalised input
    scored,      \* Select: the skills with their scores
    routed       \* history: the normalised inputs and where they went

vars == <<phase, definitions, defaultName, skills, input, scored, routed>>
registry == <<definitions, defaultName, skills>>

lowered(t) == [i \in DOMAIN t |-> Lower[t[i]]]
(* strings.TrimSpace.                                                      *)
trimmed(t) ==
    LET ink == {i \in DOMAIN t : t[i] # Space} IN
    IF ink = {} THEN <<>>
    ELSE SubSeq(t, CHOOSE i \in ink : \A j \in ink : i <= j, CHOOSE i \in ink : \A j \in ink : j <= i)
occurs(part, t) == \E i \in 0..(Len(t) - Len(part)) : SubSeq(t, i + 1, i + Len(part)) = part

Init ==
    /\ phase = "building"
    /\ definitions \in Definitions /\ defaultName \in DefaultNames
    /\ skills = {} /\ input = <<>> /\ scored = <<>> /\ routed = {}

(* validate: texts that are required, routing examples that are not blank. *)
valid(s) == s.complete /\ \A i \in DOMAIN s.examples : trimmed(s.examples[i]) # <<>>

accepted ==
    /\ \A i \in DOMAIN definitions : valid(definitions[i])
    /\ \A i, j \in DOMAIN definitions : definitions[i].name = definitions[j].name => i = j
    /\ \E i \in DOMAIN definitions : definitions[i].name = defaultName

(* NewRegistry.                                                            *)
Build ==
    /\ phase = "building"
    /\ accepted
    /\ skills' = ToSet(definitions)
    /\ phase' = "ready"
    /\ UNCHANGED <<definitions, defaultName, input, scored, routed>>

BuildRefused ==
    /\ phase = "building"
    /\ ~accepted
    /\ phase' = "refused"
    /\ UNCHANGED <<registry, input, scored, routed>>

(* The score of a skill: the length of every example that the input has,   *)
(* a repeated example counting again.                                      *)
score(s) ==
    LET sum[n \in 0..Len(s.examples)] ==
            IF n = 0 THEN 0
            ELSE IF occurs(lowered(s.examples[n]), input) THEN sum[n - 1] + Len(s.examples[n])
            ELSE sum[n - 1]
    IN  sum[Len(s.examples)]

(* Select: a blank input is refused by the runtime before and by Select.   *)
Select(t) ==
    /\ phase = "ready"
    /\ trimmed(t) # <<>>
    /\ input' = lowered(trimmed(t))
    /\ scored' = <<>>
    /\ phase' = "scoring"
    /\ UNCHANGED <<registry, routed>>

(* The loop over the map: any skill that has not come yet comes next.      *)
Score(s) ==
    /\ phase = "scoring"
    /\ s \in skills \ {scored[i].skill : i \in DOMAIN scored}
    /\ scored' = Append(scored, [skill |-> s, score |-> score(s)])
    /\ UNCHANGED <<phase, registry, input, routed>>

(* Mutant: equal scores are left as they come.                             *)
lessByScore(a, b) == a.score > b.score

less(a, b) == a.score > b.score \/ (a.score = b.score /\ a.skill.name < b.skill.name)

(* Whatever order the sort may leave: none in which a later element is     *)
(* less than an earlier one.                                               *)
sorted(s) == \A i, j \in DOMAIN s : i < j => ~less(s[j], s[i])
Sort ==
    /\ phase = "scoring"
    /\ \A s \in skills : \E i \in DOMAIN scored : scored[i].skill = s
    /\ \E order \in SetToSeqs(ToSet(scored)) :
        sorted(order) /\ scored' = order
    /\ phase' = "sorted"
    /\ UNCHANGED <<registry, input, routed>>

chosen == IF scored[1].score > 0 THEN scored[1].skill.name ELSE defaultName

Return ==
    /\ phase = "sorted"
    /\ routed' = routed \cup {[input |-> input, skill |-> chosen]}
    /\ phase' = "ready" /\ input' = <<>> /\ scored' = <<>>
    /\ UNCHANGED registry

Idle ==
    /\ phase \in {"ready", "refused"}
    /\ UNCHANGED vars

Next ==
    \/ Build \/ BuildRefused \/ Sort \/ Return \/ Idle
    \/ \E t \in Inputs : Select(t)
    \/ \E s \in skills : Score(s)

Spec == Init /\ [][Next]_vars

(* The points of a skill, from its definition: the letters of those of its *)
(* examples that lie somewhere in the input.                               *)
points(s, t) ==
    LET hit == {i \in DOMAIN s.examples : occurs(lowered(s.examples[i]), t)}
    IN  Cardinality(UNION {{<<i, k>> : k \in DOMAIN s.examples[i]} : i \in hit})

(* "Select one skill deterministically" (docs/architecture.md:33): in      *)
(* whatever order the map and the sort leave the skills, an input goes to  *)
(* the first by name of those with most points, and to the default only    *)
(* when none has any (56-87).                                              *)
RoutedToBest ==
    \A r \in routed : \E s \in skills :
        /\ s.name = r.skill
        /\ IF \A t \in skills : points(t, r.input) = 0
           THEN s.name = defaultName
           ELSE \A t \in skills :
                    \/ points(t, r.input) < points(s, r.input)
                    \/ points(t, r.input) = points(s, r.input) /\ s.name <= t.name
=============================================================================
