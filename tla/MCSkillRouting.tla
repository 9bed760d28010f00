--------------------------- MODULE MCSkillRouting ---------------------------
(* Instances of SkillRouting for TLC.                                      *)
EXTENDS SkillRouting

MCLetter == {"a", "A", "b", " "}
MCLower == [l \in MCLetter |-> IF l = "A" THEN "a" ELSE l]
MCInputs == {<<" ", "A", "b">>, <<"b", " ", "a">>, <<"b", "b">>, <<" ">>}

skill(name, examples) == [name |-> name, complete |-> TRUE, examples |-> examples]
(* Examples that overlap, repeat, differ in case only, or end in a space.  *)
exampleLists == {<<>>, <<<<"A">>>>, <<<<"a", "b">>>>, <<<<"b">>, <<"b">>>>, <<<<"a">>, <<"b">>>>,
                 <<<<"b", " ">>>>}
MCDefinitions ==
    {<<skill(2, a), skill(1, b), skill(3, c)>> : a, b, c \in exampleLists}
    \cup {<<skill(1, a), skill(1, b)>> : a, b \in exampleLists}
    \cup {<<>>, <<skill(1, <<<<" ">>>>)>>, <<[skill(1, <<>>) EXCEPT !.complete = FALSE]>>}
=============================================================================
