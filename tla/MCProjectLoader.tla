--------------------------- MODULE MCProjectLoader ---------------------------
(* Instances of ProjectLoader for TLC.                                     *)
EXTENDS ProjectLoader, TLC

MCNames == {"home", "proj", "out", "agent.json", "inst", "skills", "other", "plugins",
            "a", "Bad", "skill.json", "md", "p", "plugin.json"}
MCIdentifiers == {"skills", "other", "plugins", "a", "p"}
MCRoot == <<"home", "proj">>

at(path, node) == path :> node
in(path) == MCRoot \o path
dir == [kind |-> "directory"]
link(path) == [kind |-> "link", to |-> path]
plain(kind) == [kind |-> kind]
Out == <<"home", "out">>
absent == [q \in {} |-> dir]
AllOf(parts) == FoldLeft(LAMBDA f, g : f @@ g, absent, parts)

(* agent.json: instructions by a plain path, by one that leaves the        *)
(* project and comes back, by an absolute one, or by one that escapes; the *)
(* skills in a directory, behind a link, or in the project's directory.    *)
agents ==
    [kind : {"agent"}, complete : {TRUE}, default : {"a"},
     instructions : {<<"inst">>, <<"..", "proj", "inst">>, <<"/", "home", "proj", "inst">>, <<"..", "out", "md">>},
     skills : {<<"skills">>, <<"other">>, <<"skills", "..">>},
     plugins : {<<>>, <<"plugins">>}]
    \cup [kind : {"agent"}, complete : BOOLEAN, default : {"a", "Bad"}, instructions : {<<"inst">>},
          skills : {<<"skills">>}, plugins : {<<>>}]

instructions == {plain("text"), plain("blank"), plain("other"), dir, link(in(<<"skills", "a", "md">>)),
                 link(Out \o <<"md">>)}
others == {absent, at(in(<<"other">>), link(in(<<"skills">>))), at(in(<<"other">>), link(Out))}

(* A skill directory: its manifest names the skill's own text, another     *)
(* skill's, or one outside; the manifest or the text may be a link; the    *)
(* directory may itself be a link.                                         *)
skill(name, path) == [kind |-> "skill", complete |-> TRUE, name |-> name, instructions |-> path]
skillAt(path, manifest, words) ==
    AllOf(<<at(path, dir), at(path \o <<"skill.json">>, manifest), at(path \o <<"md">>, words)>>)
firstSkills ==
    {skillAt(in(<<"skills", "a">>), m, plain("text")) :
        m \in {skill("a", <<"md">>), skill("p", <<"md">>), skill("a", <<"..", "p", "md">>), skill("a", <<>>),
               link(Out \o <<"a", "skill.json">>)}}
    \cup {skillAt(in(<<"skills", "a">>), skill("a", <<"md">>), w) :
             w \in {plain("blank"), link(in(<<"skills", "p", "md">>)), link(Out \o <<"md">>)}}
    \cup {at(in(<<"skills", "a">>), link(Out \o <<"a">>)), at(in(<<"skills", "a">>), plain("text"))}
secondSkills ==
    {absent, skillAt(in(<<"skills", "p">>), skill("p", <<"md">>), plain("text")), skillAt(in(<<"skills", "Bad">>), skill("Bad", <<"md">>), plain("text")),
     at(in(<<"skills", "p">>), link(Out \o <<"p">>)), at(in(<<"skills", "p">>), dir)}
pluginDirectories ==
    {AllOf(<<at(in(<<"plugins", "p">>), dir),
             at(in(<<"plugins", "p", "plugin.json">>), [kind |-> "plugin", complete |-> c, name |-> n])>>) :
        c \in BOOLEAN, n \in {"p", "a"}}
    \cup {absent, at(in(<<"plugins", "p">>), link(Out \o <<"p">>)), at(in(<<"plugins", "inst">>), plain("text"))}

(* What lies outside is a well-formed skill and a well-formed plugin.      *)
outside ==
    AllOf(<<at(<<"home">>, dir), at(MCRoot, dir), at(Out, dir), at(Out \o <<"md">>, plain("text")),
            skillAt(Out \o <<"a">>, skill("a", <<"md">>), plain("text")),
            skillAt(Out \o <<"p">>, skill("p", <<"md">>), plain("text")),
            at(in(<<"skills">>), dir), at(in(<<"plugins">>), dir)>>)

treeOf(j, i, o, s, t, p) == AllOf(<<outside, at(in(<<"agent.json">>), j), at(in(<<"inst">>), i), o, s, t, p>>)
goodSkill == skillAt(in(<<"skills", "a">>), skill("a", <<"md">>), plain("text"))

(* Every agent.json with all kinds of instructions; and every combination  *)
(* of skill and plugin directories, reached directly or through a link.    *)
MCTrees ==
    {treeOf(j, i, o, goodSkill, absent, absent) : j \in agents, i \in instructions, o \in others}
    \cup {treeOf(j, plain("text"), o, s, t, p) :
             j \in {k \in agents : k.complete /\ k.default = "a" /\ k.instructions = <<"inst">> /\ Len(k.skills) = 1},
             o \in others, s \in firstSkills, t \in secondSkills, p \in pluginDirectories}
=============================================================================
