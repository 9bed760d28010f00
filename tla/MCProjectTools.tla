--------------------------- MODULE MCProjectTools ---------------------------
(* Instances of ProjectTools for TLC.                                      *)
EXTENDS ProjectTools

MCSymbol == {"a", "b", ".", "-", "_", "clock", "now"}
dashed == <<"a", "-", "b">>
lined == <<"a", "_", "b">>
plain == <<"b">>
prefix == <<"a">>
dotted == <<"a", ".", "b">>
joined == <<"b", "_", "_", "b">>
inner == <<"a", "_", "_", "b">>
MCPluginNames == {dashed, lined, prefix, inner}
MCRemoteNames == {plain, lined, dotted, joined}
MCClock == <<"clock", "_", "now">>

map(capability, remotes) == [capability |-> capability, tools |-> remotes]
plugin(name, approval, mappings) ==
    [name |-> name, wellFormed |-> TRUE, approval |-> approval, mappings |-> mappings]
MCManifests ==
    {plugin(name, approval, mappings) :
        name \in MCPluginNames, approval \in {"allow", "ask"},
        mappings \in {<<map("x.read", <<plain, lined>>)>>, <<map("x.read", <<lined, dotted>>)>>,
                      <<map("x.read", <<joined>>), map("clock.read", <<joined, plain>>)>>}}
(* Manifests that do not load: no mapping, a repeated one, an empty one, a *)
(* repeated tool, an unknown approval, bad syntax.                         *)
BadManifests ==
    {plugin(prefix, "deny", mappings) :
        mappings \in {<<>>, <<map("x.read", <<plain>>), map("x.read", <<lined>>)>>,
                      <<map("x.read", <<>>)>>, <<map("x.read", <<plain, plain>>)>>}}
    \cup {plugin(prefix, "other", <<map("x.read", <<plain>>)>>),
          [plugin(prefix, "allow", <<map("x.read", <<plain>>)>>) EXCEPT !.wellFormed = FALSE]}
MCProjects ==
    {<<>>} \cup {<<m>> : m \in MCManifests \cup BadManifests}
    \cup {<<m, n>> : m, n \in MCManifests}
=============================================================================
