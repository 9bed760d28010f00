---------------------------- MODULE ProjectTools ----------------------------
(***************************************************************************)
(* How the CLI assembles the tools of a project (cmd/hot-take/main.go,     *)
(* project/loader.go, mcp/tool.go, tool/registry.go,                       *)
(* capability/registry.go, permission/permission.go).  The plugin          *)
(* manifests are validated together; then, plugin after plugin, the tools  *)
(* its server advertises are compared with those its manifest lists, and   *)
(* each listed one is registered under a local name, granted to its        *)
(* capabilities and given the rule of its plugin.  Any failure ends the    *)
(* startup, and nothing assembled so far is used.                          *)
(*                                                                         *)
(* A name is a sequence of symbols: the local name of a remote tool is     *)
(* computed from the plugin's name and the tool's, and different tools may *)
(* end up with the same one.                                               *)
(***************************************************************************)
EXTENDS Naturals, Sequences, FiniteSets, Functions

CONSTANTS
    Symbol,        \* what names are made of
    PluginNames,   \* names of plugins
    RemoteNames,   \* names of tools on their servers
    Capabilities,  \* names of capabilities
    ClockRead,     \* the capability of the built-in clock
    Clock,         \* the local name of the built-in clock
    Projects       \* the plugin manifests a project may have, in directory order

Modes == {"allow", "deny", "ask"}
CapabilityMapping == [capability : Capabilities, tools : Seq(RemoteNames)]
Manifest == [name : PluginNames, wellFormed : BOOLEAN, approval : Modes \cup {"other"},
             mappings : Seq(CapabilityMapping)]

ASSUME ProjectAssumption ==
    /\ {".", "-", "_"} \subseteq Symbol
    /\ PluginNames \subseteq Seq(Symbol)
    /\ RemoteNames \subseteq Seq(Symbol)
    /\ Clock \in Seq(Symbol)
    /\ ClockRead \in Capabilities
    /\ Projects \subseteq Seq(Manifest)

VARIABLES
    project,       \* the plugin manifests on disk
    phase,         \* how far startup is
    at,            \* the plugin being connected
    offered,       \* what the servers of the plugins so far advertise
    pending,       \* the listed tools of this plugin still to be registered
    tools,         \* tool.Registry: local names with what they are bound to
    capabilities,  \* the grants: which capability is provided by which tool
    rules          \* the permission rules

registries == <<tools, capabilities, rules>>
vars == <<project, phase, at, offered, pending, registries>>

(* LocalToolName: dots and dashes do not survive.                          *)
normalize(name) == [i \in DOMAIN name |-> IF name[i] \in {".", "-"} THEN "_" ELSE name[i]]
LocalToolName(namespace, remote) == normalize(namespace) \o <<"_", "_">> \o normalize(remote)

(* What a manifest lists, and the capabilities it gives a tool.            *)
listed(m) == UNION {Range(m.mappings[i].tools) : i \in DOMAIN m.mappings}
capabilitiesOf(m, remote) ==
    {m.mappings[i].capability : i \in {k \in DOMAIN m.mappings : remote \in Range(m.mappings[k].tools)}}

(* validatePlugin; the syntax of names, endpoint and transport is one      *)
(* flag.                                                                   *)
(* Mutant: the approval is not looked at.                                  *)
validateMappings(m) ==
    /\ m.wellFormed
    /\ m.mappings # <<>>
    /\ \A i, j \in DOMAIN m.mappings : m.mappings[i].capability = m.mappings[j].capability => i = j
    /\ \A i \in DOMAIN m.mappings : m.mappings[i].tools # <<>> /\ IsInjective(m.mappings[i].tools)
validatePlugin(m) ==
    /\ m.wellFormed
    /\ m.approval \in Modes
    /\ m.mappings # <<>>
    /\ \A i, j \in DOMAIN m.mappings : m.mappings[i].capability = m.mappings[j].capability => i = j
    /\ \A i \in DOMAIN m.mappings : m.mappings[i].tools # <<>> /\ IsInjective(m.mappings[i].tools)

loadPlugins(manifests) ==
    /\ \A i \in DOMAIN manifests : validatePlugin(manifests[i])
    /\ \A i, j \in DOMAIN manifests : manifests[i].name = manifests[j].name => i = j

Init ==
    /\ project \in Projects
    /\ phase = "loading"
    /\ at = 0
    /\ offered = <<>>
    /\ pending = {}
    /\ tools = {}
    /\ capabilities = {}
    /\ rules = {}

Fail == phase' = "failed" /\ UNCHANGED <<project, at, offered, pending, registries>>

registered == {b.local : b \in tools}
Binding(local, plugin, remote) == [local |-> local, plugin |-> plugin, remote |-> remote]
Grant(capability, tool) == [capability |-> capability, tool |-> tool]
Rule(tool, mode) == [tool |-> tool, mode |-> mode]

(* The manifests are loaded, and the built-in clock is there first.        *)
Load ==
    /\ phase = "loading"
    /\ loadPlugins(project)
    /\ phase' = "connecting"
    /\ at' = 1
    /\ tools' = {Binding(Clock, 0, Clock)}
    /\ capabilities' = {Grant(ClockRead, Clock)}
    /\ rules' = {Rule(Clock, "allow")}
    /\ UNCHANGED <<project, offered, pending>>

LoadFails == phase = "loading" /\ ~loadPlugins(project) /\ Fail

(* No token, an endpoint that is refused, or a listing that fails.         *)
ConnectFails == phase = "connecting" /\ at <= Len(project) /\ Fail

(* Mutant: what is listed and not advertised is skipped.                   *)
DiscoverSome(advertised) ==
    /\ phase = "connecting"
    /\ at <= Len(project)
    /\ offered' = Append(offered, advertised)
    /\ pending' = listed(project[at]) \cap advertised
    /\ phase' = "binding"
    /\ UNCHANGED <<project, at, registries>>

(* The server advertises some tools, the listed ones among them.           *)
Discover(advertised) ==
    /\ phase = "connecting"
    /\ at <= Len(project)
    /\ listed(project[at]) \subseteq advertised
    /\ offered' = Append(offered, advertised)
    /\ pending' = listed(project[at])
    /\ phase' = "binding"
    /\ UNCHANGED <<project, at, registries>>

NotAdvertised(advertised) ==
    /\ phase = "connecting"
    /\ at <= Len(project)
    /\ ~(listed(project[at]) \subseteq advertised)
    /\ Fail

(* Mutants: a local name that is taken is not noticed; a tool gets the     *)
(* rule of the first plugin.                                               *)
BindUnchecked(remote) ==
    /\ phase = "binding"
    /\ remote \in pending
    /\ LET m == project[at]
           local == LocalToolName(m.name, remote)
       IN /\ tools' = tools \cup {Binding(local, at, remote)}
          /\ capabilities' = capabilities \cup {Grant(c, local) : c \in capabilitiesOf(m, remote)}
          /\ rules' = rules \cup {Rule(local, m.approval)}
    /\ pending' = pending \ {remote}
    /\ UNCHANGED <<project, phase, at, offered>>

BindFirstRule(remote) ==
    /\ phase = "binding"
    /\ remote \in pending
    /\ LET m == project[at]
           local == LocalToolName(m.name, remote)
       IN /\ local \notin registered
          /\ tools' = tools \cup {Binding(local, at, remote)}
          /\ capabilities' = capabilities \cup {Grant(c, local) : c \in capabilitiesOf(m, remote)}
          /\ rules' = rules \cup {Rule(local, project[1].approval)}
    /\ pending' = pending \ {remote}
    /\ UNCHANGED <<project, phase, at, offered>>

(* One tool is bound, registered, granted and given its rule.  The code    *)
(* takes them in the order of their names; nothing depends on it.          *)
Bind(remote) ==
    /\ phase = "binding"
    /\ remote \in pending
    /\ LET m == project[at]
           local == LocalToolName(m.name, remote)
       IN /\ local \notin registered
          /\ tools' = tools \cup {Binding(local, at, remote)}
          /\ capabilities' = capabilities \cup {Grant(c, local) : c \in capabilitiesOf(m, remote)}
          /\ rules' = rules \cup {Rule(local, m.approval)}
    /\ pending' = pending \ {remote}
    /\ UNCHANGED <<project, phase, at, offered>>

BindCollides(remote) ==
    /\ phase = "binding"
    /\ remote \in pending
    /\ LocalToolName(project[at].name, remote) \in registered
    /\ Fail

NextPlugin ==
    /\ phase = "binding"
    /\ pending = {}
    /\ at' = at + 1
    /\ phase' = "connecting"
    /\ UNCHANGED <<project, offered, pending, registries>>

(* NewPolicy takes one rule of a known mode for a tool.  The names that    *)
(* NewRegistry looks at were looked at when the manifests were loaded.     *)
goodRules == \A r, s \in rules : r.mode \in Modes /\ (r.tool = s.tool => r = s)

(* The registries and the policy, whose default is to deny.                *)
Assemble ==
    /\ phase = "connecting"
    /\ at > Len(project)
    /\ phase' = IF goodRules THEN "ready" ELSE "failed"
    /\ UNCHANGED <<project, at, offered, pending, registries>>

Finished == phase \in {"ready", "failed"} /\ UNCHANGED vars

Next ==
    \/ Load \/ LoadFails \/ ConnectFails
    \/ \E advertised \in SUBSET RemoteNames : Discover(advertised) \/ NotAdvertised(advertised)
    \/ \E remote \in RemoteNames : Bind(remote) \/ BindCollides(remote)
    \/ NextPlugin \/ Assemble \/ Finished

Spec == Init /\ [][Next]_vars

---------------------------------------------------------------------------
LocalNames == Seq(Symbol)
TypeOK ==
    /\ project \in Projects
    /\ phase \in {"loading", "connecting", "binding", "ready", "failed"}
    /\ at \in 0..(Len(project) + 1)
    /\ offered \in Seq(SUBSET RemoteNames)
    /\ pending \subseteq RemoteNames
    /\ tools \subseteq [local : LocalNames, plugin : Nat, remote : RemoteNames \cup {Clock}]
    /\ capabilities \subseteq [capability : Capabilities, tool : LocalNames]
    /\ rules \subseteq [tool : LocalNames, mode : Modes]

(* A local name stands for one tool of one plugin: normalisation may make  *)
(* two names equal, and then startup fails instead of the one tool running *)
(* in place, and under the rule, of the other (mcp/tool.go:59-61, 69).     *)
NameIsOneTool == \A b, c \in tools : b.local = c.local => b = c

(* A tool that a manifest lists and its server advertises.                 *)
fromManifest(b) ==
    /\ b.plugin \in DOMAIN project
    /\ b.remote \in listed(project[b.plugin])
    /\ b.plugin \in DOMAIN offered
    /\ b.remote \in offered[b.plugin]
    /\ b.local = LocalToolName(project[b.plugin].name, b.remote)

(* What an agent can reach is the clock or comes from a manifest: every    *)
(* tool is listed there, every grant is one it states, and the tool's one  *)
(* rule is the approval of the plugin it belongs to (docs/mcp.md:31-34).   *)
builtIn == Binding(Clock, 0, Clock)
GrantsFollowManifests ==
    /\ \A b \in tools : b # builtIn => fromManifest(b)
    /\ \A g \in capabilities : \E b \in tools :
        /\ g.tool = b.local
        /\ IF b = builtIn THEN g.capability = ClockRead
           ELSE g.capability \in capabilitiesOf(project[b.plugin], b.remote)
    /\ \A b \in tools :
        {r \in rules : r.tool = b.local} =
            {Rule(b.local, IF b = builtIn THEN "allow" ELSE project[b.plugin].approval)}

(* An agent that starts has everything its manifests state: no plugin and  *)
(* no tool is skipped because a server or another plugin is in its way.    *)
NothingSkipped ==
    phase = "ready" =>
        \A i \in DOMAIN project : \A remote \in listed(project[i]) :
            LET local == LocalToolName(project[i].name, remote) IN
            /\ Binding(local, i, remote) \in tools
            /\ \A c \in capabilitiesOf(project[i], remote) : Grant(c, local) \in capabilities
=============================================================================
