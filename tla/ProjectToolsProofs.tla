------------------------- MODULE ProjectToolsProofs -------------------------
(***************************************************************************)
(* For every set of projects: types, and what startup assembles follows    *)
(* from the manifests.  The invariant adds to the properties where in the  *)
(* list of plugins startup is, what is still pending, and that every rule  *)
(* and every grant belongs to a registered tool.                           *)
(***************************************************************************)
EXTENDS ProjectTools, SequenceTheorems, TLAPS

USE DEF registries

(* Where startup is.                                                       *)
Placed ==
    /\ phase \in {"connecting", "binding", "ready"} => loadPlugins(project)
    /\ phase = "loading" => tools = {} /\ capabilities = {} /\ rules = {} /\ offered = <<>> /\ at = 0
    /\ phase = "connecting" => at \in 1..(Len(project) + 1) /\ Len(offered) = at - 1
    /\ phase = "binding" =>
        /\ at \in DOMAIN project
        /\ Len(offered) = at
        /\ pending \subseteq listed(project[at]) \cap offered[at]
    /\ phase = "ready" => at = Len(project) + 1

approvalOf(b) == IF b = builtIn THEN "allow" ELSE project[b.plugin].approval

(* Every tool is from a manifest, every grant and every rule is a tool's,  *)
(* and every tool has its rule.                                            *)
Sourced == \A b \in tools : b # builtIn => fromManifest(b)
Granted == \A g \in capabilities : \E b \in tools :
    /\ g.tool = b.local
    /\ IF b = builtIn THEN g.capability = ClockRead
       ELSE g.capability \in capabilitiesOf(project[b.plugin], b.remote)
Ruled ==
    /\ \A r \in rules : \E b \in tools : r = Rule(b.local, approvalOf(b))
    /\ \A b \in tools : Rule(b.local, approvalOf(b)) \in rules

IInv == TypeOK /\ Placed /\ NameIsOneTool /\ Sourced /\ Granted /\ Ruled

(* The assumptions on the constants, taken apart.                          *)
LEMMA Constants ==
    /\ "_" \in Symbol
    /\ \A n \in PluginNames \cup RemoteNames : n \in Seq(Symbol)
    /\ Clock \in LocalNames
    /\ ClockRead \in Capabilities
    /\ \A p \in Projects : p \in Seq(Manifest)
<1> QED
    BY ProjectAssumption DEF LocalNames

LEMMA Pair ==
    ASSUME NEW S, NEW a \in S
    PROVE  <<a, a>> \in Seq(S)
<1> QED
    OBVIOUS

(* Normalisation turns names into names.                                   *)
LEMMA LocalNameType ==
    ASSUME NEW n \in Seq(Symbol), NEW r \in Seq(Symbol)
    PROVE  LocalToolName(n, r) \in LocalNames
<1>1. ASSUME NEW s \in Seq(Symbol) PROVE normalize(s) \in Seq(Symbol)
  <2>1. s \in [1..Len(s) -> Symbol] /\ Len(s) \in Nat
      BY LenProperties
  <2>2. normalize(s) \in [1..Len(s) -> Symbol]
      BY <2>1, Constants DEF normalize
  <2> QED
      BY <2>1, <2>2, SeqDef
<1>2. <<"_", "_">> \in Seq(Symbol)
  <2>1. "_" \in Symbol
      BY Constants
  <2> QED
      BY <2>1, Pair
<1>3. normalize(n) \o <<"_", "_">> \in Seq(Symbol)
    BY <1>1, <1>2, ConcatProperties
<1>4. (normalize(n) \o <<"_", "_">>) \o normalize(r) \in Seq(Symbol)
    BY <1>1, <1>3, ConcatProperties
<1> QED
    BY <1>4 DEF LocalToolName, LocalNames

(* What a manifest names is of the constants.                              *)
LEMMA ManifestType ==
    ASSUME NEW m \in Manifest, NEW r \in listed(m)
    PROVE  /\ m.name \in Seq(Symbol)
           /\ r \in RemoteNames
           /\ r \in Seq(Symbol)
           /\ capabilitiesOf(m, r) \subseteq Capabilities
<1>1. m.name \in PluginNames /\ m.mappings \in Seq(CapabilityMapping)
    BY DEF Manifest
<1>2. ASSUME NEW i \in DOMAIN m.mappings
      PROVE  m.mappings[i].capability \in Capabilities /\ Range(m.mappings[i].tools) \subseteq RemoteNames
  <2>1. m.mappings \in [1..Len(m.mappings) -> CapabilityMapping] /\ m.mappings[i] \in CapabilityMapping
    <3>1. m.mappings \in [1..Len(m.mappings) -> CapabilityMapping]
        BY <1>1, LenProperties
    <3> QED
        BY <3>1
  <2>2. m.mappings[i].capability \in Capabilities /\ m.mappings[i].tools \in Seq(RemoteNames)
      BY <2>1 DEF CapabilityMapping
  <2>3. ASSUME NEW x \in Range(m.mappings[i].tools) PROVE x \in RemoteNames
      BY <2>2, LenProperties DEF Range
  <2> QED
      BY <2>2, <2>3
<1>3. PICK i \in DOMAIN m.mappings : r \in Range(m.mappings[i].tools)
    BY DEF listed
<1> QED
    BY <1>1, <1>2, <1>3, Constants DEF capabilitiesOf

(* Each property of the project is a consequence of the invariant.         *)
LEMMA IInvImplies == IInv => GrantsFollowManifests
<1> SUFFICES ASSUME IInv PROVE GrantsFollowManifests
    OBVIOUS
<1>1. ASSUME NEW b \in tools PROVE {r \in rules : r.tool = b.local} = {Rule(b.local, approvalOf(b))}
  <2>1. Rule(b.local, approvalOf(b)) \in rules /\ Rule(b.local, approvalOf(b)).tool = b.local
      BY <1>1 DEF IInv, Ruled, Rule
  <2>2. ASSUME NEW r \in rules, r.tool = b.local PROVE r = Rule(b.local, approvalOf(b))
    <3>1. PICK c \in tools : r = Rule(c.local, approvalOf(c))
        BY <2>2 DEF IInv, Ruled
    <3>2. c = b
        BY <2>2, <3>1, <1>1 DEF IInv, NameIsOneTool, Rule
    <3> QED
        BY <3>1, <3>2
  <2> QED
      BY <2>1, <2>2
<1> QED
    BY <1>1 DEF IInv, Sourced, Granted, GrantsFollowManifests, approvalOf

LEMMA InitIInv == Init => IInv
<1> SUFFICES ASSUME Init PROVE IInv
    OBVIOUS
<1>1. TypeOK
  <2>1. project \in Seq(Manifest)
      BY Constants DEF Init
  <2> QED
      BY <2>1 DEF Init, TypeOK
<1> QED
    BY <1>1 DEF Init, IInv, Placed, NameIsOneTool, Sourced, Granted, Ruled

(* A step that leaves the registries alone only has to show where startup  *)
(* is.                                                                     *)
LEMMA SameRegistries ==
    ASSUME IInv, UNCHANGED <<project, registries>>, TypeOK', Placed',
           \A i \in DOMAIN offered : i \in DOMAIN offered' /\ offered'[i] = offered[i]
    PROVE  IInv'
<1>1. NameIsOneTool' /\ Granted' /\ Ruled'
    BY DEF IInv, NameIsOneTool, Granted, Ruled, approvalOf, builtIn, Rule
<1>2. Sourced'
    BY DEF IInv, Sourced, fromManifest, builtIn
<1> QED
    BY <1>1, <1>2 DEF IInv

LEMMA LoadStep == IInv /\ Load => IInv'
<1> SUFFICES ASSUME IInv, Load PROVE IInv'
    OBVIOUS
<1> USE DEF Load
<1>1. project \in Seq(Manifest)
    BY Constants DEF IInv, TypeOK
<1>2. TypeOK'
  <2>1. at' \in 0..(Len(project') + 1)
      BY <1>1 
  <2>2. Clock \in LocalNames /\ ClockRead \in Capabilities
      BY Constants
  <2>3. /\ tools' = {[local |-> Clock, plugin |-> 0, remote |-> Clock]}
        /\ capabilities' = {[capability |-> ClockRead, tool |-> Clock]}
        /\ rules' = {[tool |-> Clock, mode |-> "allow"]}
      BY DEF Binding, Grant, Rule
  <2>4. tools' \subseteq [local : LocalNames, plugin : Nat, remote : RemoteNames \cup {Clock}]
      BY <2>2, <2>3
  <2>5. capabilities' \subseteq [capability : Capabilities, tool : LocalNames]
      BY <2>2, <2>3
  <2>6. rules' \subseteq [tool : LocalNames, mode : Modes]
      BY <2>2, <2>3 DEF Modes
  <2> QED
      BY <2>1, <2>4, <2>5, <2>6 DEF IInv, TypeOK
<1>3. Placed'
    BY <1>1 DEF IInv, Placed
<1>4. NameIsOneTool' /\ Sourced'
    BY DEF NameIsOneTool, Sourced, builtIn
<1>5. Granted'
    BY DEF Granted, builtIn, Grant, Binding
<1>6. Ruled'
    BY DEF Ruled, builtIn, Rule, Binding, approvalOf
<1> QED
    BY <1>2, <1>3, <1>4, <1>5, <1>6 DEF IInv

LEMMA FailStep == IInv /\ Fail => IInv'
<1> SUFFICES ASSUME IInv, Fail PROVE IInv'
    OBVIOUS
<1>1. TypeOK' /\ Placed'
    BY DEF IInv, Fail, TypeOK, Placed
<1> QED
    BY <1>1, SameRegistries DEF Fail

LEMMA DiscoverStep ==
    ASSUME IInv, NEW advertised \in SUBSET RemoteNames, Discover(advertised)
    PROVE  IInv'
<1> USE DEF Discover
<1>1. project \in Seq(Manifest) /\ offered \in Seq(SUBSET RemoteNames)
    BY Constants DEF IInv, TypeOK
<1>2. at \in DOMAIN project /\ Len(offered) = at - 1
    BY <1>1 DEF IInv, Placed
<1>3. /\ offered' \in Seq(SUBSET RemoteNames)
      /\ Len(offered') = at
      /\ offered'[at] = advertised
      /\ \A i \in DOMAIN offered : i \in DOMAIN offered' /\ offered'[i] = offered[i]
    BY <1>1, <1>2
<1>4. TypeOK'
    BY <1>3 DEF IInv, TypeOK
<1>5. Placed'
    BY <1>2, <1>3 DEF IInv, Placed
<1> QED
    BY <1>3, <1>4, <1>5, SameRegistries

LEMMA BindStep ==
    ASSUME IInv, NEW remote \in RemoteNames, Bind(remote)
    PROVE  IInv'
<1> DEFINE m == project[at]
           local == LocalToolName(m.name, remote)
           new == Binding(local, at, remote)
           more == {Grant(c, local) : c \in capabilitiesOf(m, remote)}
<1>1. /\ project \in Seq(Manifest) /\ at \in DOMAIN project /\ at \in Nat \ {0}
      /\ m \in Manifest /\ remote \in listed(m) /\ remote \in offered[at] /\ at \in DOMAIN offered
  <2>1. project \in Seq(Manifest) /\ offered \in Seq(SUBSET RemoteNames)
      BY Constants DEF IInv, TypeOK
  <2>2. /\ at \in DOMAIN project /\ Len(offered) = at
        /\ remote \in listed(project[at]) /\ remote \in offered[at]
      BY DEF IInv, Placed, Bind
  <2>3. at \in 1..Len(project) /\ at \in DOMAIN offered
      BY <2>1, <2>2, LenProperties
  <2>4. project[at] \in Manifest
      BY <2>1, <2>3, ElementOfSeq
  <2> QED
      BY <2>1, <2>2, <2>3, <2>4, LenProperties
<1>2. /\ local \notin registered
      /\ tools' = tools \cup {new}
      /\ capabilities' = capabilities \cup more
      /\ rules' = rules \cup {Rule(local, m.approval)}
      /\ UNCHANGED <<project, phase, at, offered>>
      /\ pending' = pending \ {remote}
    BY DEF Bind
<1>3. local \in LocalNames /\ capabilitiesOf(m, remote) \subseteq Capabilities
    BY <1>1, ManifestType, LocalNameType
<1>4. m.approval \in Modes
    BY <1>1 DEF IInv, Placed, Bind, loadPlugins, validatePlugin
<1>5. TypeOK'
  <2>1. tools' \subseteq [local : LocalNames, plugin : Nat, remote : RemoteNames \cup {Clock}]
      BY <1>1, <1>2, <1>3 DEF IInv, TypeOK, Binding
  <2>2. capabilities' \subseteq [capability : Capabilities, tool : LocalNames]
      BY <1>2, <1>3 DEF IInv, TypeOK, Grant
  <2>3. rules' \subseteq [tool : LocalNames, mode : Modes]
      BY <1>2, <1>3, <1>4 DEF IInv, TypeOK, Rule
  <2> QED
      BY <1>2, <2>1, <2>2, <2>3 DEF IInv, TypeOK
<1>6. Placed'
    BY <1>2 DEF IInv, Placed, Bind
<1>7. new # builtIn /\ new.local = local /\ new.plugin = at /\ new.remote = remote
    BY <1>1 DEF Binding, builtIn
<1>8. NameIsOneTool'
    BY <1>2, <1>7 DEF IInv, NameIsOneTool, registered
<1>9. Sourced'
  <2>1. fromManifest(new)'
      BY <1>1, <1>2, <1>7 DEF fromManifest
  <2> QED
      BY <1>2, <2>1 DEF IInv, Sourced, fromManifest, builtIn
<1>10. Granted'
  <2>1. ASSUME NEW g \in more PROVE g.tool = new.local /\ g.capability \in capabilitiesOf(project[new.plugin], new.remote)
      BY <2>1, <1>7 DEF Grant
  <2> QED
      BY <1>2, <1>7, <2>1 DEF IInv, Granted, builtIn
<1>11. Ruled'
  <2>1. Rule(local, m.approval) = Rule(new.local, approvalOf(new))
      BY <1>7 DEF approvalOf
  <2>2. \A b : approvalOf(b)' = approvalOf(b)
      BY <1>2 DEF approvalOf, builtIn
  <2> QED
      BY <1>2, <2>1, <2>2 DEF IInv, Ruled
<1> QED
    BY <1>5, <1>6, <1>8, <1>9, <1>10, <1>11 DEF IInv

LEMMA NextStep == IInv /\ [Next]_vars => IInv'
<1> SUFFICES ASSUME IInv, [Next]_vars PROVE IInv'
    OBVIOUS
<1>1. project \in Seq(Manifest)
    BY Constants DEF IInv, TypeOK
<1>2. CASE Load
    BY <1>2, LoadStep
<1>3. CASE LoadFails \/ ConnectFails
    BY <1>3, FailStep DEF LoadFails, ConnectFails
<1>4. CASE \E advertised \in SUBSET RemoteNames : Discover(advertised)
    BY <1>4, DiscoverStep
<1>5. CASE \E advertised \in SUBSET RemoteNames : NotAdvertised(advertised)
    BY <1>5, FailStep DEF NotAdvertised
<1>6. CASE \E remote \in RemoteNames : Bind(remote)
    BY <1>6, BindStep
<1>7. CASE \E remote \in RemoteNames : BindCollides(remote)
    BY <1>7, FailStep DEF BindCollides
<1>8. CASE NextPlugin \/ Assemble
  <2>1. TypeOK' /\ Placed'
    <3>1. CASE NextPlugin
        BY <1>1, <3>1 DEF IInv, NextPlugin, TypeOK, Placed
    <3>2. CASE Assemble
        BY <1>1, <3>2 DEF IInv, Assemble, TypeOK, Placed
    <3> QED
        BY <1>8, <3>1, <3>2
  <2> QED
      BY <1>8, <2>1, SameRegistries DEF NextPlugin, Assemble
<1>9. CASE UNCHANGED vars
  <2>1. TypeOK' /\ Placed'
      BY <1>9 DEF IInv, vars, TypeOK, Placed
  <2> QED
      BY <1>9, <2>1, SameRegistries DEF vars
<1> QED
    BY <1>2, <1>3, <1>4, <1>5, <1>6, <1>7, <1>8, <1>9 DEF Next, Finished

LEMMA Invariant == Spec => []IInv
<1> QED
    BY InitIInv, NextStep, PTL DEF Spec

(* The variables keep their types.                                         *)
THEOREM Typed == Spec => []TypeOK
<1>1. IInv => TypeOK
    BY DEF IInv
<1> QED
    BY <1>1, Invariant, PTL

(* Two remote tools never share a local name, whatever the names of the    *)
(* plugins and of their tools (mcp/tool.go:69-74, tool/registry.go:47).    *)
THEOREM NamedApart == Spec => []NameIsOneTool
<1>1. IInv => NameIsOneTool
    BY DEF IInv
<1> QED
    BY <1>1, Invariant, PTL

(* Whatever the manifests and the servers say, every tool and every grant  *)
(* comes from a manifest and has that manifest's approval as its one rule  *)
(* (cmd/hot-take/main.go:222-249).                                         *)
THEOREM LeastPrivilege == Spec => []GrantsFollowManifests
<1> QED
    BY IInvImplies, Invariant, PTL

(***************************************************************************)
(* What startup has done so far: the plugins before the present one are    *)
(* bound in full, the present one as far as nothing of it is pending.      *)
(***************************************************************************)
bound(i, remote) ==
    LET local == LocalToolName(project[i].name, remote) IN
    /\ Binding(local, i, remote) \in tools
    /\ \A c \in capabilitiesOf(project[i], remote) : Grant(c, local) \in capabilities

Carried ==
    /\ phase \in {"connecting", "binding", "ready"} =>
        \A i \in 1..(at - 1) : \A remote \in listed(project[i]) : bound(i, remote)
    /\ phase = "binding" => \A remote \in listed(project[at]) \ pending : bound(at, remote)

(* Nothing that is bound is ever unbound.                                  *)
LEMMA BoundStays ==
    ASSUME NEW i, NEW remote, bound(i, remote), UNCHANGED project,
           tools \subseteq tools', capabilities \subseteq capabilities'
    PROVE  bound(i, remote)'
<1> QED
    BY DEF bound

LEMMA CarriedStep == IInv /\ Carried /\ [Next]_vars => Carried'
<1> SUFFICES ASSUME IInv, Carried, [Next]_vars PROVE Carried'
    OBVIOUS
<1>1. CASE Load
    BY <1>1 DEF Load, Carried
<1>2. CASE phase' = "failed"
    BY <1>2 DEF Carried
<1>3. ASSUME NEW advertised \in SUBSET RemoteNames, Discover(advertised) PROVE Carried'
    BY <1>3, BoundStays DEF Discover, Carried
<1>4. ASSUME NEW remote \in RemoteNames, Bind(remote) PROVE Carried'
  <2>1. /\ phase = "binding" /\ UNCHANGED <<project, phase, at>>
        /\ tools \subseteq tools' /\ capabilities \subseteq capabilities'
        /\ pending' = pending \ {remote}
      BY <1>4 DEF Bind
  <2>2. bound(at, remote)'
      BY <1>4 DEF Bind, bound
  <2>3. \A other \in listed(project[at]) \ pending : bound(at, other)'
      BY <2>1, BoundStays DEF Carried
  <2>4. \A i \in 1..(at - 1) : \A other \in listed(project[i]) : bound(i, other)'
      BY <2>1, BoundStays DEF Carried
  <2>5. (\A other \in listed(project[at]) \ pending : bound(at, other))'
      BY <2>1, <2>2, <2>3 DEF bound
  <2>6. (\A i \in 1..(at - 1) : \A other \in listed(project[i]) : bound(i, other))'
      BY <2>1, <2>4
  <2> QED
      BY <2>1, <2>5, <2>6 DEF Carried
<1>5. CASE NextPlugin
  <2>1. at \in Nat \ {0} /\ UNCHANGED <<project, registries>> /\ at' = at + 1
        /\ phase = "binding" /\ phase' = "connecting" /\ pending = {}
    <3>1. at \in DOMAIN project /\ project \in Seq(Manifest)
        BY <1>5, Constants DEF IInv, TypeOK, Placed, NextPlugin
    <3> QED
        BY <1>5, <3>1, LenProperties DEF NextPlugin
  <2>2. \A i \in 1..at : \A remote \in listed(project[i]) : bound(i, remote)
      BY <2>1 DEF Carried
  <2>3. \A i \in 1..at : \A remote \in listed(project[i]) : bound(i, remote)'
      BY <2>1, <2>2, BoundStays
  <2> QED
      BY <2>1, <2>3 DEF Carried
<1>6. CASE Assemble \/ UNCHANGED vars
  <2>1. /\ UNCHANGED <<project, at, pending, registries>>
        /\ phase' = phase \/ (phase = "connecting" /\ phase' \in {"ready", "failed"})
      BY <1>6 DEF Assemble, vars
  <2> QED
      BY <2>1 DEF Carried, bound
<1> QED
    BY <1>1, <1>2, <1>3, <1>4, <1>5, <1>6
    DEF Next, LoadFails, ConnectFails, NotAdvertised, BindCollides, Fail, Finished

(* An agent that starts has everything its manifests state: startup ends   *)
(* in "ready" only when every listed tool of every plugin is bound and     *)
(* granted (cmd/hot-take/main.go:192-250).                                 *)
THEOREM Complete == Spec => []NothingSkipped
<1>1. Init => Carried
    BY DEF Init, Carried
<1>2. IInv /\ Carried => NothingSkipped
  <2> SUFFICES ASSUME IInv, Carried, phase = "ready", NEW i \in DOMAIN project,
                      NEW remote \in listed(project[i])
               PROVE  bound(i, remote)
      BY DEF NothingSkipped, bound
  <2>1. project \in Seq(Manifest) /\ at = Len(project) + 1
      BY Constants DEF IInv, TypeOK, Placed
  <2>2. i \in 1..(at - 1)
      BY <2>1, LenProperties
  <2> QED
      BY <2>2 DEF Carried
<1> QED
    BY <1>1, <1>2, InitIInv, NextStep, CarriedStep, PTL DEF Spec
=============================================================================
