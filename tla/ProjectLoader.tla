---------------------------- MODULE ProjectLoader ----------------------------
(***************************************************************************)
(* project.Loader.Load (project/loader.go): agent.json, the instructions,  *)
(* every skill directory and every plugin directory of a project are read, *)
(* in that order; the first thing that is wrong ends the loading.          *)
(*                                                                         *)
(* A path is a sequence of names below the file system's root, and the     *)
(* tree says what stands at a path: a directory, a file, or a symbolic     *)
(* link with the place it leads to.  A file is abstracted to what it       *)
(* decodes to.  Nothing changes on disk while the project is loaded.       *)
(***************************************************************************)
EXTENDS Naturals, SequencesExt

CONSTANTS
    Names,        \* names of files and directories
    Identifiers,  \* those of them that are lowercase identifiers (validID)
    Root,         \* the project's directory, its own links followed
    Trees         \* the file systems a project may be in

Up == ".."
Slash == "/"      \* what an absolute path begins with
Path == Seq(Names)
RelativePath == Seq(Names \cup {Up, Slash})   \* as a manifest writes it; <<>> is blank

(* What a file decodes to.  "other" is any file that has more than a       *)
(* megabyte, or cannot be read.                                            *)
AgentFile == [kind : {"agent"}, complete : BOOLEAN, instructions : RelativePath, skills : RelativePath,
              plugins : RelativePath, default : Names]
SkillFile == [kind : {"skill"}, complete : BOOLEAN, name : Names, instructions : RelativePath]
PluginFile == [kind : {"plugin"}, complete : BOOLEAN, name : Names]
TextFile == [kind : {"text", "blank", "other"}]
File == AgentFile \cup SkillFile \cup PluginFile \cup TextFile
Node == File \cup [kind : {"directory"}] \cup [kind : {"link"}, to : Path]

ASSUME LoaderAssumption ==
    /\ Identifiers \subseteq Names
    /\ {"agent.json", "skill.json", "plugin.json"} \subseteq Names
    /\ Names \cap {Up, Slash} = {}
    /\ Root \in Path
    /\ \A tree \in Trees :
        /\ DOMAIN tree \subseteq Path
        /\ \A p \in DOMAIN tree :
            /\ tree[p] \in Node
            /\ \A n \in 1..(Len(p) - 1) :   \* it stands in directories
                SubSeq(p, 1, n) \in DOMAIN tree /\ tree[SubSeq(p, 1, n)].kind = "directory"

VARIABLES
    tree,     \* the file system
    phase,    \* what Load does next
    agent,    \* agent.json, or NoFile
    folder,   \* the directory whose entries are being loaded
    entries,  \* its entries not yet visited
    skills,   \* the skills loaded: name, and the file of its instructions
    plugins,  \* the names of the plugins loaded
    opened    \* history: the files opened, each with the directory it must be in

found == <<agent, skills, plugins>>
vars == <<tree, phase, folder, entries, found, opened>>

NoFile == [kind |-> "none"]
Nowhere == <<Slash>>   \* the result of a path that cannot be resolved

---------------------------------------------------------------------------
(* filepath.Clean and Join: ".." is taken out of a path before any link is *)
(* followed.                                                               *)
cleaned(p, name) == IF name # Up THEN Append(p, name) ELSE IF p = <<>> THEN p ELSE Front(p)
clean(path) ==
    LET upTo[i \in 0..Len(path)] == IF i = 0 THEN <<>> ELSE cleaned(upTo[i - 1], path[i])
    IN  upTo[Len(path)]

(* filepath.EvalSymlinks on a path without "..".                           *)
followed(files, p, name) ==
    LET q == Append(p, name) IN
    IF p = Nowhere \/ q \notin DOMAIN files THEN Nowhere
    ELSE IF files[q].kind = "link" THEN files[q].to ELSE q
follow(files, path) ==
    LET upTo[i \in 0..Len(path)] == IF i = 0 THEN <<>> ELSE followed(files, upTo[i - 1], path[i])
    IN  upTo[Len(path)]
EvalSymlinks(path) == follow(tree, path)

within(root, path) == IsPrefix(root, path)

(* Mutant: the check is made on the path as it is written.                 *)
resolveLexically(root, relative) ==
    LET candidate == clean(root \o relative) IN
    IF relative = <<>> \/ Head(relative) = Slash \/ ~within(root, candidate) THEN Nowhere
    ELSE EvalSymlinks(candidate)

resolveWithin(root, relative) ==
    LET resolved == EvalSymlinks(clean(root \o relative)) IN
    IF relative = <<>> \/ Head(relative) = Slash \/ ~within(root, resolved) THEN Nowhere
    ELSE resolved

(* What readProjectFile and readJSON make of a path that was resolved.     *)
text(path) ==
    /\ path \in DOMAIN tree
    /\ tree[path].kind \in {"text", "blank", "agent", "skill", "plugin"}
decodes(path, kind) == path \in DOMAIN tree /\ tree[path].kind = kind
isDirectory(path) == path = <<>> \/ (path \in DOMAIN tree /\ tree[path].kind = "directory")

(* os.ReadDir, and the entries that are directories themselves; a link to  *)
(* a directory is none.  Mutant: empty ones are passed over.               *)
filledDirectories(directory) ==
    {name \in Names : \E p \in DOMAIN tree : IsStrictPrefix(Append(directory, name), p)}
subdirectories(directory) ==
    {name \in Names : isDirectory(Append(directory, name))}

(* The manifest of a directory bears the directory's name, an identifier.  *)
(* Mutant: any name will do.                                               *)
namedAtAll(name, manifest) == tree[manifest].name = name
named(name, manifest) == name \in Identifiers /\ tree[manifest].name = name

---------------------------------------------------------------------------
Init ==
    /\ tree \in Trees
    /\ phase = "manifest"
    /\ agent = NoFile
    /\ folder = Root
    /\ entries = {}
    /\ skills = {}
    /\ plugins = {}
    /\ opened = {}

Goto(next) == phase' = next
Fail == Goto("failed") /\ UNCHANGED <<tree, folder, entries, found, opened>>
Open(owner, paths) == opened' = opened \cup {[owner |-> owner, path |-> p] : p \in paths}

(* Any read may fail.                                                      *)
ReadFails == phase \notin {"loaded", "failed"} /\ Fail

manifestPath == resolveWithin(Root, <<"agent.json">>)
goodManifest ==
    /\ decodes(manifestPath, "agent")
    /\ tree[manifestPath].complete
    /\ tree[manifestPath].default \in Identifiers

ReadManifest ==
    /\ phase = "manifest"
    /\ IF goodManifest
       THEN /\ agent' = tree[manifestPath]
            /\ Open(Root, {manifestPath})
            /\ Goto("instructions")
            /\ UNCHANGED <<tree, folder, entries, skills, plugins>>
       ELSE Fail

ReadInstructions ==
    /\ phase = "instructions"
    /\ LET path == resolveWithin(Root, agent.instructions) IN
       IF text(path) /\ tree[path].kind # "blank"
       THEN /\ Open(Root, {path})
            /\ Goto("openSkills")
            /\ UNCHANGED <<tree, folder, entries, found>>
       ELSE Fail

(* A directory of the project is opened, and its entries are listed.       *)
OpenDirectory(relative, next) ==
    LET directory == resolveWithin(Root, relative) IN
    IF isDirectory(directory)
    THEN /\ folder' = directory
         /\ entries' = subdirectories(directory)
         /\ Goto(next)
         /\ UNCHANGED <<tree, found, opened>>
    ELSE Fail

OpenSkills == phase = "openSkills" /\ OpenDirectory(agent.skills, "skills")

(* A skill directory: its manifest, under the directory's name, and the    *)
(* instructions the manifest names.                                        *)
LoadSkill(name) ==
    /\ phase = "skills"
    /\ name \in entries
    /\ LET owner == resolveWithin(folder, <<name>>)
           manifest == resolveWithin(owner, <<"skill.json">>)
           instructions == resolveWithin(owner, tree[manifest].instructions)
       IN IF decodes(manifest, "skill") /\ named(name, manifest) /\ text(instructions)
          THEN /\ skills' = skills \cup {[name |-> name, manifest |-> manifest, instructions |-> instructions]}
               /\ Open(owner, {manifest, instructions})
               /\ entries' = entries \ {name}
               /\ UNCHANGED <<tree, phase, folder, agent, plugins>>
          ELSE Fail

(* There is a skill, and skill.NewRegistry accepts them all.  No two bear  *)
(* one name, since directories do not.                                     *)
acceptedSkills ==
    /\ skills # {}
    /\ \A s \in skills : tree[s.manifest].complete /\ tree[s.instructions].kind # "blank"
    /\ agent.default \in {s.name : s \in skills}

NewRegistry ==
    /\ phase = "skills"
    /\ entries = {}
    /\ IF acceptedSkills
       THEN Goto("openPlugins") /\ UNCHANGED <<tree, folder, entries, found, opened>>
       ELSE Fail

(* The plugins directory may be left out.                                  *)
OpenPlugins ==
    /\ phase = "openPlugins"
    /\ IF agent.plugins = <<>>
       THEN Goto("loaded") /\ UNCHANGED <<tree, folder, entries, found, opened>>
       ELSE OpenDirectory(agent.plugins, "plugins")

LoadPlugin(name) ==
    /\ phase = "plugins"
    /\ name \in entries
    /\ LET owner == resolveWithin(folder, <<name>>)
           manifest == resolveWithin(owner, <<"plugin.json">>)
       IN IF decodes(manifest, "plugin") /\ named(name, manifest) /\ tree[manifest].complete
          THEN /\ plugins' = plugins \cup {name}
               /\ Open(owner, {manifest})
               /\ entries' = entries \ {name}
               /\ UNCHANGED <<tree, phase, folder, agent, skills>>
          ELSE Fail

Finish ==
    /\ phase = "plugins"
    /\ entries = {}
    /\ Goto("loaded")
    /\ UNCHANGED <<tree, folder, entries, found, opened>>

Returned == phase \in {"loaded", "failed"} /\ UNCHANGED vars

Next ==
    \/ ReadFails \/ ReadManifest \/ ReadInstructions \/ OpenSkills \/ NewRegistry \/ OpenPlugins \/ Finish
    \/ \E name \in Names : LoadSkill(name) \/ LoadPlugin(name)
    \/ Returned

Spec == Init /\ [][Next]_vars

---------------------------------------------------------------------------
Phases == {"manifest", "instructions", "openSkills", "skills", "openPlugins", "plugins", "loaded", "failed"}

(* The type invariant.                                                     *)
TypeOK ==
    /\ DOMAIN tree \subseteq Path
    /\ phase \in Phases
    /\ agent \in AgentFile \cup {NoFile}
    /\ phase \notin {"manifest", "failed"} => agent # NoFile
    /\ folder \in Path
    /\ entries \subseteq Names
    /\ skills \subseteq [name : Identifiers, manifest : Path, instructions : Path]
    /\ plugins \subseteq Identifiers
    /\ opened \subseteq [owner : Path, path : Path]

(* Loading a project reads that project only, and a skill or a plugin only *)
(* from its own directory: whatever paths the manifests contain and        *)
(* wherever links lead, the file that is opened lies in the directory that *)
(* owns it, with no link on the way; and no skill has another one's text   *)
(* (docs/configuration.md:22-24).                                          *)
ReadsConfined ==
    /\ \A s, t \in skills : s.instructions = t.instructions => s = t
    /\ \A o \in opened :
        /\ within(Root, o.owner) /\ within(o.owner, o.path)
        /\ tree[o.path].kind # "link"
        /\ \A n \in Len(Root)..(Len(o.path) - 1) : isDirectory(SubSeq(o.path, 1, n))

(* A project that loads is loaded whole: the skills and the plugins are    *)
(* exactly the directories found in the configured places, under those     *)
(* names, and the default skill is one of them (305-345, 177-208); no      *)
(* failure half way is passed over.                                        *)
place(relative) == EvalSymlinks(clean(Root \o relative))
Declared(relative) ==
    {Last(p) : p \in {q \in DOMAIN tree :
        q # <<>> /\ Front(q) = place(relative) /\ tree[q].kind = "directory"}}
LoadedWhole ==
    phase = "loaded" =>
        /\ {s.name : s \in skills} = Declared(agent.skills)
        /\ agent.default \in Declared(agent.skills)
        /\ plugins = IF agent.plugins = <<>> THEN {} ELSE Declared(agent.plugins)
=============================================================================
