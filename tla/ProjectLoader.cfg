\* Every combination of manifests, paths, links and directories listed in MCProjectLoader.
SPECIFICATION Spec
CONSTANTS
    Names <- MCNames
    Identifiers <- MCIdentifiers
    Root <- MCRoot
    Trees <- MCTrees
INVARIANT TypeOK ReadsConfined LoadedWhole
