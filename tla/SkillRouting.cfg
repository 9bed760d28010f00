\* Three skills with examples that overlap, in any order of the map.
SPECIFICATION Spec
CONSTANTS
    Letter <- MCLetter
    Lower <- MCLower
    Space = " "
    Inputs <- MCInputs
    Definitions <- MCDefinitions
    DefaultNames = {1, 3}
INVARIANT RoutedToBest
