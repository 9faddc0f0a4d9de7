CONSTANTS
    Texts <- MCTexts
    Typed <- MCTyped
    Trim <- MCTrim
    Short <- MCShort
    Match <- MCMatch
    SpaceNames <- MCSpaceNames
    SpaceNamespaces <- MCSpaceNamespaces
    Types <- MCTypes
    Undefined = Undefined
    MaxPending <- MCMaxPending
SPECIFICATION Spec
PROPERTY NamespaceTypingKeepsNameOptions
