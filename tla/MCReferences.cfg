SPECIFICATION Spec
CONSTANTS
    Texts <- SpacedPrograms
    DepthLimit = 3
    HeightLimit = 4
INVARIANT DefinitionsAreGlobal
CHECK_DEADLOCK FALSE
