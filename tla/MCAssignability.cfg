SPECIFICATION Spec
CONSTANTS
    Texts <- SpacedPrograms
    DepthLimit = 3
    HeightLimit = 4
INVARIANT VerdictIsCoinductive
CHECK_DEADLOCK FALSE
