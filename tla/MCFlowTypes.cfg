SPECIFICATION Spec
CONSTANTS
    Texts <- SpacedPrograms
    DepthLimit = 3
    HeightLimit = 4
INVARIANT UnionsAreFlat
CHECK_DEADLOCK FALSE
