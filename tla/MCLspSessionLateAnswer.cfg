CONSTANTS
    MaxSent = 4
SPECIFICATION Spec
INVARIANTS
    LeavesAWindowCleanly
