SPECIFICATION FairSpec
CONSTANTS
    Sources = {main, util}
    DepDefs = {}
    Formats = TRUE
    Overflows = FALSE
    MaxEdits = 2
    MaxQueue = 2
INVARIANTS RestIsCurrent RestIsTidy
PROPERTIES LoopSettles
