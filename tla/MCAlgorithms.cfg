SPECIFICATION Spec
CONSTANTS
    Texts <- MCTexts
    DepthLimit = 3
    HeightLimit = 4
INVARIANTS
    NamesKeepTheirMeaning
    RenameIsExact
    TypesCoverTheRun
    LoweringKeepsTheRun
    AncestryAgrees
    SearchIsCoinductive
    BoundaryKeepsTheMerge
    ParserIsFaithful
    ParsesAnyText
CHECK_DEADLOCK FALSE
