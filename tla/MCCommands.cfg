SPECIFICATION MCSpec
CONSTANTS
    Procs = {p1, p2}
    Tags = {v1, v2}
    Current = v1
    Builds = {b1, b2}
    NoBuild = none
    MaxUploads = 2
    MaxMoves = 2
    BuildMoves = 3
    e1 = e1
    e2 = e2
    a1 = a1
    a2 = a2
    Entries <- MCEntries
    NameOf <- MCNameOf
    Assets = {a1, a2}
    ZipTools = {"zip", "python"}
    Main = Main
    A = A
    B = B
    NoFile = NoFile
    Entry = Main
    Files <- MCFiles
    FileOf <- MCFileOf
    Requests <- MCRequests
    Preloaded = {"a", "c"}
    Externals = {"c"}
    MaxDepth = 5
    Classes <- MCClasses
    Projects <- MCProjects
    Commands = {"check", "lint_fix", "fmt_check", "fmt", "build", "tree", "doc", "upgrade"}
INVARIANTS
    InstalledWasListed
    UsersFilesSurvive
    AttendedVerdict
    VerdictSurvives
    SuccessIsCurrent
    EveryCycleIsReported
    BundleIsExact
PROPERTY ImplementsLua
CHECK_DEADLOCK FALSE
