CONSTANTS
    old = old
    new = new
    warn = warn
    strict = strict
    base = base
    extended = extended
    Paths = {a, b}
    ProjectSources = {a, b}
    Texts = {empty, code}
    EmptyText = empty
    Manifests <- OneSettingApart
    FirstManifest <- First
    Absent = Absent
    None = None
    MaxSteps = 4
    Starts <- MCStarts
    Inserts <- MCInserts
    Past = {3}
    MaxEdits = 2
    Roots = {none, home}
    NoRoot = none
    MaxRevision = 4
    Checked = {x, y, z}
    Findings = {f1}
    Answers <- Cycles
    Uris <- MCUris
    PathToUri <- Derived
    ClientUri <- Derived
SPECIFICATION MCSpec
INVARIANTS
    CachesFresh
    WorkspaceSlotCurrent
    OpenTextIsTheClients
    QuietHostMatchesDisk
    EditsArrive
    InputsMirrorVfs
    EqualRevisionSameWorld
PROPERTIES
    OpenDocsRechecked
    ImplementsVersionedInputs
    ImplementsPanels
SYMMETRY Alike
