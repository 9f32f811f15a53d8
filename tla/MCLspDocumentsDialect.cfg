CONSTANTS
    old = old
    new = new
    warn = warn
    strict = strict
    base = base
    extended = extended
    Paths = {a, b}
    ProjectSources = {a, b}
    Texts = {empty, code}
    EmptyText = empty
    Manifests <- OneSettingApart
    FirstManifest <- First
    Absent = Absent
    None = None
    MaxSteps = 3
    Starts = {}
    Inserts = {}
    Past = {3}
    MaxEdits = 0
    Roots = {none}
    NoRoot = none
    MaxRevision = 0
    Checked = {x}
    Findings = {f1}
    Answers <- Cycles
    Uris <- MCUris
    PathToUri <- Derived
    ClientUri <- Derived
SPECIFICATION MCSpec
INVARIANTS
    KnownFilesUnderConfiguredDialect
