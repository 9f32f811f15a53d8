SPECIFICATION Spec
CONSTANTS
    Src = src
    Link = link
    SymLink = symlink
    NoFile = nofile
    Inodes = {i1, i2, i3}
    fmt = fmt
    lint = lint
    j1 = j1
    j2 = j2
    j3 = j3
    Runs = {lint}
    Jobs = {j2, j3}
    RunOf <- MCRunOf
    PathOf <- MCPathOf
    Pids = {p1}
    MaxSeq = 2
    MaxSaves = 1
    MaxLosses = 1
SYMMETRY Symmetry
INVARIANTS ModeAndLinkKept NoUnexplainedTemporary
PROPERTIES ImplementsAtomicText
CHECK_DEADLOCK FALSE
