SPECIFICATION Spec
CONSTANTS
    main = main
    conf = conf
    picture = picture
    Entries <- MCEntries
    NameOf <- MCNameOf
    Assets = {conf, picture}
    ZipTools = {"zip"}
    MaxMoves = 2
INVARIANT ArchiveIsTheProjects
