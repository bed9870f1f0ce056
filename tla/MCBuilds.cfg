SPECIFICATION Spec
CONSTANTS
    Ids = {main, app}
    Main = main
    Pkg = app
    Manifests <- PlainManifests
    None = None
    Folder = Folder
    MaxEdits = 1
    MaxCommands = 3
INVARIANTS
    IInv
    MainRuns
    ProgramsAreWhole
    CargoCanRead
CHECK_DEADLOCK FALSE
