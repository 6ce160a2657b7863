CONSTANTS
    FileNames = {"main", "config"}
    FolderNames = {"lib"}
    OwnTree <- Project
    BaseDirs <- Bases
    Frontend <- FrontendDir
    ConfigFile <- FrontendConfig
    MaxDepth = 2
    MaxFiles = 1
    MaxRuns = 2
    MaxFaults = 1
CHECK_DEADLOCK FALSE
SPECIFICATION Spec
INVARIANTS
    OwnFilesSurvive
    CleanLeavesNothing
    ConfigNamesDeployed
