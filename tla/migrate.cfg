SPECIFICATION FairSpec
CONSTANTS
    Files <- MCFiles
    Directories <- MCDirectories
    Children <- MCChildren
    Paths <- MCPaths
    PathUpdates <- MCPathUpdates
    Contents <- MCContents
    Arguments <- MCArguments
    MaxRuns = 3
INVARIANTS
    NothingElseChanges
    ImportsMigrated
    ReportIsRight
PROPERTY MigratedInTheEnd
CHECK_DEADLOCK FALSE
