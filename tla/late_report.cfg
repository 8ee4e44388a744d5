SPECIFICATION Spec
CONSTANTS
    Nodes <- MCNodes
    Edges <- MCEdges
    Src <- MCSrc
    Dst <- MCDst
    Port <- MCPort
    Start = "start"
    Rank <- MCRank
    Choices <- MCChoices
    MaxAttempts <- MCMaxAttempts
    Executors = {x1}
    External = {"call"}
    NeverRetry = {}
    HumanWait = {}
    Nested = {}
    Reporting = {"call"}
    Timed = {"call"}
    MayFail = {}
    MaxConcurrent = 2
    MaxNodeRuns = 10
    CaptureMayFail = FALSE
    MaxResumes = 0
    MaxCrashes = 0
    MaxAborts = 0
    MaxReports = 1
    MaxFaults = 0
PROPERTIES
    TerminalCheckpointFrozen
\* A run that has come to rest stays there.
CHECK_DEADLOCK FALSE
