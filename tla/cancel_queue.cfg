SPECIFICATION Spec
CONSTANTS
    Nodes <- MCNodes
    Edges <- MCEdges
    Src <- MCSrc
    Dst <- MCDst
    Port <- MCPort
    Start = "start"
    Rank <- MCRank
    Choices <- MCChoices
    MaxAttempts <- MCMaxAttempts
    Executors = {x1}
    External = {"tool", "call"}
    NeverRetry = {"tool"}
    HumanWait = {}
    Nested = {}
    Reporting = {}
    Timed = {}
    MayFail = {}
    MaxConcurrent = 1
    MaxNodeRuns = 10
    CaptureMayFail = FALSE
    MaxResumes = 0
    MaxCrashes = 0
    MaxAborts = 1
    MaxReports = 0
    MaxFaults = 0
INVARIANTS
    CancellationClearsQueue
\* A run that has come to rest stays there.
CHECK_DEADLOCK FALSE
