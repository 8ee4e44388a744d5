SPECIFICATION Spec
CONSTANTS
    Nodes <- MCNodes
    Edges <- MCEdges
    Src <- MCSrc
    Dst <- MCDst
    Port <- MCPort
    Start = "start"
    Rank <- MCRank
    Choices <- MCChoices
    MaxAttempts <- MCMaxAttempts
    Executors = {x1, x2}
    External = {"tool", "call"}
    NeverRetry = {"tool"}
    HumanWait = {}
    Nested = {}
    Reporting = {"call"}
    Timed = {"call"}
    MayFail = {"end"}
    MaxConcurrent = 2
    MaxNodeRuns = 10
    CaptureMayFail = FALSE
    MaxResumes = 0
    MaxCrashes = 1
    MaxAborts = 0
    MaxReports = 2
    MaxFaults = 1
INVARIANTS
    EffectsAreRecorded
    ReadyQueueExact
\* A run that has come to rest stays there.
CHECK_DEADLOCK FALSE
