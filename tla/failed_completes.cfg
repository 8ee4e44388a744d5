SPECIFICATION Spec
CONSTANTS
    Nodes <- MCNodes
    Edges <- MCEdges
    Src <- MCSrc
    Dst <- MCDst
    Port <- MCPort
    Start = "start"
    Rank <- MCRank
    Choices <- MCChoices
    MaxAttempts <- MCMaxAttempts
    Executors = {x1}
    External = {"left", "right"}
    NeverRetry = {}
    HumanWait = {}
    Nested = {}
    Reporting = {}
    Timed = {}
    MayFail = {"note"}
    MaxConcurrent = 3
    MaxNodeRuns = 10
    CaptureMayFail = FALSE
    MaxResumes = 0
    MaxCrashes = 1
    MaxAborts = 0
    MaxReports = 0
    MaxFaults = 0
INVARIANTS
    CompletedIsSettled
\* A run that has come to rest stays there.
CHECK_DEADLOCK FALSE
