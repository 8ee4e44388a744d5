SPECIFICATION Spec
CONSTANTS
    Nodes <- MCNodes
    Edges <- MCEdges
    Src <- MCSrc
    Dst <- MCDst
    Port <- MCPort
    Start = "start"
    Rank <- MCRank
    Choices <- MCChoices
    MaxAttempts <- MCMaxAttempts
    Executors = {x1}
    External = {"tool", "call"}
    NeverRetry = {"tool"}
    HumanWait = {}
    Nested = {}
    Reporting = {}
    Timed = {}
    MayFail = {"tool"}
    MaxConcurrent = 2
    MaxNodeRuns = 10
    CaptureMayFail = FALSE
    MaxResumes = 0
    MaxCrashes = 0
    MaxAborts = 0
    MaxReports = 0
    MaxFaults = 0
INVARIANTS
    CompletionIsAtomic
\* A run that has come to rest stays there.
CHECK_DEADLOCK FALSE
