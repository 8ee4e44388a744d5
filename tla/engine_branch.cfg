SPECIFICATION FairSpec
CONSTANTS
    Nodes <- MCNodes
    Edges <- MCEdges
    Src <- MCSrc
    Dst <- MCDst
    Port <- MCPort
    Start = "start"
    Rank <- MCRank
    Choices <- MCChoices
    MaxAttempts <- MCMaxAttempts
    Executors = {x1, x2}
    External = {"ask", "tool"}
    NeverRetry = {"tool"}
    HumanWait = {"ask"}
    Nested = {}
    Reporting = {}
    Timed = {"ask"}
    MayFail = {"gate", "tool"}
    MaxConcurrent = 2
    MaxNodeRuns = 4
    CaptureMayFail = TRUE
    MaxResumes = 0
    MaxCrashes = 1
    MaxAborts = 1
    MaxReports = 0
    MaxFaults = 0
INVARIANTS
    ActivationJustified
PROPERTIES
    RunComesToRest
\* A run that has come to rest stays there.
CHECK_DEADLOCK FALSE
