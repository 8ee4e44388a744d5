SPECIFICATION Spec
CONSTANTS
    Nodes <- MCNodes
    Edges <- MCEdges
    Src <- MCSrc
    Dst <- MCDst
    Port <- MCPort
    Start = "start"
    Rank <- MCRank
    Choices <- MCChoices
    MaxAttempts <- MCMaxAttempts
    Executors = {x1, x2}
    External = {"tool", "call"}
    NeverRetry = {"tool"}
    HumanWait = {}
    Nested = {"call"}
    Reporting = {}
    Timed = {}
    MayFail = {"call"}
    MaxConcurrent = 2
    MaxNodeRuns = 10
    CaptureMayFail = FALSE
    MaxResumes = 1
    MaxCrashes = 1
    MaxAborts = 0
    MaxReports = 0
    MaxFaults = 0
INVARIANTS
    TypeOK
    NoAttemptRunsTwice
    AttemptsJustified
    PausedNeedsDecision
PROPERTIES
    TerminalStatusFinal
    RecordIsDurable
\* A run that has come to rest stays there.
CHECK_DEADLOCK FALSE
