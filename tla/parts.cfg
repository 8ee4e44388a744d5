SPECIFICATION PartsSpec
CONSTANTS
    Nodes <- MCNodes
    Edges <- MCEdges
    Src <- MCSrc
    Dst <- MCDst
    Port <- MCPort
    Start = "start"
    Rank <- MCRank
    Choices <- MCChoices
    ScriptStudies <- MCStudies
    MaxNesting = 3
    Alphabet <- MCAlphabet
    Documents = {d1, d2}
    Contents = {"blank", "nodes"}
    Blank = "blank"
    Starter = "nodes"
    Invalid = {"blank"}
    MaxStored = 2
    MaxPending = 2
    Viewers = {"canvas"}
    Subscribers = {"progress"}
    PageLimit = 2
    MaxBuffered = 2
    MaxSeq = 5
    ReplayPlans <- MCReplayPlans
    ReplayInputs <- MCReplayInputs
    ReplayDeployments <- MCReplayDeployments
    MaxPast = 2
    CommandLines <- MCCommandLines
    MaxEvents = 3
SYMMETRY Renamings
INVARIANTS
    RecursionMeetsDefinition
    PrintedIsParsed
    BuiltinsKeepPromises
    CleanMeansStored
    RecoveryIsCurrent
    ViewsFollowJournal
    RecordedReplayIsFaithful
    CommandsAreTakenAtTheirWord
\* A finished run, an evaluated script and a full bound have no next step.
CHECK_DEADLOCK FALSE
