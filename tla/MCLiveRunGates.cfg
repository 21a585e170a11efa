SPECIFICATION ConFairSpec
CONSTANTS
    planning = planning
    slice_approval = slice_approval
    implementation = implementation
    review = review
    Phases <- MCPhases
    PhaseSequences <- MCPhaseSequences
    GatePhases <- MCGatePhases
    SilentPhases <- MCSilentPhases
    Durable = FALSE
    None = None
    End = End
    MaxRuns = 2
    MaxRevisions = 1
    ApproverRecords = FALSE
    ContextBudget = 2
    MaxDeserted = 1
INVARIANTS
    RetrospectiveListsGates
