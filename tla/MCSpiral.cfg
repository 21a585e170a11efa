SPECIFICATION Spec
CONSTANTS
    discovery = discovery
    slice_approval = slice_approval
    implementation = implementation
    review = review
    Phases <- MCPhases
    PhaseSequences <- MCPhaseSequences
    GatePhases <- MCGatePhases
    SilentPhases <- MCSilentPhases
    Durable = TRUE
    None = None
    End = End
    MaxRuns = 2
    MaxRevisions = 1
INVARIANTS
    TypeOK
    NoWorkPastAnUnapprovedGate
    PromptsShowFreshWork
    WorkIsNotRepeated
    FinishedMeansGoverned
    CompletedInPlanOrder
PROPERTIES
    RejectionIsFinal
    ImplementsGatedPlan
