SPECIFICATION Spec
CONSTANTS
    c1 = c1
    c2 = c2
    plan = plan
    review = review
    k1 = k1
    k2 = k2
    started = started
    ended = ended
    alpha = alpha
    beta = beta
    web = web
    data = data
    first = first
    second = second
    None = None
    Callers <- MCCallers
    Gates <- MCGates
    Keys <- MCKeys
    Events <- MCEvents
    LessonRows <- MCLessonRows
    Queries <- MCQueries
    Projects <- MCProjects
    Tags <- MCTags
    Contents <- MCContents
    MaxCalls = 4
SYMMETRY MCSymmetry
INVARIANTS
    KeyAdvancesOnce
    VerdictsAreRecorded
    AppendsReturnTheirOwn
    NewestLessonsSurface
