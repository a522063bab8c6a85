\* One case, runs with faults and readers, verdicts.
SPECIFICATION MCSpec
CONSTANTS
    r1 = r1
    k1 = k1
    k2 = k2
    s0 = s0
    s1 = s1
    s2 = s2
    p0 = p0
    p1 = p1
    p2 = p2
    DefaultLimit = 1
    MaxLimit = 2
    EvidenceRowLimit = 2
    PayloadLimit = 5
    NoLimit = 0
    Questions <- AllQuestions
    Worlds <- SmallWorlds
    Plans <- SomePlans
    Runs = {r1}
    Readers = {k1, k2}
    CaseOrder <- ThreeCases
    Canary <- RefuseOnly
    Services <- AllServices
    Filters <- AllFilters
    Sight <- TwoSee
    MaxFaults = 2
    DataSet <- Small
    CanaryIds <- SmallCanary
    Kinds <- AllKinds
    Sources = {s1, s2}
    CatalogOf <- OneCatalog
    Runtimes = {p1, p2}
    Required = 2
    Window = 4
    ExecutionPct = 50
    AccuracyPct = 50
    ClarificationPct = 80
    MaxAge = 0
    MaxRuns = 3
    MaxClock = 1
    MaxChanges = 3
SYMMETRY CandidateSymmetry
INVARIANTS
    JudgmentIsProof
    StoredIsReadable
    ObservationSurvives
    FinishedRunIsWhole
    VerdictIsEarned
\* A run is over and the bounds on changes and runs are used up.
CHECK_DEADLOCK FALSE
