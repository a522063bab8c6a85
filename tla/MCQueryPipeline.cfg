\* Chains of one query, changing access, a pool that is too small, and the decision.
SPECIFICATION MCSpec
CONSTANTS
    ann = ann
    bob = bob
    None = None
    NoLimit = NoLimit
    BadLimit = BadLimit
    Users = {ann}
    Sessions = {1}
    Templates <- TemplatesOffered
    RenderedSQL <- ChainSQL
    Ops = {"free", "refresh", "export_card"}
    InitialAccess <- AnnAnalyst
    AccessChoices = {}
    InitialRegistry <- OpenOnly
    RegistryChoices = {}
    Departments = {1, 2}
    Totals = {99, 100, 101, 501}
    PoolSize = 2
    MaxRuns = 3
    MaxRequests = 3
INVARIANTS
    CompletenessHonest
    OnlyOpenTablesRead
    AnswerMatchesRow
    AccessIsHolding
PROPERTIES
    EveryQueryEnds
\* The requests of the bound are used up.
CHECK_DEADLOCK FALSE
