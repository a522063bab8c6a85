\* Plans, contracts and calls over one small catalog.
SPECIFICATION Spec
CONSTANTS
    Null = Null
    None = None
    \* the catalog
    Entities <- FiveEntities
    Rels <- FourRels
    From <- RelFrom
    To <- RelTo
    FromColumn <- RelColumn
    Card <- RelCard
    Rows <- TwoRows
    \* plans and their SQL
    Fields <- Columns3
    NonNull <- Keys
    Cell <- CellOf
    SqlPlans <- PlannerPlans
    Writes <- Texts
    \* contracts
    Optional <- DeviceOptional
    Proven <- UserProven
    Hideable <- UsersHideable
    Plans <- AggregatePlans
    Intents <- RequiredIntents
    \* two calls of up to two attempts; counts at the cap overflow the total
    Tokens = {7, 1000000000}
    MaxRetries = 1
    MaxCalls = 2
INVARIANTS
    ConformingMeansPlan
    MetricCountsPopulation
    RefusalsExact
    RequiredIntentMet
    UsageHonest
\* A plan is done with once it is refused or executed.
CHECK_DEADLOCK FALSE
