\* Two starts, on a machine with the journal's directory or without it.
SPECIFICATION FairSpec
CONSTANTS
    Processes = {p1, p2}
    N = 2
    PowerFailures = 2
    None = None
INVARIANTS
    OncePerQuestion
    JournalLeads
PROPERTIES
    EveryRunEnds
\* Every start has ended.
CHECK_DEADLOCK FALSE
