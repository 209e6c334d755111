SPECIFICATION FairSpec
CONSTANTS
    Callers = {c1, c2, c3}
    MaxQueries = 2
    MaxQPS = 1
    MaxConcurrency = 1
    Retries = 1
INVARIANTS TypeOK SlotsMatchHolders WireConcurrency FullRetry CancelledStops OutboundBound
PROPERTIES ImplementsQueryBudget EveryCallReturns
