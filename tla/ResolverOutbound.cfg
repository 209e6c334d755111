SPECIFICATION Spec
CONSTANTS
    Callers = {c1}
    MaxQueries = 1
    MaxQPS = 50
    MaxConcurrency = 1
    Retries = 0
INVARIANT OutboundCapped
