SPECIFICATION FairSpec
CONSTANTS
    a = a
    b = b
    c = c
    NoRequest = NoRequest
    Requests <- MCRequests
    MaxConcurrency = 2
    Interval = 2
    Lateness = 0
    MaxRetries = 1
    MaxRedirects = 1
CHECK_DEADLOCK FALSE
INVARIANTS
    WithinConcurrency
PROPERTIES
    Paced
    RequestsEnd
