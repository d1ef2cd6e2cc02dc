SPECIFICATION Spec
CONSTANTS
    Requests = {r1, r2}
    Workers = {w1, w2}
    MaxRetries = 2
INVARIANTS
    FailedIsRecovered
