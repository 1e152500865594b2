CONSTANTS
    w1 = w1
    w2 = w2
    c1 = c1
    c2 = c2
    Workers = {w1, w2}
    Consumers = {c1, c2}
    ConsumerOf <- TwoConsumers
    MaxAttempts = 2
    MaxClaims = 2
    Budget <- Attended
SPECIFICATION Spec
PROPERTY KeepsThePromise
INVARIANT NoCapabilityAtRest
CHECK_DEADLOCK FALSE
