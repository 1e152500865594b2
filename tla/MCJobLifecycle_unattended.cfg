CONSTANTS
    w1 = w1
    w2 = w2
    c1 = c1
    c2 = c2
    Workers = {w1, w2}
    Consumers = {c1}
    ConsumerOf <- OneConsumer
    MaxAttempts = 2
    MaxClaims = 3
    Budget <- Unattended
SPECIFICATION Spec
SYMMETRY Threads
INVARIANT TurnEndsWithTheJob
INVARIANT OneRun
INVARIANT OpenExecutionHasOwner
PROPERTY HolderEnds
CHECK_DEADLOCK FALSE
