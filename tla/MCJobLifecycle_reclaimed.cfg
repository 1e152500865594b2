CONSTANTS
    w1 = w1
    w2 = w2
    c1 = c1
    c2 = c2
    Workers = {w1, w2}
    Consumers = {c1}
    ConsumerOf <- OneConsumer
    MaxAttempts = 3
    MaxClaims = 3
    Budget <- PauseAndResume
SPECIFICATION Spec
SYMMETRY Threads
PROPERTY HolderEnds
CHECK_DEADLOCK FALSE
