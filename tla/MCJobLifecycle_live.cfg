CONSTANTS
    w1 = w1
    w2 = w2
    c1 = c1
    c2 = c2
    Workers = {w1, w2}
    Consumers = {c1}
    ConsumerOf <- OneConsumer
    MaxAttempts = 2
    MaxClaims = 2
    Budget <- Alone
SPECIFICATION FairSpec
PROPERTY ClaimEnds
CHECK_DEADLOCK FALSE
