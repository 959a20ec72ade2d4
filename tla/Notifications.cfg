SPECIFICATION FairSpec
CONSTANTS
    u1 = u1
    bot = bot
    push1 = push1
    push2 = push2
    Users = {u1}
    Rows = {bot, push1, push2}
    Channel <- MCChannel
    Target <- MCTarget
    Enabled = {"push"}
    BatchSize = 2
    MaxRetry = 1
    MaxFaults = 2
INVARIANTS
    TypeOK
    DuplicatesAreFaults
    SentWasSent
    PendingIsCarried
PROPERTIES
    RetryUndoesNothing
    ReachesEveryone
CHECK_DEADLOCK FALSE
