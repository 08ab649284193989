\* Two uploads: one on the chain whose fee debit throws, one with a bad bundle; an error
\* and a crash.
CONSTANTS
    u1 = u1
    u2 = u2
    h1 = h1
    h2 = h2
    t1 = t1
    t2 = t2
    r1 = r1
    r2 = r2
    NoHash = NoHash
    NoCall = NoCall
    Uploads = {u1, u2}
    Hashes = {h1, h2}
    Requests = {r1, r2}
    FaultyRequests = {r2}
    Kinds = {"chunk"}
    Transactions = {t1, t2}
    TransactionOf <- OwnTransaction
    Carries <- OwnCarries
    MaxTries = 1
    MaxChunkIndex = 1
    MaxInFlight = 1
    MaxAttempts = 2
    MaxStalled = 1
    BadBundles = {u2}
    Chain <- MixedChain
    MaxFaults = 1
    MaxCrashes = 1
SPECIFICATION FairPipelineSpec
INVARIANTS
    BundleKept
PROPERTIES
    StatusKept
    JobsSettle
    PaidIsCompleted
\* Calls are made at most once and jobs end, so every behaviour comes to rest.
CHECK_DEADLOCK FALSE
