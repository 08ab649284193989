\* Two overlapping calls on a chain with a fee debit, one transaction that pays and one
\* that does not; an error and two crashes.
CONSTANTS
    u1 = u1
    u2 = u2
    h1 = h1
    h2 = h2
    t1 = t1
    t2 = t2
    r1 = r1
    r2 = r2
    NoHash = NoHash
    NoCall = NoCall
    Uploads = {u1}
    Hashes = {h1, h2}
    Requests = {r1, r2}
    FaultyRequests = {r1, r2}
    Kinds = {"single", "chunk"}
    Transactions = {t1, t2}
    TransactionOf <- OwnTransaction
    Carries <- OwnCarries
    MaxTries = 1
    MaxChunkIndex = 0
    MaxInFlight = 2
    MaxAttempts = 2
    MaxStalled = 1
    BadBundles = {}
    Chain <- EvmChain
    MaxFaults = 1
    MaxCrashes = 2
SPECIFICATION PipelineSpec
INVARIANTS
    PipelineTypeOK
    CompletedIsPosted
    SpendingBounded
    SpendingIsEarned
\* Calls are made at most once and jobs end, so every behaviour comes to rest.
CHECK_DEADLOCK FALSE
