\* Two overlapping calls that meet no fault.
CONSTANTS
    u1 = u1
    u2 = u2
    h1 = h1
    h2 = h2
    h3 = h3
    t1 = t1
    t2 = t2
    r1 = r1
    r2 = r2
    r3 = r3
    NoHash = NoHash
    NoCall = NoCall
    Uploads = {u1}
    Hashes = {h1, h2}
    Transactions = {t1, t2}
    TransactionOf <- OwnSpellings
    Requests = {r1, r2}
    FaultyRequests = {}
    Kinds = {"single", "chunk"}
    Carries <- OnePrice
    MaxTries = 2
    MaxChunkIndex = 1
    MaxInFlight = 2
SPECIFICATION FairSpec
PROPERTIES
    CallsEnd
    ReceiptIsDispatched
\* Calls are made at most once, so every behaviour comes to rest.
CHECK_DEADLOCK FALSE
