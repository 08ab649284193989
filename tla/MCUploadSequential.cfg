\* Two uploads of one price and two transactions that each pay for either, one of them
\* with two spellings; one call per upload at a time, each of which may stop anywhere.
CONSTANTS
    u1 = u1
    u2 = u2
    h1 = h1
    h2 = h2
    h3 = h3
    t1 = t1
    t2 = t2
    r1 = r1
    r2 = r2
    r3 = r3
    NoHash = NoHash
    NoCall = NoCall
    Uploads = {u1, u2}
    Hashes = {h1, h2, h3}
    Transactions = {t1, t2}
    TransactionOf <- TwoSpellings
    Requests = {r1, r2, r3}
    FaultyRequests = {r1, r2, r3}
    Kinds = {"single", "chunk"}
    Carries <- OnePrice
    MaxTries = 2
    MaxChunkIndex = 1
    MaxInFlight = 1
SPECIFICATION Spec
SYMMETRY Symmetry
INVARIANTS
    TypeOK
    TransactionBuysOneJob
    ReceiptFileWhole
    JobMatchesRows
    CompletedMeansWhole
PROPERTIES
    ImplementsStrictLedger
    ProgressKept
\* Calls are made at most once, so every behaviour comes to rest.
CHECK_DEADLOCK FALSE
