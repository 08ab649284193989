\* Three overlapping calls for two uploads of different prices, each of which may stop
\* anywhere; one of the two transactions has two spellings.
CONSTANTS
    u1 = u1
    u2 = u2
    h1 = h1
    h2 = h2
    h3 = h3
    t1 = t1
    t2 = t2
    r1 = r1
    r2 = r2
    r3 = r3
    NoHash = NoHash
    NoCall = NoCall
    Uploads = {u1, u2}
    Hashes = {h1, h2, h3}
    Transactions = {t1, t2}
    TransactionOf <- TwoSpellings
    Requests = {r1, r2, r3}
    FaultyRequests = {r1, r2, r3}
    Kinds = {"single", "chunk"}
    Carries <- TwoPrices
    MaxTries = 1
    MaxChunkIndex = 1
    MaxInFlight = 3
SPECIFICATION Spec
SYMMETRY Symmetry
INVARIANTS
    OneJobPerUpload
    ReceiptIsPaid
PROPERTIES
    ImplementsLedger
\* Calls are made at most once, so every behaviour comes to rest.
CHECK_DEADLOCK FALSE
