\* A wallet that presents one signature at a time next to one that does not, and calls
\* for a nonce of either at any time; two of three calls may stop.
CONSTANTS
    w1 = w1
    w2 = w2
    c1 = c1
    c2 = c2
    c3 = c3
    None = None
    BadSignature = BadSignature
    Wallets = {w1, w2}
    Careful = {w1}
    Calls = {c1, c2, c3}
    FaultyCalls = {c1, c2}
SPECIFICATION FairSpec
INVARIANTS
    Bookkeeping
    KeysBeforeNonce
PROPERTIES
    KeysAreKept
    SpentStaysSpent
    
    
    SomeCallIsAnswered
\* Calls are made at most once, so every behaviour comes to rest.
CHECK_DEADLOCK FALSE
