\* Two requests, two catalogue rows, two edits at any moment.
CONSTANTS
    q1 = q1
    q2 = q2
    t1 = t1
    t2 = t2
    NoRow = NoRow
    Quotes = {q1, q2}
    Tokens = {t1, t2}
    Units = {1, 10}
    Prices <- SomePrices
    FeePercentage = 30
    ExponentFrom = 2
    MaxEdits = 2
SPECIFICATION Spec
INVARIANTS
    PaymentTokenExists
    PriceIsCovered
    FeeIsItsShare
\* Requests are made once and edits are bounded.
CHECK_DEADLOCK FALSE
