\* Every transaction of up to two entries, two tries, one error of the node.
CONSTANTS
    payer = payer
    system = system
    Addresses = {payer, system}
    Sender = payer
    System = system
    Amounts = {1, 2}
    Price = 1
    Codes = {"0x", "0x60"}
    MaxMoves = 2
    MaxTries = 2
    MaxErrors = 1
SPECIFICATION Spec
INVARIANTS
    NoMatchSoFar
    ConfirmedIsPayment
PROPERTIES
    ShownPaymentIsFound
    AnswersAsOracle
\* A verification ends with its verdict.
CHECK_DEADLOCK FALSE
