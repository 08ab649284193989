\* One entry, one try: ETH sent to the service.
CONSTANTS
    payer = payer
    system = system
    Addresses = {payer, system}
    Sender = payer
    System = system
    Amounts = {1}
    Price = 1
    Codes = {"0x"}
    MaxMoves = 1
    MaxTries = 1
    MaxErrors = 0
SPECIFICATION Spec
INVARIANTS
    EtherTransferConfirms
\* A verification ends with its verdict.
CHECK_DEADLOCK FALSE
