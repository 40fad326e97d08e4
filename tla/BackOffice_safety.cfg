SPECIFICATION Spec
CONSTANTS
    Requests = {r1}
    Transfers = {t1, t2}
    Deposits = {d1}
    Products = {p1}
    Keyed = {k1}
    Clerks = {c1, c2}
    Opening = 1
    Incentive = 2
    Tds = 1
    MaxAttempts = 2
    MaxDocuments = 2
    MaxMishaps = 1
    MaxRepeats = 2
    None = None
CHECK_DEADLOCK FALSE
CONSTRAINT LittleWork
SYMMETRY MCSymmetry
INVARIANTS
    MoneyConserved
    RequestsArePosted
    TransfersTellMoves
    IncentiveOnceNetOfTax
    ProductPaidOrRefunded
    KeyedTransferSettles
