SPECIFICATION FairSpec
CONSTANTS
    Wallets = {w1, w2}
    Callers = {c1, c2}
    Amounts = {1, 2}
    Refs = {r1}
    Writers = {"LEDGER", "WATERFALL", "SERVICE"}
    CreditModule = {w1}
    None = None
    Opening <- MCOpening
    OpeningCredit <- MCOpeningCredit
CHECK_DEADLOCK FALSE
INVARIANTS
    TypeOK
    LedgerExplainsDocument
    StrictDebitsCovered
    SettlementsBacked
    ReferencePostsOnce
    CacheAgrees
PROPERTIES
    ImplementsAtomicWallet
    CallsAndLeasesEnd
    OnlyHolderReleases
