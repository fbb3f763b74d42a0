SPECIFICATION Spec
CONSTANTS
    Nodes = {"n1"}
    Handlers = {"h1", "h2", "h3"}
    Providers = {"epay", "stripe", "creem", "waffo", "pancake"}
    MaxFaults = 2
INVARIANTS
    TypeOK
    CreditMatchesRow
    AcknowledgedIsSettled
PROPERTIES
    LedgerSpec
    PaidIsCredited
CHECK_DEADLOCK FALSE
