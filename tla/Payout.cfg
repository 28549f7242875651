CONSTANTS
    j1 = j1
    j2 = j2
    Jobs <- TwoJobs
    Inbound = {j2}
    Currencies = {"USD"}
    Quotes <- ValidAndInvalid
    Refs = {"r1"}
    NoRef = NoRef
    Txns = {"t1", "t2"}
SPECIFICATION Spec
INVARIANTS MoneyFollowsWork
PROPERTIES TreasuryMatchesLedger ImplementsMoneyLifecycle
