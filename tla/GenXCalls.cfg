CONSTANTS
    Keys = {"make", "talk"}
    KindOf <- OneOfEach
    Estimate <- OneAndTwo
    JobLimit = 2
    Charges = {0, 3}
    Callers = {"worker"}
    Pollers = {"watchdog"}
    Watchdogs = {"watchdog"}
    NoKey = NoKey
    MaxCrashes = 1
SPECIFICATION FairSpec
CHECK_DEADLOCK FALSE
INVARIANTS OnePaidPost BudgetCoversWork BillingIsEvidence
PROPERTIES KnownCallIsSettled
