CONSTANTS
    j1 = j1
    j2 = j2
    Jobs <- TwoJobs
    Inbound = {j2}
    Currencies = {"USD"}
    Quotes <- FullNet
    Refs = {}
    NoRef = NoRef
    Txns = {"t1", "t2"}
SPECIFICATION Spec
INVARIANT ReversalLeavesSettledCash
