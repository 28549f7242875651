CONSTANTS
    o1 = o1
    o2 = o2
    Orders <- TwoOrders
    NoOrder = NoOrder
    Portfolios <- PaidPortfolio
SPECIFICATION FairSpec
CHECK_DEADLOCK FALSE
PROPERTIES RefundLeavesSettledCash
