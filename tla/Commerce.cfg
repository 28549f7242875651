CONSTANTS
    o1 = o1
    o2 = o2
    Orders <- TwoOrders
    NoOrder = NoOrder
    Portfolios <- AllPortfolios
SPECIFICATION FairSpec
CHECK_DEADLOCK FALSE
INVARIANTS WorkFollowsOrder 
PROPERTIES PaidIsNotForgotten PassedWorkIsOffered 
