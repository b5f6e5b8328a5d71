SPECIFICATION FairSpec
CONSTANTS
    c1 = c1  c2 = c2  k1 = k1  k2 = k2
    NoOne = NoOne  Stale = Stale
    Callers = {c1, c2}
    Keys = {k1, k2}
    Cap = 4
    MaxPerCall = 2
    MaxSpend = 2
    Amounts = {2, 3}
    Window = 1
    Retention = 2
    Faults = {"crash", "throw", "refuse", "delivery"}
    MaxTime = 2
    MaxReservations = 3
INVARIANTS TypeOK PaymentsCovered CapRespected HeldMoneyAccounted
PROPERTIES NoRepayAfterReceipt LocksComeFree BudgetSpec
