SPECIFICATION OverlapSpec
CONSTANTS
    VATs = {"19"}
    graceAmountCents = 1
    Attendees = {"a1"}
    Subjects = {"u1"}
    Owner <- MCOwner
    Packages = {"att"}
    Price <- MCPrice
    Vat <- MCVat
    Selections <- MCSelections
    Workers = {w1, w2}
    Requested = {"approved", "cancelled", "deleted", "checked in"}
    PaymentAmounts <- MCPayments
    Balances <- MCBalances
    MaxPositive = 2
    MaxNegative = 6
CHECK_DEADLOCK FALSE
INVARIANTS TypeOK NextRequestMakesGood
PROPERTIES UpdatesMoveByBalanceOnly
SYMMETRY WorkerSymmetry
CONSTRAINTS MCUpdatesByAdmin MCRequestsInPlace MCBookings
