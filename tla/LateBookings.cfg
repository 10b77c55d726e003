SPECIFICATION LateSpec
CONSTANTS
    VATs = {"19"}
    graceAmountCents = 1
    Attendees = {"a1"}
    Subjects = {"u1"}
    Owner <- MCOwner
    Packages = {"att"}
    Price <- MCPrice
    Vat <- MCVat
    Selections <- MCSelections
    Workers = {w1}
    Requested <- Statuses
    PaymentAmounts <- MCPayments
    Balances <- MCBalances
    MaxPositive = 2
    MaxNegative = 3
    MaxLate = 1
INVARIANTS LateTypeOK DuesOffByLateBookings LateBookingsMadeGood
PROPERTIES RequestsEnd
