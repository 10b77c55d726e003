SPECIFICATION ReliableSpec
CONSTANTS
    VATs = {"19"}
    graceAmountCents = 1
    Attendees = {"a1"}
    Subjects = {"u1"}
    Owner <- MCOneOwner
    Packages = {"att", "spo"}
    Price <- MCPriceOne
    Vat <- MCVat
    Selections <- MCSelectionsOne
    Workers = {w1}
    Requested <- Statuses
    PaymentAmounts <- MCPaymentsIn
    Balances <- MCBalances
    MaxPositive = 6
    MaxNegative = 9
INVARIANTS FreeAttendeesBecomePaid
