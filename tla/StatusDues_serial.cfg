SPECIFICATION SerialSpec
CONSTANTS
    VATs = {"7", "19"}
    graceAmountCents = 1
    Attendees = {"a1", "a2"}
    Subjects = {"u1", "u2"}
    Owner <- MCOwner
    Packages = {"att", "spo"}
    Price <- MCPrice
    Vat <- MCVat
    Selections <- MCSelections
    Workers = {w1}
    Requested <- Statuses
    PaymentAmounts <- MCPayments
    Balances <- MCBalances
    MaxPositive = 2
    MaxNegative = 3
INVARIANTS DuesMatchStatus CancelledOwesAtMostPaid StatusMatchesBalance
PROPERTIES CheckInPaidInFull LeavesByApproval FollowsLifeCycle
CONSTRAINT MCDeskOnly
