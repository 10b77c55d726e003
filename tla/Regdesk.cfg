SPECIFICATION HeldSpec
CONSTANTS
    VATs = {"19"}
    graceAmountCents = 1
    Attendees = {"a1", "a2", "a3"}
    Subjects = {"u1", "u2"}
    Owner <- MCOwner
    Packages = {"att"}
    Price <- MCPrice
    Vat <- MCVat
    Selections <- MCSelectionFixed
    Workers = {w1, w2}
    Requested <- MCRequestedFew
    PaymentAmounts <- MCPayments
    Balances <- MCBalances
    MaxPositive = 1
    MaxNegative = 0
PROPERTIES UsersOnlyCancelOrCheckIn CheckedInAtRegdesk
SYMMETRY WorkerSymmetry
CONSTRAINT MCDeskOnly
VIEW WithoutHistory
