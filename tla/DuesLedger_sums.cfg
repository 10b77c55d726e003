SPECIFICATION Spec
CONSTANTS
    VATs = {v7, v19}
    graceAmountCents = 1
    Cents <- MCCents
    MaxTransactions = 4
SYMMETRY Symmetry
CHECK_DEADLOCK FALSE
INVARIANTS TypeOK SumsAgreeWithList EarliestDuesFilledFirst CancelTwiceBooksNothing
