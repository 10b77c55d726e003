SPECIFICATION SerialSpec
CONSTANTS
    Keys = {k1, k2}
    Choices <- MCTwo
    Default <- MCDefault
    ReadOnly <- MCDefault
    Requires <- MCTwoRequires
    Excludes <- MCTwoExcludes
    UserComments = {c1, c2}
    Subjects = {"u1"}
    Workers = {w1}
    MaxAttendees = 2
    MaxUpdates = 2
CHECK_DEADLOCK FALSE
INVARIANTS TypeOK ReplacedRowsInHistory
PROPERTIES RegisteredOnce ReadOnlyChangedByAdmin
SYMMETRY MCSymmetry
