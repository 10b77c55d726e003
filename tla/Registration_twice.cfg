SPECIFICATION Spec
CONSTANTS
    Keys = {k1, k2}
    Choices <- MCTwo
    Default <- MCDefault
    ReadOnly <- MCDefault
    Requires <- MCTwoRequires
    Excludes <- MCTwoExcludes
    UserComments = {c1}
    Subjects = {"u1"}
    Workers = {w1, w2}
    MaxAttendees = 2
    MaxUpdates = 2
CHECK_DEADLOCK FALSE
PROPERTIES RegisteredOnce
SYMMETRY MCSymmetry
