SPECIFICATION Spec
CONSTANTS
    Keys = {k1}
    Choices <- MCThree
    Default <- MCDefault
    ReadOnly <- MCGiven
    Requires <- MCThreeRequires
    Excludes <- MCThreeExcludes
    UserComments = {c1}
    Subjects = {"u1"}
    Workers = {w1, w2}
    MaxAttendees = 1
    MaxUpdates = 2
CHECK_DEADLOCK FALSE
INVARIANTS ReadOnlyAsGranted
SYMMETRY MCSymmetry
