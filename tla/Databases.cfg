SPECIFICATION Spec
CONSTANTS
    Rows <- MCRows
    Infos <- MCInfos
    NoInfo <- NoAdminInfo
    Statuses = {"approved", "paid"}
    Subjects = {"u1", "U1", "u2"}
    Fold <- MCFold
    Workers = {w1, w2}
    MaxEntries = 3
SYMMETRY MCSymmetry
CHECK_DEADLOCK FALSE
INVARIANTS TypeOK OwnersOwnTheirs
PROPERTIES KeepsPromise OverwrittenCanBeUndone
