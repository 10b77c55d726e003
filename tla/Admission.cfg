SPECIFICATION Spec
CONSTANTS
    PublicKeys <- MCPublicKeys
    Length <- MCLength
    Configurations <- MCConfigurations
    Credentials <- MCCredentials
    MaxAttendees = 1
CHECK_DEADLOCK FALSE
INVARIANTS TypeOK AdminDoors OthersRowsUntouched CountdownTellsWhen MoreRolesNeverLater ChoicesConsistent
