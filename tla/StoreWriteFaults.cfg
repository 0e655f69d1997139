SPECIFICATION FairSpec
CONSTANTS
    Keys = {k1}
    Subjects = {s1, s2}
    Reasons <- TwoReasons
    MaxSerial = 3
    MaxCRLNumber = 2
    Faults <- WriteFaults
INVARIANTS
    FilesMatchIndex
    NothingLeftStaged
PROPERTIES
    CRLNumberIncreases
    AllOrNothing
    Terminates
