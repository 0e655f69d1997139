SPECIFICATION Spec
CONSTANTS
    Keys = {k1}
    Subjects = {s1}
    Reasons <- OneReason
    MaxSerial = 3
    MaxCRLNumber = 2
    Faults <- SomeFaults
VIEW Running
INVARIANTS
    TypeOK
    SafeTogether
    StagedStays
    CounterWaits
    VerdictIsHonest
PROPERTIES
    NothingIsUndone
