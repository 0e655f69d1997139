SPECIFICATION Spec
CONSTANTS
    Keys = {k1}
    Subjects = {s1}
    Reasons <- OneReason
    MaxSerial = 3
    MaxCRLNumber = 2
    Base = 3
    FirstLetter = 2
    Times <- Readings
    Days <- ValidDays
    Hours <- AnyHours
    Second = 2
    Hour = 2
    HoursPerDay = 3
    Limit = 16
INVARIANTS
    NextUpdateAsAsked
