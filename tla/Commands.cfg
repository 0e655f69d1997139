SPECIFICATION Spec
CONSTANTS
    Keys = {k1, k2}
    Subjects = {s1}
    Reasons <- OneReason
    MaxSerial = 3
    MaxCRLNumber = 2
    Base = 3
    FirstLetter = 2
    Times <- Readings
    Days <- ValidDays
    Hours <- ValidHours
    Second = 2
    Hour = 2
    HoursPerDay = 3
    Limit = 16
INVARIANTS
    TypeOK
    ListAndVerifyAgree
    RevokedIsListed
    PeriodAsAsked
    SerialTextIsItsName
PROPERTIES
    RevokedForEver
SYMMETRY AnyKey
VIEW Directory
