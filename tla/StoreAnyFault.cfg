SPECIFICATION Spec
CONSTANTS
    Keys = {k1, k2}
    Subjects = {s1, s2}
    Reasons <- TwoReasons
    MaxSerial = 3
    MaxCRLNumber = 2
    Faults <- AnyFault
SYMMETRY Interchangeable
INVARIANTS
    TypeOK
    ChainOfTrust
    CRLMatchesIndex
    IndexedIsOnFile
    SerialsAreFresh
PROPERTIES
    IdentityIsFixed
    CRLNeverForgets
    HistoryIsKept
    IssuedIsFinal
    ImplementsRegistry
