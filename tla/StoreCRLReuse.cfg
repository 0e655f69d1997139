SPECIFICATION Spec
CONSTANTS
    Keys = {k1}
    Subjects = {s1}
    Reasons <- OneReason
    MaxSerial = 3
    MaxCRLNumber = 2
    Faults <- RenameFaults
PROPERTIES
    CRLNumberIncreases
