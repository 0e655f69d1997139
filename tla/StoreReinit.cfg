SPECIFICATION Spec
CONSTANTS
    Keys = {k1, k2}
    Subjects = {s1}
    Reasons <- OneReason
    MaxSerial = 3
    MaxCRLNumber = 2
    Faults <- Kills
PROPERTIES
    InitNeverOverwrites
