SPECIFICATION Spec
CONSTANTS
    Words <- FewWords
    Addresses <- ValidIPs
    Sorted <- DERSorted
    UserPaths = {"p1", "p2", "p3"}
    Outputs <- FewOutputs
    Typed <- ManyTyped
    NotASCII <- NonASCII
    MaxKeys = 1
    Faults = {}
INVARIANTS
    KeyIsLeft
