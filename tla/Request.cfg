SPECIFICATION Spec
CONSTANTS
    Words <- FewWords
    Addresses <- ValidIPs
    Sorted <- DERSorted
    UserPaths = {"p1", "p2", "p3"}
    Outputs <- FewOutputs
    Typed <- ManyTyped
    NotASCII <- NonASCII
    MaxKeys = 2
    Faults <- AnyFault
INVARIANTS
    TypeOK
    NameAsTyped
    ListedNameReadsBack
    RefusedExactlyIfMalformed
    CertifiedKeyWasSaved
    PairMatches
