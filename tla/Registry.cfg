SPECIFICATION Spec
CONSTANTS
    Names <- MCNames
    Suffix <- MCSuffix
    Documents <- MCDocuments
INVARIANTS
    StrictlySorted
    EveryElementReported
    Redacts
    AgeAttestations
