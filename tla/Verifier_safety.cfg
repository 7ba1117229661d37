SPECIFICATION Spec
CONSTANTS
    Malformed = Malformed
    Absent = Absent
    DocTypes <- MCDocTypes
    Namespaces <- MCNamespaces
    Elements <- MCElements
    Values <- MCValues
    DigestIDs <- MCDigestIDs
    Wires <- MCWires
    Keys <- MCKeys
    Transcripts <- MCTranscripts
    Inputs <- MCInputs
    TrustErrors <- MCTrustErrors
    MaxTime = 4
INVARIANTS
    TypeOK
    AcceptedAuthentic
    DisclosedIsSealed
    AcceptedBoundToSession
    OneInstant
    TrustAskedInOrder
    RefusalKeepsCause
    ReasonIsTrue
    IInv
PROPERTY EveryStepAdvances
