SPECIFICATION ExchangeSpec
CONSTANTS
    Malformed = Malformed
    Absent = Absent
    DocTypes <- MCDocTypes
    Namespaces <- MCNamespaces
    Elements <- MCElements
    Values <- MCValues
    DigestIDs <- MCDigestIDs
    Wires <- MCWires
    Keys <- MCKeys
    Transcripts <- MCTranscripts
    TicksPerSecond = 2
    EmptyDeviceNameSpaces = "empty"
    Issuances <- MCIssuances
    Foreign <- MCForeign
    Devices <- MCDevices
    Disclosures <- MCDisclosures
    Expected <- MCExpected
    TrustedKeys = {"kI"}
    Inputs = {}
    TrustErrors = {"unknown"}
    MaxTime = 6
    MaxCredentials = 1
    MaxResponses = 1
INVARIANTS
    HoldingsOK
    Agreement
    MinimalDisclosure
    RoundTrip
    NeverLate
