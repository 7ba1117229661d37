SPECIFICATION ExchangeSpec
CONSTANTS
    Malformed = Malformed
    Absent = Absent
    DocTypes <- MCDocTypes
    Namespaces <- MCNamespaces
    Elements <- MCElements
    Values <- MCValues
    DigestIDs <- MCDigestIDs
    Wires <- MCWires
    Keys <- MCKeys
    Transcripts <- MCTranscripts
    TicksPerSecond = 2
    EmptyDeviceNameSpaces = "empty"
    Issuances <- TwoIssuances
    Foreign = {}
    Devices <- TwoDevices
    Disclosures <- TwoDisclosures
    Expected <- MCExpected
    TrustedKeys = {"kI"}
    Inputs = {}
    TrustErrors = {"unknown"}
    MaxTime = 3
    MaxCredentials = 2
    MaxResponses = 2
INVARIANTS
    Agreement
    RoundTrip
