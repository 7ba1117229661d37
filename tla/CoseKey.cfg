SPECIFICATION Spec
CONSTANTS
    Absent = Absent
    Malformed = Malformed
    BitSize <- MCBitSize
    OnCurve <- MCOnCurve
    Allowed = {1, 2, 3}
    PublicKeys <- MCPublicKeys
    Foreign <- MCForeign
CHECK_DEADLOCK FALSE
INVARIANTS
    KeyInside
    KeyKept
    ParsesNumbers
