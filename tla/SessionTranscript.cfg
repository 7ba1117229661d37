SPECIFICATION Spec
CONSTANTS
    Cells = {c1, c2, c3, c4}
    Sessions = {s1, s2}
    Parties = {p1, p2}
    Nonces = {n1, n2}
    Thumbprints = {t1}
    ResponseURIs = {u1, u2}
    Nil = Nil
    Empty = Empty
    Null = Null
    Scribble = Scribble
    Free = Free
SYMMETRY CellSymmetry
INVARIANTS
    TypeOK
    TranscriptStable
    SessionsApart
