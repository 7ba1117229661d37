------------------------------- MODULE CoseKey -------------------------------
(***************************************************************************)
(* key.go down to the bytes of a COSE_Key: encodeCOSEKey cuts a SEC1 point *)
(* in two, parseCOSEKey puts it together again from coordinates that may   *)
(* be shorter than the curve's. Cose and Issuance abstract all of this to  *)
(* the point; here the abstraction is checked.                             *)
(***************************************************************************)
EXTENDS Integers, Sequences

CONSTANTS
    Absent, Malformed,
    BitSize,        \* bits of a coordinate, for each COSE curve label
    OnCurve,        \* the points <<label, X, Y>>, X and Y fixed-width byte strings
    Allowed,        \* labels of the curves the policy allows
    PublicKeys,     \* keys issuers are given; curve 0 has no COSE label
    Foreign         \* COSE_Keys written by others

Byte == 0 .. 255
Labels == 1 .. 3
size(crv) == (BitSize[crv] + 7) \div 8
Coordinate(crv) == [1 .. size(crv) -> Byte]

ASSUME BitSizeAssumption == BitSize \in [Labels -> Nat \ {0}]
ASSUME OnCurveAssumption ==
    \A p \in OnCurve : \E c \in Labels : p \in {c} \X Coordinate(c) \X Coordinate(c)
ASSUME AllowedAssumption == Allowed \subseteq Labels

\* What encodeCOSEKey writes, here or in a shorter form elsewhere.
COSE_Key == [kty: {2}, crv: Labels, x: Seq(Byte), y: Seq(Byte)]

\* What others write; a member that is missing is Absent, one that is no integer or no
\* byte string Malformed.
ForeignKey ==
    LET Member(S) == S \cup {Absent, Malformed}
    IN  [kty: Member(Int), crv: Member(Int), x: Member(Seq(Byte)), y: Member(Seq(Byte))]
        \cup {Malformed}

ASSUME ForeignAssumption == Foreign \subseteq ForeignKey
ASSUME SentinelBytes ==
    /\ {Absent, Malformed} \cap (Int \cup Seq(Byte) \cup COSE_Key \cup OnCurve) = {}
    /\ Absent \notin ForeignKey

VARIABLES
    pub,    \* the key an issuer starts from; Absent behind a foreign COSE_Key
    raw,    \* the bytes of the COSE_Key, once there are any
    ours,   \* whether encodeCOSEKey wrote them
    key,    \* what parseCOSEKey returned
    err     \* the error of the last call, a set of sentinels

kvars == <<pub, raw, ours, key, err>>

\* PublicKey.Bytes: 0x04 || X || Y, for a point on the curve.
Bytes(p) == <<4>> \o p[2] \o p[3]

\* Mutant of ecPointCoordinates: the prefix byte is counted into X.
ecPointCoordinates_Shifted(b) ==
    LET half == (Len(b) - 1) \div 2 IN [x |-> SubSeq(b, 1, half), y |-> SubSeq(b, 1 + half, Len(b))]

\* The halves of an uncompressed point.
ecPointCoordinates(b) ==
    LET half == (Len(b) - 1) \div 2 IN [x |-> SubSeq(b, 2, 1 + half), y |-> SubSeq(b, 2 + half, Len(b))]

\* copy(dst[from:], src)
copy(dst, from, src) ==
    [b \in DOMAIN dst |-> IF b - from \in 1 .. Len(src) THEN src[b - from] ELSE dst[b]]

\* Mutant of uncompressed: short coordinates are padded on the right.
uncompressed_Left(n, x, y) ==
    copy(copy([b \in 1 .. 1 + 2 * n |-> IF b = 1 THEN 4 ELSE 0], 1, x), 1 + n, y)

\* 0x04 || X || Y with the coordinates right-aligned in n bytes each.
uncompressed(n, x, y) ==
    copy(copy([b \in 1 .. 1 + 2 * n |-> IF b = 1 THEN 4 ELSE 0], 1 + n - Len(x), x),
         1 + 2 * n - Len(y), y)

\* ecdh's NewPublicKey and ecdsa's ParseUncompressedPublicKey: the point these bytes
\* are, as a set of at most one.
PointOf(crv, pt) == {p \in OnCurve : p[1] = crv /\ Bytes(p) = pt}

\* The error of parseCOSEKey for these bytes.
parseErr(m) ==
    IF m = Malformed THEN {"ErrMalformed"}
    ELSE IF m.kty # 2 THEN {"ErrUnsupported"}
    ELSE IF m.crv \in {Absent, Malformed} THEN {"ErrMalformed"}
    ELSE IF m.crv \notin Allowed THEN {"ErrUnsupported"}
    ELSE IF m.x \in {Absent, Malformed} \/ m.y \in {Absent, Malformed} THEN {"ErrMalformed"}
    ELSE IF Len(m.x) > size(m.crv) \/ Len(m.y) > size(m.crv) THEN {"ErrMalformed"}
    ELSE IF PointOf(m.crv, uncompressed(size(m.crv), m.x, m.y)) = {} THEN {"ErrMalformed"}
    ELSE {}

\* The key it returns with that error.
parsedKey(m) ==
    IF parseErr(m) # {} THEN Absent
    ELSE CHOOSE p \in PointOf(m.crv, uncompressed(size(m.crv), m.x, m.y)) : TRUE

-----------------------------------------------------------------------------
Init == pub \in PublicKeys /\ raw = Absent /\ ours = FALSE /\ key = Absent /\ err = {}

\* encodeCOSEKey of the issuer's key.
encodeCOSEKey ==
    /\ raw = Absent /\ err = {}
    /\ \/ /\ pub[1] \notin Allowed \/ pub \notin OnCurve
          /\ err' = {"ErrUnsupported"} /\ UNCHANGED <<raw, ours>>
       \/ /\ pub[1] \in Allowed /\ pub \in OnCurve
          /\ LET xy == ecPointCoordinates(Bytes(pub))
             IN  raw' = [kty |-> 2, crv |-> pub[1], x |-> xy.x, y |-> xy.y]
          /\ ours' = TRUE /\ UNCHANGED err
    /\ UNCHANGED <<pub, key>>

\* An encoder of another make leaves out leading zero bytes of a coordinate.
Trim ==
    /\ ours /\ key = Absent
    /\ \/ raw.x # <<>> /\ Head(raw.x) = 0 /\ raw' = [raw EXCEPT !.x = Tail(@)]
       \/ raw.y # <<>> /\ Head(raw.y) = 0 /\ raw' = [raw EXCEPT !.y = Tail(@)]
    /\ UNCHANGED <<pub, ours, key, err>>

\* The MSO of another issuer carries a COSE_Key of its own.
Receive ==
    /\ raw = Absent /\ err = {}
    /\ raw' \in Foreign /\ pub' = Absent
    /\ UNCHANGED <<ours, key, err>>

parseCOSEKey ==
    /\ raw # Absent /\ key = Absent /\ err = {}
    /\ err' = parseErr(raw) /\ key' = parsedKey(raw)
    /\ UNCHANGED <<pub, raw, ours>>

Next == encodeCOSEKey \/ Trim \/ Receive \/ parseCOSEKey

Spec == Init /\ [][Next]_kvars

-----------------------------------------------------------------------------
\* X is the coordinate x, right-aligned.
Aligned(x, X) ==
    /\ Len(x) <= Len(X)
    /\ \A b \in 1 .. Len(X) :
        X[b] = IF b > Len(X) - Len(x) THEN x[b - (Len(X) - Len(x))] ELSE 0

\* What is known of the bytes encodeCOSEKey wrote, wherever they have been: the issuer's
\* point is still in them. With it KeyKept is inductive.
KeyInside ==
    /\ raw = Absent => key = Absent
    /\ ours =>
        /\ err = {} /\ key \in {Absent, pub}
        /\ pub \in OnCurve /\ pub[1] \in Allowed
        /\ raw \in COSE_Key /\ raw.crv = pub[1]
        /\ Aligned(raw.x, pub[2]) /\ Aligned(raw.y, pub[3])

Parsed == key # Absent \/ (raw # Absent /\ err # {})

\* What was read is what these bytes hold. With KeyInside, which is why Trim is over
\* before anything is read, it is inductive.
KeyRead ==
    /\ raw \in ForeignKey \cup COSE_Key \cup {Absent}
    /\ Parsed => err = parseErr(raw) /\ key = parsedKey(raw)

\* key.go:92 "the inverse of parseCOSEKey": a device key an issuer seals is the key a
\* verifier reads, leading zero bytes present or not, on every curve.
KeyKept == ours => err = {} /\ (Parsed => key = pub)

\* The number a byte string writes, most significant byte first.
Value(s) == LET v[n \in 0 .. Len(s)] == IF n = 0 THEN 0 ELSE 256 * v[n - 1] + s[n] IN v[Len(s)]

\* The points whose coordinates are the numbers the COSE_Key holds, if it holds any
\* and in no more bytes than the curve has.
PointsOfNumbers(m) ==
    {p \in OnCurve :
        /\ p[1] = m.crv
        /\ {m.x, m.y} \cap {Absent, Malformed} = {}
        /\ Len(m.x) <= size(m.crv) /\ Len(m.y) <= size(m.crv)
        /\ Value(m.x) = Value(p[2]) /\ Value(m.y) = Value(p[3])}

\* The parser of Cose, for which a COSE_Key holds a point and not bytes.
Abstract == INSTANCE Cose WITH
    DocTypes <- {}, Namespaces <- {}, Elements <- {}, Values <- {}, DigestIDs <- {},
    Wires <- {}, Transcripts <- {}, Keys <- OnCurve

\* A COSE_Key as Cose has it.
NumberKey == [kty: {"EC2", "other"}, crv: Int \cup {Malformed}, pt: OnCurve \cup {Malformed}]

ASSUME SentinelKeys == Malformed \notin NumberKey

AbstractKey(m) ==
    IF m = Malformed THEN Malformed
    ELSE [kty |-> IF m.kty = 2 THEN "EC2" ELSE "other",
          crv |-> IF m.crv = Absent THEN Malformed ELSE m.crv,
          pt |-> IF PointsOfNumbers(m) = {} THEN Malformed
                 ELSE CHOOSE p \in PointsOfNumbers(m) : TRUE]

\* parseCOSEKey reads coordinates as numbers: whatever their lengths, it returns the
\* point with those coordinates, or the error that the abstract parser of the
\* verification model gives; no byte of one coordinate ends up in the other.
ParsesNumbers ==
    Parsed => LET abstract == Abstract!parseCOSEKey(AbstractKey(raw))
              IN  err = abstract.err /\ key = abstract.val
=============================================================================
