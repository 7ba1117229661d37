---------------------------- MODULE CoseKeyProofs ----------------------------
(***************************************************************************)
(* TLAPS proofs about CoseKey: for every curve size and every point, the   *)
(* key that is sealed is the key that is read.                             *)
(***************************************************************************)
EXTENDS CoseKey, SequenceTheorems, NaturalsInduction, WellFoundedInduction, TLAPS

\* A point is a label and two coordinates of that curve's width.
LEMMA PointTyped ==
    ASSUME NEW p \in OnCurve
    PROVE  /\ p[1] \in Labels /\ size(p[1]) \in Nat
           /\ p[2] \in Seq(Byte) /\ p[3] \in Seq(Byte)
           /\ Len(p[2]) = size(p[1]) /\ Len(p[3]) = size(p[1])
           /\ p = <<p[1], p[2], p[3]>>
  <1>1. PICK c \in Labels : p \in {c} \X Coordinate(c) \X Coordinate(c)
    BY OnCurveAssumption
  <1>2. size(c) \in Nat
    BY BitSizeAssumption DEF size
  <1>3. /\ p[1] = c /\ p[2] \in Coordinate(c) /\ p[3] \in Coordinate(c)
        /\ p = <<p[1], p[2], p[3]>>
    BY <1>1
  <1>4. \A s \in Coordinate(c) : s \in Seq(Byte) /\ Len(s) = size(c)
    BY <1>2 DEF Coordinate
  <1> QED
    BY <1>2, <1>3, <1>4

\* The bytes of a point, one by one.
LEMMA BytesOfPoint ==
    ASSUME NEW p \in OnCurve
    PROVE  LET n == size(p[1]) IN
           /\ Bytes(p) \in Seq(Int) /\ Len(Bytes(p)) = 1 + 2 * n
           /\ Bytes(p)[1] = 4
           /\ \A b \in 1 .. n : Bytes(p)[1 + b] = p[2][b] /\ Bytes(p)[1 + n + b] = p[3][b]
  <1> DEFINE n == size(p[1])
  <1>1. /\ n \in Nat /\ p[2] \in Seq(Int) /\ p[3] \in Seq(Int)
        /\ Len(p[2]) = n /\ Len(p[3]) = n
    <2>1. Seq(Byte) \subseteq Seq(Int)
      <3>1. Byte \subseteq Int
        BY DEF Byte
      <3> QED
        BY <3>1, SeqMonotonic, Zenon
    <2> QED
      BY <2>1, PointTyped
  <1> HIDE DEF n
  <1> DEFINE prefix == <<4>>
             head == prefix \o p[2]
  <1>2. prefix \in Seq(Int) /\ Len(prefix) = 1 /\ prefix[1] = 4
    BY 4 \in Int
  <1> HIDE DEF prefix
  <1>3. /\ head \in Seq(Int) /\ Len(head) = 1 + n
        /\ \A i \in 1 .. 1 + n : head[i] = IF i <= 1 THEN prefix[i] ELSE p[2][i - 1]
    <2>1. /\ prefix \o p[2] \in Seq(Int)
          /\ Len(prefix \o p[2]) = Len(prefix) + Len(p[2])
          /\ \A i \in 1 .. Len(prefix) + Len(p[2]) :
                (prefix \o p[2])[i] = IF i <= Len(prefix) THEN prefix[i] ELSE p[2][i - Len(prefix)]
      BY <1>1, <1>2, ConcatProperties, Zenon
    <2> QED
      BY <1>1, <1>2, <2>1, Zenon
  <1> HIDE DEF head
  <1>4. Bytes(p) = head \o p[3]
    BY DEF Bytes, head, prefix
  <1>5. /\ Bytes(p) \in Seq(Int) /\ Len(Bytes(p)) = (1 + n) + n
        /\ \A i \in 1 .. (1 + n) + n :
              Bytes(p)[i] = IF i <= 1 + n THEN head[i] ELSE p[3][i - (1 + n)]
    <2>1. /\ head \o p[3] \in Seq(Int)
          /\ Len(head \o p[3]) = Len(head) + Len(p[3])
          /\ \A i \in 1 .. Len(head) + Len(p[3]) :
                (head \o p[3])[i] = IF i <= Len(head) THEN head[i] ELSE p[3][i - Len(head)]
      BY <1>1, <1>3, ConcatProperties, Zenon
    <2> QED
      BY <1>1, <1>3, <1>4, <2>1, Zenon
  <1>6. Bytes(p)[1] = 4
    BY <1>1, <1>2, <1>3, <1>5
  <1>7. ASSUME NEW b \in 1 .. n
        PROVE  Bytes(p)[1 + b] = p[2][b] /\ Bytes(p)[1 + n + b] = p[3][b]
    <2>1. /\ 1 + b \in 1 .. 1 + n /\ ~(1 + b <= 1) /\ (1 + b) - 1 = b
          /\ 1 + b \in 1 .. (1 + n) + n /\ 1 + b <= 1 + n
          /\ 1 + n + b \in 1 .. (1 + n) + n /\ ~(1 + n + b <= 1 + n)
          /\ (1 + n + b) - (1 + n) = b
      BY <1>1
    <2> QED
      BY <1>3, <1>5, <2>1
  <1>8. Len(Bytes(p)) = 1 + 2 * n
    BY <1>1, <1>5
  <1> QED
    BY <1>5, <1>6, <1>7, <1>8 DEF n

\* ecPointCoordinates cuts the bytes of a point into its coordinates.
LEMMA HalvesOfPoint ==
    ASSUME NEW p \in OnCurve
    PROVE  ecPointCoordinates(Bytes(p)) = [x |-> p[2], y |-> p[3]]
  <1> DEFINE n == size(p[1])
             b == Bytes(p)
             half == (Len(b) - 1) \div 2
             x == SubSeq(b, 2, 1 + half)
             y == SubSeq(b, 2 + half, Len(b))
  <1>1. /\ n \in Nat /\ p[2] \in Seq(Byte) /\ p[3] \in Seq(Byte)
        /\ Len(p[2]) = n /\ Len(p[3]) = n
        /\ b \in Seq(Int) /\ Len(b) = 1 + 2 * n
        /\ \A j \in 1 .. n : b[1 + j] = p[2][j] /\ b[1 + n + j] = p[3][j]
    BY PointTyped, BytesOfPoint
  <1> HIDE DEF n, b
  <1>2. half = n
    BY <1>1
  <1>3. x \in Seq(Int) /\ Len(x) = n /\ \A j \in 1 .. n : x[j] = p[2][j]
    BY <1>1, <1>2, SubSeqProperties
  <1>4. y \in Seq(Int) /\ Len(y) = n /\ \A j \in 1 .. n : y[j] = p[3][j]
    BY <1>1, <1>2, SubSeqProperties
  <1> HIDE DEF x, y
  <1>5. x = p[2] /\ y = p[3]
    BY <1>1, <1>3, <1>4
  <1> QED
    BY <1>5 DEF ecPointCoordinates, x, y, half, b

\* Right-aligning both coordinates gives the bytes of the point.
LEMMA JoinsPoint ==
    ASSUME NEW p \in OnCurve, NEW x \in Seq(Byte), NEW y \in Seq(Byte),
           Aligned(x, p[2]), Aligned(y, p[3])
    PROVE  uncompressed(size(p[1]), x, y) = Bytes(p)
  <1> DEFINE n == size(p[1])
             zero == [b \in 1 .. 1 + 2 * n |-> IF b = 1 THEN 4 ELSE 0]
             withX == copy(zero, 1 + n - Len(x), x)
             withXY == copy(withX, 1 + 2 * n - Len(y), y)
  <1>1. /\ n \in Nat /\ p[2] \in Seq(Byte) /\ p[3] \in Seq(Byte)
        /\ Len(p[2]) = n /\ Len(p[3]) = n
        /\ Bytes(p) \in Seq(Int) /\ Len(Bytes(p)) = 1 + 2 * n /\ Bytes(p)[1] = 4
        /\ \A b \in 1 .. n : Bytes(p)[1 + b] = p[2][b] /\ Bytes(p)[1 + n + b] = p[3][b]
    BY PointTyped, BytesOfPoint
  <1>2. n \in Nat /\ Len(x) \in 0 .. n /\ Len(y) \in 0 .. n
    BY <1>1 DEF Aligned
  <1> HIDE DEF n
  <1>3. withXY = [b \in 1 .. 1 + 2 * n |->
                    IF b - (1 + 2 * n - Len(y)) \in 1 .. Len(y) THEN y[b - (1 + 2 * n - Len(y))]
                    ELSE IF b - (1 + n - Len(x)) \in 1 .. Len(x) THEN x[b - (1 + n - Len(x))]
                    ELSE IF b = 1 THEN 4 ELSE 0]
    BY <1>1, <1>2 DEF copy
  <1>4. ASSUME NEW b \in 1 .. 1 + 2 * n
        PROVE  withXY[b] = Bytes(p)[b]
    <2> HIDE DEF withXY
    <2>1. CASE b = 1
      BY <1>1, <1>2, <1>3, <2>1
    <2>2. CASE b \in 2 .. 1 + n
      <3> DEFINE j == b - 1
      <3>1. j \in 1 .. n /\ b = 1 + j
        BY <1>2, <2>2
      <3>2. Bytes(p)[b] = IF j > n - Len(x) THEN x[j - (n - Len(x))] ELSE 0
        <4>1. Bytes(p)[1 + j] = p[2][j]
          BY <1>1, <3>1
        <4> HIDE DEF j
        <4>2. p[2][j] = IF j > n - Len(x) THEN x[j - (n - Len(x))] ELSE 0
          BY <1>1, <3>1 DEF Aligned
        <4> QED
          BY <3>1, <4>1, <4>2
      <3>3. /\ ~(b - (1 + 2 * n - Len(y)) \in 1 .. Len(y)) /\ b # 1
            /\ (b - (1 + n - Len(x)) \in 1 .. Len(x)) <=> (j > n - Len(x))
            /\ b - (1 + n - Len(x)) = j - (n - Len(x))
        BY <1>2, <2>2
      <3> QED
        BY <1>3, <3>2, <3>3
    <2>3. CASE b \in 2 + n .. 1 + 2 * n
      <3> DEFINE j == b - 1 - n
      <3>1. j \in 1 .. n /\ b = 1 + n + j
        BY <1>2, <2>3
      <3>2. Bytes(p)[b] = IF j > n - Len(y) THEN y[j - (n - Len(y))] ELSE 0
        <4>1. Bytes(p)[1 + n + j] = p[3][j]
          BY <1>1, <3>1
        <4> HIDE DEF j
        <4>2. p[3][j] = IF j > n - Len(y) THEN y[j - (n - Len(y))] ELSE 0
          BY <1>1, <3>1 DEF Aligned
        <4> QED
          BY <3>1, <4>1, <4>2
      <3>3. /\ ~(b - (1 + n - Len(x)) \in 1 .. Len(x)) /\ b # 1
            /\ (b - (1 + 2 * n - Len(y)) \in 1 .. Len(y)) <=> (j > n - Len(y))
            /\ b - (1 + 2 * n - Len(y)) = j - (n - Len(y))
        BY <1>2, <2>3
      <3> QED
        BY <1>3, <3>2, <3>3
    <2> QED
      BY <1>1, <2>1, <2>2, <2>3
  <1>5. Bytes(p) = [b \in 1 .. 1 + 2 * n |-> Bytes(p)[b]]
    BY <1>1
  <1>6. withXY = Bytes(p)
    <2> DEFINE F(b) == withXY[b]
    <2>1. withXY = [b \in 1 .. 1 + 2 * n |-> withXY[b]]
      BY <1>3
    <2> HIDE DEF withXY
    <2> QED
      BY <1>4, <1>5, <2>1
  <1> QED
    BY <1>6 DEF uncompressed, n

\* The bytes of a point are those of no other point of its curve.
LEMMA PointOfBytes ==
    ASSUME NEW p \in OnCurve
    PROVE  PointOf(p[1], Bytes(p)) = {p}
  <1>1. ASSUME NEW q \in OnCurve, q[1] = p[1], Bytes(q) = Bytes(p)
        PROVE  q = p
    <2>1. ecPointCoordinates(Bytes(p)) = [x |-> q[2], y |-> q[3]]
      BY <1>1, HalvesOfPoint
    <2>2. [x |-> p[2], y |-> p[3]] = [x |-> q[2], y |-> q[3]]
      BY <2>1, HalvesOfPoint
    <2>3. p[2] = q[2] /\ p[3] = q[3]
      <3>1. [x |-> p[2], y |-> p[3]].x = [x |-> q[2], y |-> q[3]].x
            /\ [x |-> p[2], y |-> p[3]].y = [x |-> q[2], y |-> q[3]].y
        BY <2>2
      <3> QED
        BY <3>1
    <2> QED
      BY <1>1, <2>3, PointTyped
  <1> QED
    BY <1>1 DEF PointOf

\* A coordinate stays aligned when a leading zero byte is dropped from it.
LEMMA TrimKeepsAligned ==
    ASSUME NEW x \in Seq(Byte), NEW X \in Seq(Byte), Aligned(x, X), x # <<>>, Head(x) = 0
    PROVE  Tail(x) \in Seq(Byte) /\ Aligned(Tail(x), X)
  <1>1. /\ Tail(x) \in Seq(Byte) /\ Len(Tail(x)) = Len(x) - 1 /\ Len(x) >= 1 /\ x[1] = 0
        /\ \A b \in 1 .. Len(x) - 1 : Tail(x)[b] = x[b + 1]
    OBVIOUS
  <1> DEFINE d == Len(X) - Len(x)
  <1>2. d \in Nat /\ Len(X) - Len(Tail(x)) = d + 1 /\ Len(Tail(x)) <= Len(X)
    BY <1>1 DEF Aligned
  <1>3. ASSUME NEW b \in 1 .. Len(X)
        PROVE  X[b] = IF b > d + 1 THEN Tail(x)[b - (d + 1)] ELSE 0
    <2>1. X[b] = IF b > d THEN x[b - d] ELSE 0
      BY DEF Aligned
    <2>2. CASE b > d + 1
      <3>1. b - (d + 1) \in 1 .. Len(x) - 1 /\ b - (d + 1) + 1 = b - d
        BY <1>2, <2>2
      <3> QED
        BY <1>1, <1>2, <2>1, <2>2, <3>1
    <2>3. CASE ~(b > d + 1)
      BY <1>1, <1>2, <2>1, <2>3
    <2> QED
      BY <2>2, <2>3
  <1> QED
    BY <1>1, <1>2, <1>3 DEF Aligned

-----------------------------------------------------------------------------
\* Every step keeps the issuer's point inside the bytes.
LEMMA StepKeyInside == KeyInside /\ [Next]_kvars => KeyInside'
  <1> SUFFICES ASSUME KeyInside, [Next]_kvars
               PROVE  KeyInside'
    OBVIOUS
  <1>0. ours => raw # Absent
    BY SentinelBytes DEF KeyInside
  <1>1. CASE encodeCOSEKey
    <2>0. ~ours /\ raw = Absent /\ key = Absent /\ err = {} /\ UNCHANGED <<pub, key>>
      BY <1>0, <1>1 DEF KeyInside, encodeCOSEKey
    <2>1. CASE UNCHANGED <<raw, ours>>
      BY <2>0, <2>1 DEF KeyInside
    <2>2. CASE /\ pub[1] \in Allowed /\ pub \in OnCurve
               /\ LET xy == ecPointCoordinates(Bytes(pub))
                  IN  raw' = [kty |-> 2, crv |-> pub[1], x |-> xy.x, y |-> xy.y]
               /\ ours' = TRUE /\ UNCHANGED err
      <3>1. raw' = [kty |-> 2, crv |-> pub[1], x |-> pub[2], y |-> pub[3]]
        <4>1. ecPointCoordinates(Bytes(pub)) = [x |-> pub[2], y |-> pub[3]]
          BY <2>2, HalvesOfPoint
        <4> QED
          BY <2>2, <4>1
      <3>2. Aligned(pub[2], pub[2]) /\ Aligned(pub[3], pub[3])
        BY <2>2, PointTyped DEF Aligned
      <3>3. raw' \in COSE_Key /\ raw'.crv = pub[1] /\ raw'.x = pub[2] /\ raw'.y = pub[3]
        BY <2>2, <3>1, PointTyped DEF COSE_Key
      <3>4. raw' # Absent
        BY <3>3, SentinelBytes
      <3> QED
        BY <2>0, <2>2, <3>2, <3>3, <3>4 DEF KeyInside
    <2> QED
      BY <1>1, <2>1, <2>2 DEF encodeCOSEKey
  <1>2. CASE Trim
    <2>2. /\ raw \in COSE_Key /\ pub \in OnCurve
          /\ raw.x \in Seq(Byte) /\ raw.y \in Seq(Byte)
          /\ pub[2] \in Seq(Byte) /\ pub[3] \in Seq(Byte)
      BY <1>2, PointTyped DEF Trim, KeyInside, COSE_Key
    <2>3. CASE raw.x # <<>> /\ Head(raw.x) = 0 /\ raw' = [raw EXCEPT !.x = Tail(@)]
      <3>1. /\ Tail(raw.x) \in Seq(Byte) /\ Aligned(Tail(raw.x), pub[2])
            /\ raw' = [raw EXCEPT !.x = Tail(raw.x)]
        BY <1>2, <2>2, <2>3, TrimKeepsAligned DEF Trim, KeyInside
      <3> QED
        BY <1>2, <2>2, <3>1 DEF Trim, KeyInside, COSE_Key
    <2>4. CASE raw.y # <<>> /\ Head(raw.y) = 0 /\ raw' = [raw EXCEPT !.y = Tail(@)]
      <3>1. /\ Tail(raw.y) \in Seq(Byte) /\ Aligned(Tail(raw.y), pub[3])
            /\ raw' = [raw EXCEPT !.y = Tail(raw.y)]
        BY <1>2, <2>2, <2>4, TrimKeepsAligned DEF Trim, KeyInside
      <3> QED
        BY <1>2, <2>2, <3>1 DEF Trim, KeyInside, COSE_Key
    <2> QED
      BY <1>2, <2>3, <2>4 DEF Trim
  <1>3. CASE Receive
    BY <1>0, <1>3 DEF Receive, KeyInside
  <1>4. CASE parseCOSEKey
    <2> SUFFICES ASSUME ours
                 PROVE  KeyInside'
      BY <1>4 DEF parseCOSEKey, KeyInside
    <2>1. /\ raw \in COSE_Key /\ pub \in OnCurve /\ raw.crv = pub[1] /\ raw.crv \in Allowed
          /\ raw.x \in Seq(Byte) /\ raw.y \in Seq(Byte) /\ raw.kty = 2
          /\ Aligned(raw.x, pub[2]) /\ Aligned(raw.y, pub[3])
          /\ raw.crv \in Labels
      BY DEF KeyInside, COSE_Key
    <2>2. PointOf(raw.crv, uncompressed(size(raw.crv), raw.x, raw.y)) = {pub}
      BY <2>1, JoinsPoint, PointOfBytes
    <2>3. ~(Len(raw.x) > size(raw.crv)) /\ ~(Len(raw.y) > size(raw.crv))
      BY <2>1, PointTyped DEF Aligned
    <2>4. raw \notin {Absent, Malformed} /\ raw.crv \notin {Absent, Malformed} /\ raw.x \notin {Absent, Malformed} /\ raw.y \notin {Absent, Malformed}
      <3>1. raw.crv \in Int
        BY <2>1 DEF Labels
      <3> QED
        BY <2>1, <3>1, SentinelBytes
    <2>5. parseErr(raw) = {}
      BY <2>1, <2>2, <2>3, <2>4 DEF parseErr
    <2>6. key' = pub /\ err' = {} /\ UNCHANGED <<pub, raw, ours>>
      BY <1>4, <2>2, <2>5 DEF parseCOSEKey, parsedKey
    <2> QED
      BY <1>0, <2>6 DEF KeyInside
  <1>5. CASE UNCHANGED kvars
    BY <1>5 DEF kvars, KeyInside
  <1> QED
    BY <1>1, <1>2, <1>3, <1>4, <1>5 DEF Next

\* The bytes encodeCOSEKey wrote still hold the issuer's point, on every curve and
\* whichever leading zero bytes were left out on the way (key.go:92).
THEOREM KeyStaysInside == Spec => []KeyInside
  <1>1. Init => KeyInside
    BY DEF Init, KeyInside
  <1> QED
    BY <1>1, StepKeyInside, PTL DEF Spec

\* encodeCOSEKey and parseCOSEKey are inverse for all points of all curves, also when
\* leading zero bytes of the coordinates were left out in between (key.go:53).
THEOREM KeyRoundTrip == Spec => []KeyKept
  <1>1. KeyInside => KeyKept
    BY SentinelBytes DEF KeyInside, KeyKept, Parsed
  <1> QED
    BY <1>1, KeyStaysInside, PTL

-----------------------------------------------------------------------------
(* What the bytes of a coordinate are worth. *)

\* Induction along an interval, over the set of the numbers it holds for.
LEMMA Along ==
    ASSUME NEW N \in Nat, NEW S, 0 \in S, \A n \in 0 .. N - 1 : n \in S => n + 1 \in S
    PROVE  0 .. N \subseteq S
  <1> SUFFICES ASSUME NEW m \in 0 .. N, m \notin S
               PROVE  FALSE
    OBVIOUS
  <1> DEFINE T == {n \in 0 .. N : n \notin S}
             R == OpToRel(<, Nat)
  <1>1. IsWellFoundedOn(R, Nat)
    BY NatLessThanWellFounded
  <1>2. \A a, b \in Nat : a < b => <<a, b>> \in R
    BY DEF OpToRel
  <1> HIDE DEF R
  <1>3. T \subseteq Nat /\ T # {}
    OBVIOUS
  <1>4. PICK x \in T : \A y \in T : ~(<<y, x>> \in R)
    BY <1>1, <1>3, WFMin
  <1>5. x \in 1 .. N /\ x - 1 \in 0 .. N - 1 /\ (x - 1) + 1 = x
    <2>1. x \in 0 .. N /\ x \notin S
      BY <1>4
    <2> QED
      BY <2>1
  <1>6. x - 1 \notin S
    BY <1>4, <1>5
  <1>7. x - 1 \in T /\ x - 1 \in Nat /\ x \in Nat /\ x - 1 < x
    BY <1>5, <1>6
  <1> QED
    BY <1>2, <1>4, <1>7

\* The number a byte string writes, from that of its beginning and its last byte.
join(p, b) == 256 * p + b

LEMMA JoinNat ==
    ASSUME NEW p \in Nat, NEW b \in Byte
    PROVE  join(p, b) \in Nat
  BY DEF join, Byte

\* A number is joined in one way.
LEMMA JoinOne ==
    ASSUME NEW p \in Nat, NEW q \in Nat, NEW b \in Byte, NEW c \in Byte,
           join(p, b) = join(q, c)
    PROVE  p = q /\ b = c
  BY DEF join, Byte

LEMMA JoinZero == 0 \in Nat /\ 0 \in Byte /\ join(0, 0) = 0
  BY DEF join, Byte

\* The values of the beginnings of a byte string, of each length.
values(s) ==
    CHOOSE v : v = [n \in 0 .. Len(s) |-> IF n = 0 THEN 0 ELSE 256 * v[n - 1] + s[n]]

\* The recursion in Value defines a function.
LEMMA ValuesExist ==
    ASSUME NEW s \in Seq(Byte)
    PROVE  \E v : v = [n \in 0 .. Len(s) |-> IF n = 0 THEN 0 ELSE 256 * v[n - 1] + s[n]]
  <1> DEFINE S == {N \in 0 .. Len(s) :
                    \E v : v = [n \in 0 .. N |-> IF n = 0 THEN 0 ELSE 256 * v[n - 1] + s[n]]}
  <1>1. Len(s) \in Nat
    OBVIOUS
  <1>2. 0 \in S
    <2> DEFINE v == [n \in 0 .. 0 |-> 0]
    <2>1. v = [n \in 0 .. 0 |-> IF n = 0 THEN 0 ELSE 256 * v[n - 1] + s[n]]
      OBVIOUS
    <2> HIDE DEF v
    <2>2. \E f : f = [n \in 0 .. 0 |-> IF n = 0 THEN 0 ELSE 256 * f[n - 1] + s[n]]
      BY <2>1
    <2> QED
      BY <1>1, <2>2
  <1>3. ASSUME NEW N \in 0 .. Len(s) - 1, N \in S
        PROVE  N + 1 \in S
    <2>1. PICK v : v = [n \in 0 .. N |-> IF n = 0 THEN 0 ELSE 256 * v[n - 1] + s[n]]
      BY <1>3
    <2> DEFINE w == [n \in 0 .. N + 1 |-> IF n = N + 1 THEN 256 * v[N] + s[N + 1] ELSE v[n]]
    <2>2. \A n \in 0 .. N + 1 : w[n] = IF n = 0 THEN 0 ELSE 256 * w[n - 1] + s[n]
      <3> TAKE n \in 0 .. N + 1
      <3>1. N \in Nat /\ 0 <= N
        BY <1>1
      <3>2. CASE n = N + 1
        <4>1. w[n] = 256 * v[N] + s[N + 1] /\ n # 0 /\ n - 1 = N /\ N # N + 1 /\ N \in 0 .. N + 1
          BY <3>1, <3>2
        <4>2. w[n - 1] = v[N]
          BY <4>1
        <4> QED
          BY <3>2, <4>1, <4>2
      <3>3. CASE n # N + 1
        <4>1. n \in 0 .. N /\ w[n] = v[n]
          BY <3>1, <3>3
        <4>2. v[n] = IF n = 0 THEN 0 ELSE 256 * v[n - 1] + s[n]
          BY <2>1, <4>1
        <4>3. n # 0 => n - 1 \in 0 .. N + 1 /\ n - 1 # N + 1 /\ w[n - 1] = v[n - 1]
          BY <3>1, <4>1
        <4> QED
          BY <4>1, <4>2, <4>3
      <3> QED
        BY <3>2, <3>3
    <2>3. w = [n \in 0 .. N + 1 |-> IF n = 0 THEN 0 ELSE 256 * w[n - 1] + s[n]]
      <3>1. w = [n \in 0 .. N + 1 |-> w[n]]
        OBVIOUS
      <3> HIDE DEF w
      <3> QED
        BY <2>2, <3>1
    <2>4. N + 1 \in 0 .. Len(s)
      BY <1>1
    <2> QED
      BY <2>3, <2>4
  <1>4. Len(s) \in S
    <2> HIDE DEF S
    <2>1. 0 .. Len(s) \subseteq S
      BY <1>1, <1>2, <1>3, Along
    <2> QED
      BY <1>1, <2>1
  <1> QED
    BY <1>4

\* Value, one byte at a time.
LEMMA ValuesOf ==
    ASSUME NEW s \in Seq(Byte)
    PROVE  /\ values(s)[0] = 0
           /\ \A n \in 1 .. Len(s) : values(s)[n] = join(values(s)[n - 1], s[n])
           /\ \A n \in 0 .. Len(s) : values(s)[n] \in Nat
           /\ Value(s) = values(s)[Len(s)]
  <1>1. Len(s) \in Nat /\ \A n \in 1 .. Len(s) : s[n] \in Byte
    OBVIOUS
  <1>2. values(s) = [n \in 0 .. Len(s) |->
                        IF n = 0 THEN 0 ELSE join(values(s)[n - 1], s[n])]
    BY ValuesExist DEF values, join
  <1>3. Value(s) = values(s)[Len(s)]
    BY DEF Value, values
  <1> DEFINE v == values(s)
  <1>4. v[0] = 0 /\ \A n \in 1 .. Len(s) : v[n] = join(v[n - 1], s[n])
    <2> HIDE DEF v
    <2>1. v = [n \in 0 .. Len(s) |-> IF n = 0 THEN 0 ELSE join(v[n - 1], s[n])]
      BY <1>2 DEF v
    <2>2. v[0] = 0
      BY <1>1, <2>1
    <2>3. ASSUME NEW n \in 1 .. Len(s) PROVE v[n] = join(v[n - 1], s[n])
      BY <1>1, <2>1
    <2> QED
      BY <2>2, <2>3
  <1>5. \A n \in 0 .. Len(s) : v[n] \in Nat
    <2> HIDE DEF v
    <2> DEFINE S == {n \in 0 .. Len(s) : v[n] \in Nat}
    <2>1. 0 \in S
      BY <1>1, <1>4
    <2>2. ASSUME NEW n \in 0 .. Len(s) - 1, n \in S PROVE n + 1 \in S
      <3>1. n + 1 \in 1 .. Len(s) /\ (n + 1) - 1 = n /\ v[n] \in Nat /\ n + 1 \in 0 .. Len(s)
        BY <1>1, <2>2
      <3>2. v[n + 1] = join(v[n], s[n + 1]) /\ s[n + 1] \in Byte
        BY <1>1, <1>4, <3>1
      <3> QED
        <4>1. v[n + 1] \in Nat
          BY <3>1, <3>2, JoinNat
        <4> QED
          BY <3>1, <4>1
    <2> HIDE DEF S
    <2>3. 0 .. Len(s) \subseteq S
      BY <1>1, <2>1, <2>2, Along
    <2> QED
      BY <2>3 DEF S
  <1> QED
    BY <1>3, <1>4, <1>5

\* A coordinate right-aligned in more bytes is the same number, and no other byte string
\* of that length is.
LEMMA AlignedValue ==
    ASSUME NEW x \in Seq(Byte), NEW X \in Seq(Byte), Len(x) <= Len(X)
    PROVE  Aligned(x, X) <=> Value(x) = Value(X)
  <1> DEFINE d == Len(X) - Len(x)
             v == values(x)
             V == values(X)
  <1>0. /\ \A n \in 1 .. Len(x) : x[n] \in Byte
        /\ \A n \in 1 .. Len(X) : X[n] \in Byte
    OBVIOUS
  <1>1. Len(x) \in Nat /\ Len(X) \in Nat /\ d \in Nat /\ d + Len(x) = Len(X)
    OBVIOUS
  <1>2. /\ v[0] = 0 /\ V[0] = 0
        /\ \A n \in 1 .. Len(x) : v[n] = join(v[n - 1], x[n])
        /\ \A n \in 1 .. Len(X) : V[n] = join(V[n - 1], X[n])
        /\ \A n \in 0 .. Len(x) : v[n] \in Nat
        /\ \A n \in 0 .. Len(X) : V[n] \in Nat
        /\ Value(x) = v[Len(x)] /\ Value(X) = V[Len(X)]
    BY ValuesOf
  <1> HIDE DEF v, V, d
  <1>3. Aligned(x, X) <=>
            /\ \A b \in 1 .. d : X[b] = 0
            /\ \A b \in 1 .. Len(x) : X[d + b] = x[b]
    <2>1. ASSUME Aligned(x, X)
          PROVE  /\ \A b \in 1 .. d : X[b] = 0
                 /\ \A b \in 1 .. Len(x) : X[d + b] = x[b]
      <3>1. ASSUME NEW b \in 1 .. d PROVE X[b] = 0
        BY <1>1, <2>1, b \in 1 .. Len(X), ~(b > d) DEF Aligned, d
      <3>2. ASSUME NEW b \in 1 .. Len(x) PROVE X[d + b] = x[b]
        <4>1. d + b \in 1 .. Len(X) /\ d + b > d /\ (d + b) - d = b
          BY <1>1
        <4> QED
          BY <2>1, <4>1 DEF Aligned, d
      <3> QED
        BY <3>1, <3>2
    <2>2. ASSUME \A b \in 1 .. d : X[b] = 0, \A b \in 1 .. Len(x) : X[d + b] = x[b]
          PROVE  Aligned(x, X)
      <3> SUFFICES ASSUME NEW b \in 1 .. Len(X)
                   PROVE  X[b] = IF b > d THEN x[b - d] ELSE 0
        BY <1>1 DEF Aligned, d
      <3>1. CASE b > d
        <4>1. b - d \in 1 .. Len(x) /\ d + (b - d) = b
          BY <1>1, <3>1
        <4> QED
          BY <2>2, <3>1, <4>1
      <3>2. CASE ~(b > d)
        BY <1>1, <2>2, <3>2, b \in 1 .. d
      <3> QED
        BY <3>1, <3>2
    <2> QED
      BY <2>1, <2>2
  <1>4. ASSUME Aligned(x, X)
        PROVE  v[Len(x)] = V[Len(X)]
    <2> DEFINE Z == {n \in 0 .. d : V[n] = 0}
               S == {n \in 0 .. Len(x) : V[d + n] = v[n]}
    <2>1. 0 .. d \subseteq Z
      <3>1. 0 \in Z
        BY <1>1, <1>2
      <3>2. ASSUME NEW n \in 0 .. d - 1, n \in Z PROVE n + 1 \in Z
        <4>1. n + 1 \in 1 .. d /\ n + 1 \in 1 .. Len(X) /\ (n + 1) - 1 = n /\ V[n] = 0
              /\ n + 1 \in 0 .. d
          BY <1>1, <3>2
        <4>2. V[n + 1] = join(V[n], X[n + 1]) /\ X[n + 1] = 0
          BY <1>2, <1>3, <1>4, <4>1
        <4> QED
          BY <4>1, <4>2, JoinZero
      <3> HIDE DEF Z
      <3> QED
        BY <1>1, <3>1, <3>2, Along
    <2>2. V[d] = 0
      BY <1>1, <2>1
    <2>3. 0 .. Len(x) \subseteq S
      <3>1. 0 \in S
        BY <1>1, <1>2, <2>2
      <3>2. ASSUME NEW n \in 0 .. Len(x) - 1, n \in S PROVE n + 1 \in S
        <4>1. /\ n + 1 \in 1 .. Len(x) /\ (n + 1) - 1 = n /\ V[d + n] = v[n]
              /\ d + (n + 1) \in 1 .. Len(X) /\ (d + (n + 1)) - 1 = d + n
              /\ n + 1 \in 0 .. Len(x)
          BY <1>1, <3>2
        <4>2. /\ V[d + (n + 1)] = join(V[d + n], X[d + (n + 1)])
              /\ v[n + 1] = join(v[n], x[n + 1])
              /\ X[d + (n + 1)] = x[n + 1]
          BY <1>2, <1>3, <1>4, <4>1
        <4> QED
          BY <4>1, <4>2
      <3> HIDE DEF S
      <3> QED
        BY <1>1, <3>1, <3>2, Along
    <2> QED
      BY <1>1, <2>3
  <1>5. ASSUME v[Len(x)] = V[Len(X)]
        PROVE  Aligned(x, X)
    <2> DEFINE S == {n \in 0 .. Len(x) : V[Len(X) - n] = v[Len(x) - n]}
    <2>1. 0 .. Len(x) \subseteq S
      <3>1. 0 \in S
        BY <1>1, <1>5
      <3>2. ASSUME NEW n \in 0 .. Len(x) - 1, n \in S PROVE n + 1 \in S
        <4> DEFINE a == Len(X) - n
                   b == Len(x) - n
        <4>1. /\ a \in 1 .. Len(X) /\ b \in 1 .. Len(x) /\ V[a] = v[b]
              /\ a - 1 \in 0 .. Len(X) /\ b - 1 \in 0 .. Len(x)
              /\ Len(X) - (n + 1) = a - 1 /\ Len(x) - (n + 1) = b - 1 /\ n + 1 \in 0 .. Len(x)
          BY <1>1, <3>2
        <4> HIDE DEF a, b
        <4>2. /\ V[a] = join(V[a - 1], X[a]) /\ v[b] = join(v[b - 1], x[b])
              /\ V[a - 1] \in Nat /\ v[b - 1] \in Nat
              /\ X[a] \in Byte /\ x[b] \in Byte
          BY <1>0, <1>2, <4>1
        <4>3. join(V[a - 1], X[a]) = join(v[b - 1], x[b])
          BY <4>1, <4>2
        <4>4. V[a - 1] = v[b - 1]
          BY <4>2, <4>3, JoinOne
        <4> QED
          BY <4>1, <4>4
      <3> HIDE DEF S
      <3> QED
        BY <1>1, <3>1, <3>2, Along
    <2>2. \A n \in 0 .. Len(x) : V[d + n] = v[n]
      <3> TAKE n \in 0 .. Len(x)
      <3>1. Len(x) - n \in 0 .. Len(x) /\ Len(X) - (Len(x) - n) = d + n
            /\ Len(x) - (Len(x) - n) = n
        BY <1>1
      <3> QED
        BY <2>1, <3>1
    <2>3. ASSUME NEW b \in 1 .. Len(x) PROVE X[d + b] = x[b]
      <3>1. /\ d + b \in 1 .. Len(X) /\ (d + b) - 1 = d + (b - 1)
            /\ b - 1 \in 0 .. Len(x) /\ b \in 0 .. Len(x)
        BY <1>1
      <3>2. V[d + (b - 1)] = v[b - 1] /\ V[d + b] = v[b]
        BY <2>2, <3>1
      <3>3. V[d + b] = join(V[d + (b - 1)], X[d + b]) /\ v[b] = join(v[b - 1], x[b])
        BY <1>2, <3>1
      <3>4. v[b - 1] \in Nat /\ X[d + b] \in Byte /\ x[b] \in Byte
        BY <1>0, <1>2, <3>1
      <3>5. join(v[b - 1], X[d + b]) = join(v[b - 1], x[b])
        BY <3>2, <3>3
      <3> QED
        BY <3>4, <3>5, JoinOne
    <2>4. \A b \in 1 .. d : X[b] = 0
      <3> DEFINE Z == {n \in 0 .. d : V[d - n] = 0}
      <3>1. 0 \in Z
        BY <1>1, <1>2, <2>2, d + 0 = d, d - 0 = d, 0 \in 0 .. Len(x)
      <3>2. ASSUME NEW n \in 0 .. d - 1, n \in Z PROVE n + 1 \in Z
        <4> DEFINE a == d - n
        <4>1. /\ a \in 1 .. Len(X) /\ a - 1 \in 0 .. Len(X) /\ V[a] = 0
              /\ d - (n + 1) = a - 1 /\ n + 1 \in 0 .. d
          BY <1>1, <3>2
        <4> HIDE DEF a
        <4>2. V[a] = join(V[a - 1], X[a]) /\ V[a - 1] \in Nat /\ X[a] \in Byte
          BY <1>0, <1>2, <4>1
        <4>3. join(V[a - 1], X[a]) = join(0, 0)
          BY <4>1, <4>2, JoinZero
        <4>4. V[a - 1] = 0
          BY <4>2, <4>3, JoinOne, JoinZero
        <4> QED
          BY <4>1, <4>4
      <3> HIDE DEF Z
      <3>3. 0 .. d \subseteq Z
        BY <1>1, <3>1, <3>2, Along
      <3>4. \A n \in 0 .. d : V[n] = 0
        <4> TAKE n \in 0 .. d
        <4>1. d - n \in 0 .. d /\ d - (d - n) = n
          BY <1>1
        <4> QED
          BY <3>3, <4>1 DEF Z
      <3> TAKE b \in 1 .. d
      <3>5. b \in 1 .. Len(X) /\ b - 1 \in 0 .. d /\ b \in 0 .. d
        BY <1>1
      <3>6. V[b] = join(V[b - 1], X[b]) /\ V[b] = 0 /\ V[b - 1] = 0 /\ X[b] \in Byte
        BY <1>0, <1>2, <3>4, <3>5
      <3>7. join(0, X[b]) = join(0, 0)
        BY <3>6, JoinZero
      <3> QED
        BY <3>6, <3>7, JoinOne, JoinZero
    <2> QED
      BY <1>3, <2>3, <2>4
  <1> QED
    BY <1>2, <1>4, <1>5

\* What uncompressed writes, byte by byte.
LEMMA JoinedBytes ==
    ASSUME NEW n \in Nat, NEW x \in Seq(Byte), NEW y \in Seq(Byte), Len(x) <= n, Len(y) <= n
    PROVE  \A b \in 1 .. n :
              /\ uncompressed(n, x, y)[1 + b] = IF b > n - Len(x) THEN x[b - (n - Len(x))] ELSE 0
              /\ uncompressed(n, x, y)[1 + n + b] =
                    IF b > n - Len(y) THEN y[b - (n - Len(y))] ELSE 0
  <1> DEFINE w == uncompressed(n, x, y)
  <1>1. Len(x) \in 0 .. n /\ Len(y) \in 0 .. n
    OBVIOUS
  <1>2. w = [b \in 1 .. 1 + 2 * n |->
                    IF b - (1 + 2 * n - Len(y)) \in 1 .. Len(y) THEN y[b - (1 + 2 * n - Len(y))]
                    ELSE IF b - (1 + n - Len(x)) \in 1 .. Len(x) THEN x[b - (1 + n - Len(x))]
                    ELSE IF b = 1 THEN 4 ELSE 0]
    BY <1>1 DEF copy, uncompressed
  <1> HIDE DEF w
  <1> SUFFICES ASSUME NEW b \in 1 .. n
               PROVE  /\ w[1 + b] = IF b > n - Len(x) THEN x[b - (n - Len(x))] ELSE 0
                      /\ w[1 + n + b] = IF b > n - Len(y) THEN y[b - (n - Len(y))] ELSE 0
    BY DEF w
  <1>3. w[1 + b] = IF b > n - Len(x) THEN x[b - (n - Len(x))] ELSE 0
    <2>1. /\ ~((1 + b) - (1 + 2 * n - Len(y)) \in 1 .. Len(y)) /\ 1 + b # 1
          /\ ((1 + b) - (1 + n - Len(x)) \in 1 .. Len(x)) <=> (b > n - Len(x))
          /\ (1 + b) - (1 + n - Len(x)) = b - (n - Len(x))
          /\ 1 + b \in 1 .. 1 + 2 * n
      BY <1>1
    <2> QED
      BY <1>2, <2>1
  <1>4. w[1 + n + b] = IF b > n - Len(y) THEN y[b - (n - Len(y))] ELSE 0
    <2>1. /\ ~((1 + n + b) - (1 + n - Len(x)) \in 1 .. Len(x)) /\ 1 + n + b # 1
          /\ ((1 + n + b) - (1 + 2 * n - Len(y)) \in 1 .. Len(y)) <=> (b > n - Len(y))
          /\ (1 + n + b) - (1 + 2 * n - Len(y)) = b - (n - Len(y))
          /\ 1 + n + b \in 1 .. 1 + 2 * n
      BY <1>1
    <2> QED
      BY <1>2, <2>1
  <1> QED
    BY <1>3, <1>4

\* Bytes that join to a point are the coordinates of that point, and of no other bytes.
LEMMA PointSplits ==
    ASSUME NEW p \in OnCurve, NEW x \in Seq(Byte), NEW y \in Seq(Byte),
           Len(x) <= size(p[1]), Len(y) <= size(p[1]),
           uncompressed(size(p[1]), x, y) = Bytes(p)
    PROVE  Aligned(x, p[2]) /\ Aligned(y, p[3])
  <1> DEFINE n == size(p[1])
  <1>1. n \in Nat /\ Len(p[2]) = n /\ Len(p[3]) = n
    BY PointTyped
  <1>2. \A b \in 1 .. n : Bytes(p)[1 + b] = p[2][b] /\ Bytes(p)[1 + n + b] = p[3][b]
    BY BytesOfPoint
  <1> HIDE DEF n
  <1>3. Len(x) <= n /\ Len(y) <= n /\ uncompressed(n, x, y) = Bytes(p)
    BY DEF n
  <1> DEFINE w == uncompressed(n, x, y)
  <1>4. \A b \in 1 .. n :
              /\ w[1 + b] = IF b > n - Len(x) THEN x[b - (n - Len(x))] ELSE 0
              /\ w[1 + n + b] = IF b > n - Len(y) THEN y[b - (n - Len(y))] ELSE 0
    BY <1>1, <1>3, JoinedBytes
  <1>5. w = Bytes(p)
    BY <1>3
  <1> HIDE DEF w
  <1>6. \A b \in 1 .. n :
              /\ Bytes(p)[1 + b] = IF b > n - Len(x) THEN x[b - (n - Len(x))] ELSE 0
              /\ Bytes(p)[1 + n + b] = IF b > n - Len(y) THEN y[b - (n - Len(y))] ELSE 0
    BY <1>4, <1>5
  <1> QED
    BY <1>1, <1>2, <1>3, <1>6 DEF Aligned

\* The point that two byte strings join to is the one whose coordinates they number.
LEMMA PointsAgree ==
    ASSUME NEW m, m.crv \in Labels, m.x \in Seq(Byte), m.y \in Seq(Byte),
           Len(m.x) <= size(m.crv), Len(m.y) <= size(m.crv)
    PROVE  PointOf(m.crv, uncompressed(size(m.crv), m.x, m.y)) = PointsOfNumbers(m)
  <1>1. {m.x, m.y} \cap {Absent, Malformed} = {}
    BY SentinelBytes
  <1>2. ASSUME NEW p \in OnCurve, p[1] = m.crv
        PROVE  Bytes(p) = uncompressed(size(m.crv), m.x, m.y)
                  <=> Value(m.x) = Value(p[2]) /\ Value(m.y) = Value(p[3])
    <2>1. /\ p[2] \in Seq(Byte) /\ p[3] \in Seq(Byte)
          /\ Len(m.x) <= Len(p[2]) /\ Len(m.y) <= Len(p[3])
      BY <1>2, PointTyped
    <2>2. /\ Aligned(m.x, p[2]) <=> Value(m.x) = Value(p[2])
          /\ Aligned(m.y, p[3]) <=> Value(m.y) = Value(p[3])
      BY <2>1, AlignedValue
    <2>3. Bytes(p) = uncompressed(size(m.crv), m.x, m.y)
            => Aligned(m.x, p[2]) /\ Aligned(m.y, p[3])
      BY <1>2, PointSplits
    <2>4. Aligned(m.x, p[2]) /\ Aligned(m.y, p[3])
            => Bytes(p) = uncompressed(size(m.crv), m.x, m.y)
      BY <1>2, JoinsPoint
    <2> QED
      BY <2>2, <2>3, <2>4
  <1> QED
    BY <1>1, <1>2 DEF PointOf, PointsOfNumbers

\* Bytes that no point numbers are refused, and those of a point read as that point.
LEMMA ParsesAsNumbers ==
    ASSUME Allowed = Labels, NEW m \in ForeignKey \cup COSE_Key
    PROVE  LET abstract == Abstract!parseCOSEKey(AbstractKey(m))
           IN  parseErr(m) = abstract.err /\ parsedKey(m) = abstract.val
  <1>1. CASE m = Malformed
    BY <1>1 DEF parseErr, parsedKey, AbstractKey, Abstract!parseCOSEKey, Abstract!Err
  <1>2. CASE m # Malformed
    <2> DEFINE a == AbstractKey(m)
    <2>1. /\ m.crv \in Int \cup {Absent, Malformed}
          /\ m.x \in Seq(Byte) \cup {Absent, Malformed}
          /\ m.y \in Seq(Byte) \cup {Absent, Malformed}
      <3>1. CASE m \in ForeignKey
        BY <1>2, <3>1 DEF ForeignKey
      <3>2. CASE m \in COSE_Key
        BY <3>2 DEF COSE_Key, Labels
      <3> QED
        BY <3>1, <3>2
    <2>2. /\ a.kty = IF m.kty = 2 THEN "EC2" ELSE "other"
          /\ a.crv = IF m.crv = Absent THEN Malformed ELSE m.crv
          /\ a.pt = IF PointsOfNumbers(m) = {} THEN Malformed
                    ELSE CHOOSE p \in PointsOfNumbers(m) : TRUE
      BY <1>2 DEF AbstractKey
    <2>3. a.pt \in OnCurve \cup {Malformed} /\ (a.pt = Malformed <=> PointsOfNumbers(m) = {})
      BY <2>2, SentinelBytes DEF PointsOfNumbers
    <2>4. a # Malformed
      <3>1. a \in NumberKey
        BY <1>2, <2>1, <2>3 DEF AbstractKey, NumberKey
      <3> QED
        BY <3>1, SentinelKeys
    <2> HIDE DEF a
    <2>5. CASE m.kty # 2
      BY <1>2, <2>2, <2>4, <2>5 DEF a, parseErr, parsedKey, Abstract!parseCOSEKey, Abstract!Err
    <2>6. CASE m.kty = 2 /\ m.crv \in {Absent, Malformed}
      BY <1>2, <2>2, <2>4, <2>6 DEF a, parseErr, parsedKey, Abstract!parseCOSEKey, Abstract!Err
    <2>7. CASE m.kty = 2 /\ m.crv \notin {Absent, Malformed} /\ m.crv \notin Labels
      BY <1>2, <2>2, <2>4, <2>7 DEF a, parseErr, parsedKey, Abstract!parseCOSEKey, Abstract!Err,
            Abstract!curveForCOSELabel, Labels
    <2>8. CASE m.kty = 2 /\ m.crv \notin {Absent, Malformed} /\ m.crv \in Labels
      <3>1. Abstract!parseCOSEKey(a) =
                IF PointsOfNumbers(m) = {} THEN [val |-> Absent, err |-> {"ErrMalformed"}]
                ELSE [val |-> CHOOSE p \in PointsOfNumbers(m) : TRUE, err |-> {}]
        BY <2>2, <2>3, <2>4, <2>8
           DEF Abstract!parseCOSEKey, Abstract!Err, Abstract!Ok, Abstract!curveForCOSELabel, Labels
      <3>2. CASE \/ m.x \in {Absent, Malformed} \/ m.y \in {Absent, Malformed}
                 \/ Len(m.x) > size(m.crv) \/ Len(m.y) > size(m.crv)
        <4>1. PointsOfNumbers(m) = {}
          <5> SUFFICES ASSUME NEW p \in PointsOfNumbers(m)
                       PROVE  FALSE
            OBVIOUS
          <5>1. m.x \notin {Absent, Malformed} /\ m.y \notin {Absent, Malformed}
            BY DEF PointsOfNumbers
          <5>2. Len(m.x) \in Nat /\ Len(m.y) \in Nat /\ size(m.crv) \in Nat
            BY <2>1, <2>8, <5>1, BitSizeAssumption DEF size
          <5>3. Len(m.x) <= size(m.crv) /\ Len(m.y) <= size(m.crv)
            BY DEF PointsOfNumbers
          <5> QED
            BY <3>2, <5>1, <5>2, <5>3
        <4>2. parseErr(m) = {"ErrMalformed"}
          BY <1>2, <2>8, <3>2 DEF parseErr
        <4> QED
          BY <3>1, <4>1, <4>2 DEF a, parsedKey
      <3>3. CASE ~(\/ m.x \in {Absent, Malformed} \/ m.y \in {Absent, Malformed}
                   \/ Len(m.x) > size(m.crv) \/ Len(m.y) > size(m.crv))
        <4>1. PointOf(m.crv, uncompressed(size(m.crv), m.x, m.y)) = PointsOfNumbers(m)
          <5>1. /\ m.x \in Seq(Byte) /\ m.y \in Seq(Byte) /\ size(m.crv) \in Nat
                /\ Len(m.x) <= size(m.crv) /\ Len(m.y) <= size(m.crv)
            BY <2>1, <2>8, <3>3, BitSizeAssumption, SMTT(30) DEF size
          <5> QED
            BY <2>8, <5>1, PointsAgree
        <4>2. parseErr(m) = IF PointsOfNumbers(m) = {} THEN {"ErrMalformed"} ELSE {}
          BY <1>2, <2>8, <3>3, <4>1 DEF parseErr
        <4> QED
          BY <3>1, <4>1, <4>2 DEF a, parsedKey
      <3> QED
        BY <3>2, <3>3
    <2> QED
      BY <2>5, <2>6, <2>7, <2>8
  <1> QED
    BY <1>1, <1>2

\* Every step reads the bytes as they stay.
LEMMA StepKeyRead == KeyInside /\ KeyRead /\ [Next]_kvars => KeyRead'
  <1> SUFFICES ASSUME KeyInside, KeyRead, [Next]_kvars
               PROVE  KeyRead'
    OBVIOUS
  <1>1. CASE encodeCOSEKey
    <2>1. raw = Absent /\ key = Absent /\ err = {} /\ key' = Absent
      BY <1>1 DEF encodeCOSEKey, KeyInside
    <2>2. CASE UNCHANGED raw
      BY <2>1, <2>2 DEF KeyRead, Parsed
    <2>3. CASE /\ pub \in OnCurve /\ err' = err
               /\ LET xy == ecPointCoordinates(Bytes(pub))
                  IN  raw' = [kty |-> 2, crv |-> pub[1], x |-> xy.x, y |-> xy.y]
      <3>1. ecPointCoordinates(Bytes(pub)) = [x |-> pub[2], y |-> pub[3]]
        BY <2>3, HalvesOfPoint
      <3>2. raw' = [kty |-> 2, crv |-> pub[1], x |-> pub[2], y |-> pub[3]]
        BY <2>3, <3>1
      <3>3. raw' \in COSE_Key
        BY <2>3, <3>2, PointTyped DEF COSE_Key
      <3> QED
        BY <2>1, <2>3, <3>3 DEF KeyRead, Parsed
    <2> QED
      BY <1>1, <2>2, <2>3 DEF encodeCOSEKey
  <1>2. CASE Trim
    <2>1. key = Absent /\ err = {} /\ raw \in COSE_Key /\ UNCHANGED <<key, err>>
      BY <1>2 DEF Trim, KeyInside
    <2>2. raw' \in COSE_Key
      <3>1. raw.x \in Seq(Byte) /\ raw.y \in Seq(Byte)
        BY <2>1 DEF COSE_Key
      <3>2. CASE raw.x # <<>> /\ raw' = [raw EXCEPT !.x = Tail(@)]
        <4>1. Tail(raw.x) \in Seq(Byte)
          BY <3>1, <3>2
        <4> QED
          BY <2>1, <3>2, <4>1 DEF COSE_Key
      <3>3. CASE raw.y # <<>> /\ raw' = [raw EXCEPT !.y = Tail(@)]
        <4>1. Tail(raw.y) \in Seq(Byte)
          BY <3>1, <3>3
        <4> QED
          BY <2>1, <3>3, <4>1 DEF COSE_Key
      <3> QED
        BY <1>2, <3>2, <3>3 DEF Trim
    <2> QED
      BY <2>1, <2>2 DEF KeyRead, Parsed
  <1>3. CASE Receive
    <2>1. key = Absent /\ err = {} /\ UNCHANGED <<key, err>> /\ raw' \in ForeignKey
      BY <1>3, ForeignAssumption DEF Receive, KeyInside
    <2> QED
      BY <2>1 DEF KeyRead, Parsed
  <1>4. CASE parseCOSEKey
    BY <1>4 DEF parseCOSEKey, KeyRead
  <1>5. CASE UNCHANGED kvars
    BY <1>5 DEF kvars, KeyRead, Parsed
  <1> QED
    BY <1>1, <1>2, <1>3, <1>4, <1>5 DEF Next

\* parseCOSEKey answers as the parser of the verification model does for the numbers in
\* the bytes, with every curve, point and COSE_Key, when the policy allows the three
\* curves that model knows (key.go:53).
THEOREM NumbersParsed == Allowed = Labels => (Spec => []ParsesNumbers)
  <1> SUFFICES ASSUME Allowed = Labels
               PROVE  Spec => []ParsesNumbers
    OBVIOUS
  <1>1. Init => KeyInside /\ KeyRead
    BY DEF Init, KeyInside, KeyRead, Parsed
  <1>2. KeyInside /\ KeyRead /\ [Next]_kvars => (KeyInside /\ KeyRead)'
    BY StepKeyInside, StepKeyRead
  <1>3. KeyInside /\ KeyRead => ParsesNumbers
    <2> SUFFICES ASSUME KeyInside, KeyRead, Parsed
                 PROVE  LET abstract == Abstract!parseCOSEKey(AbstractKey(raw))
                        IN  err = abstract.err /\ key = abstract.val
      BY DEF ParsesNumbers
    <2>1. raw \in ForeignKey \cup COSE_Key
      BY DEF KeyInside, KeyRead, Parsed
    <2>2. err = parseErr(raw) /\ key = parsedKey(raw)
      BY DEF KeyRead
    <2> QED
      BY <2>1, <2>2, ParsesAsNumbers
  <1> QED
    BY <1>1, <1>2, <1>3, PTL DEF Spec
=============================================================================
