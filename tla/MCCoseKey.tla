------------------------------ MODULE MCCoseKey ------------------------------
(***************************************************************************)
(* CoseKey for TLC: curves of one, two and three bytes, the last with a    *)
(* partial leading byte like P-521, coordinates with zero, small and large *)
(* bytes in every place, and COSE_Keys with each member missing, broken,   *)
(* too short and too long.                                                 *)
(***************************************************************************)
EXTENDS CoseKey

MCBitSize == <<8, 16, 17>>
Bytestrings(n) == [1 .. n -> {0, 1, 255}]
Points(crv) ==
    LET Fits(s) == Value(s) < 2 ^ MCBitSize[crv]
        Coordinates == {s \in Bytestrings((MCBitSize[crv] + 7) \div 8) : Fits(s)}
    IN  {p \in {crv} \X Coordinates \X Coordinates : (Value(p[2]) + 2 * Value(p[3])) % 3 = 1}
MCOnCurve == UNION {Points(crv) : crv \in {1, 2, 3}}

MCPublicKeys == MCOnCurve \cup {<<0, <<1>>, <<1>>>>, <<2, <<1, 1>>, <<1, 1>>>>}

Short(n) == UNION {[1 .. l -> {0, 1}] : l \in 0 .. n}
MCForeign ==
    LET Good == [kty |-> 2, crv |-> 2, x |-> <<1>>, y |-> <<0>>]
    IN  {Malformed}
        \cup [kty: {2}, crv: {2, 3}, x: Short(3) \cup {Absent, Malformed},
              y: Short(4) \cup {Absent, Malformed}]
        \cup {[Good EXCEPT !.kty = t, !.crv = c] :
                t \in {Absent, Malformed, 1, 2}, c \in {Absent, Malformed, 0, 1, 2, 4}}
=============================================================================
