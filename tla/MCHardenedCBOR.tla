--------------------------- MODULE MCHardenedCBOR ---------------------------
(***************************************************************************)
(* HardenedCBOR for TLC: limits of two levels and five elements instead of *)
(* 16 and 65536, and values, items, tags and byte strings on both sides of *)
(* every limit and with every single fault.                                *)
(***************************************************************************)
EXTENDS HardenedCBOR

MCGoValues == [nesting: 0 .. 3, size: {0, 5, 6}, clear: BOOLEAN]

\* A value for each fault, and one of the deepest and longest there may be.
Members ==
    {Absent, Value(1, 5, TRUE, TRUE), Value(2, 1, TRUE, TRUE), Value(0, 6, TRUE, TRUE),
     Value(1, 5, FALSE, TRUE), Value(1, 5, TRUE, FALSE)}

Items == {Item(v, u, d, c) : v \in Members, u \in Members, d \in BOOLEAN, c \in BOOLEAN}

Contents == {<<>>, <<Garbage>>, <<Value(0, 0, TRUE, TRUE)>>, Absent}
            \cup {<<x>> : x \in Items}

MCForeign ==
    {<<>>, <<Garbage>>, <<Value(0, 0, TRUE, TRUE)>>, <<Garbage, Garbage>>}
    \cup {<<Tag(24, c, d)>> : c \in Contents, d \in BOOLEAN}
    \cup {<<Tag(0, c, TRUE)>> : c \in Contents}
=============================================================================
