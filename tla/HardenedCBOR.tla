---------------------------- MODULE HardenedCBOR ----------------------------
(***************************************************************************)
(* cbor.go on the way of one data element: Issue encodes its value and     *)
(* wraps the item in tag 24, a wallet decodes the item to select it, the   *)
(* verifier decodes the item and then the value it had kept raw. The other *)
(* modules call bytes Malformed or not; here is what makes them so.        *)
(*                                                                         *)
(* A byte string is the sequence of the CBOR items in it, Garbage where    *)
(* bytes begin no complete item. Of an item the model keeps what the       *)
(* decoder looks at: how deep it nests, how long its longest array or map  *)
(* is, whether all its lengths are definite, and whether it is clear: no   *)
(* key twice in a map, all text UTF-8, and text for the keys of its maps.  *)
(* The first three are looked at all over an item, whatever it is decoded  *)
(* into; the last only in the parts that are decoded.                      *)
(***************************************************************************)
EXTENDS Naturals, Sequences

CONSTANTS
    Absent, Garbage,
    maxNestedLevels,
    maxElements,    \* maxArrayElements and maxMapPairs, which are equal
    GoValues,       \* element values an issuer is given: [nesting, size, clear]
    Foreign         \* what others send as IssuerSignedItemBytes

ASSUME LimitsAssumption == maxNestedLevels \in Nat \ {0} /\ maxElements \in Nat \ (0 .. 3)
ASSUME GoValuesAssumption == GoValues \subseteq [nesting: Nat, size: Nat, clear: BOOLEAN]

\* The items of CBOR that are told apart: an element value, an IssuerSignedItem with its
\* value and a member the package does not know, a tag with the bytes inside, or Absent
\* when it is not around a byte string.
Value(nesting, size, definite, clear) ==
    [form |-> "value", nesting |-> nesting, size |-> size, definite |-> definite,
     clear |-> clear]
Item(elementValue, unknown, definite, clear) ==
    [form |-> "item", nesting |-> 1, size |-> 4, definite |-> definite, clear |-> clear,
     elementValue |-> elementValue, unknown |-> unknown]
Tag(number, content, definite) ==
    [form |-> "tag", nesting |-> 0, size |-> 0, definite |-> definite, clear |-> TRUE,
     number |-> number, content |-> content]

ElementValue == [form: {"value"}, nesting: Nat, size: Nat, definite: BOOLEAN, clear: BOOLEAN]
IssuerSignedItem ==
    [form: {"item"}, nesting: {1}, size: {4}, definite: BOOLEAN, clear: BOOLEAN,
     elementValue: ElementValue \cup {Absent}, unknown: ElementValue \cup {Absent}]
Inner == ElementValue \cup IssuerSignedItem
Tagged == [form: {"tag"}, nesting: {0}, size: {0}, definite: BOOLEAN, clear: {TRUE},
           number: Nat, content: Seq(Inner \cup {Garbage}) \cup {Absent}]
Bytes == Seq(Inner \cup Tagged \cup {Garbage})

ASSUME ForeignAssumption == Foreign \subseteq Bytes
ASSUME SentinelItems ==
    /\ {Absent, Garbage} \cap (Inner \cup Tagged) = {}
    /\ Absent \notin Bytes \cup GoValues

VARIABLES
    value,  \* the Go value that was sealed; Absent behind foreign bytes
    wire,   \* the IssuerSignedItemBytes, once there are any
    whole,  \* whether they are as they were written
    kept,   \* whether selectDisclosed took them: "unasked", "yes" or "no"
    got,    \* the value verifyIssuerIntegrity disclosed
    err     \* the error of the last call, a set of sentinels

hvars == <<value, wire, whole, kept, got, err>>

Ok(v) == [val |-> v, err |-> {}]
ErrMalformed == [val |-> Absent, err |-> {"ErrMalformed"}]

Parts(x) == IF x.form = "item" THEN {x.elementValue, x.unknown} \ {Absent} ELSE {}

\* Mutant of wellformed: the members of an item are counted from level 0 again.
wellformed_Flat(x) ==
    \A p \in {x} \cup Parts(x) :
        p.definite /\ p.nesting <= maxNestedLevels /\ p.size <= maxElements

\* The decoder's first pass, over all of an item: its limits, and no indefinite length.
wellformed(x) ==
    /\ x.definite /\ x.nesting <= maxNestedLevels /\ x.size <= maxElements
    /\ \A p \in Parts(x) :
        p.definite /\ x.nesting + p.nesting <= maxNestedLevels /\ p.size <= maxElements

\* What Decoder.Decode finds next in these bytes.
nextItem(raw) ==
    IF raw = <<>> THEN "EOF"
    ELSE IF Head(raw) # Garbage /\ wellformed(Head(raw)) THEN "item" ELSE "error"

\* Mutant of decode: whatever does not decode after the item counts as the end.
decode_Lenient(raw, form) ==
    IF nextItem(raw) # "item" THEN ErrMalformed
    ELSE IF Head(raw).form # form \/ ~Head(raw).clear THEN ErrMalformed
    ELSE IF nextItem(Tail(raw)) = "item" THEN ErrMalformed
    ELSE Ok(Head(raw))

\* Exactly one item, of the form the caller decodes into, and nothing after it.
decode(raw, form) ==
    IF nextItem(raw) # "item" THEN ErrMalformed
    ELSE IF Head(raw).form # form \/ ~Head(raw).clear THEN ErrMalformed
    ELSE IF nextItem(Tail(raw)) # "EOF" THEN ErrMalformed
    ELSE Ok(Head(raw))

\* The deterministic encoder writes definite lengths and no key twice; it has no limits
\* and takes any key and any string.
encode(v) == <<Value(v.nesting, v.size, TRUE, v.clear)>>

\* #6.24(bstr .cbor IssuerSignedItem), its elementValue already encoded.
encodeTagged24(elementValue) ==
    <<Tag(24, <<Item(Head(elementValue), Absent, TRUE, TRUE)>>, TRUE)>>

\* The bytes inside a tag 24; content is Absent when it is not a byte string.
untag24(raw) ==
    LET t == decode(raw, "tag")
    IN  IF t.err # {} THEN t
        ELSE IF t.val.number # 24 \/ t.val.content = Absent THEN ErrMalformed
        ELSE Ok(t.val.content)

\* The IssuerSignedItem in these bytes.
decodeTagged24(raw) ==
    LET inner == untag24(raw) IN IF inner.err # {} THEN inner ELSE decode(inner.val, "item")

\* Mutant of decodeElementValue: the bytes that were kept raw are taken as they are.
decodeElementValue_Raw(raw) == IF raw = Absent THEN ErrMalformed ELSE Ok(raw)

\* The value in a raw elementValue, which is empty when the item had none.
decodeElementValue(raw) == decode(IF raw = Absent THEN <<>> ELSE <<raw>>, "value")

-----------------------------------------------------------------------------
Init ==
    /\ value = Absent /\ wire = Absent /\ whole = TRUE
    /\ kept = "unasked" /\ got = Absent /\ err = {}

\* The body of Issue's loop over elements.
Issue ==
    /\ wire = Absent
    /\ value' \in GoValues
    /\ wire' = encodeTagged24(encode(value'))
    /\ UNCHANGED <<whole, kept, got, err>>

\* A credential of another make.
Receive ==
    /\ wire = Absent
    /\ wire' \in Foreign
    /\ UNCHANGED <<value, whole, kept, got, err>>

\* Bytes are added to the message, or to the byte string in its tag.
Append1 ==
    LET More == {<<Garbage>>, <<Value(0, 0, TRUE, TRUE)>>}
    IN  /\ wire # Absent /\ whole /\ kept = "unasked" /\ got = Absent /\ err = {}
        /\ \E more \in More :
            \/ wire' = wire \o more
            \/ /\ wire # <<>> /\ Head(wire) # Garbage
               /\ Head(wire).form = "tag" /\ Head(wire).content # Absent
               /\ wire' = [wire EXCEPT ![1].content = @ \o more]
        /\ whole' = FALSE
        /\ UNCHANGED <<value, kept, got, err>>

\* selectDisclosed: a wallet decodes the item for its element identifier, and hands the
\* bytes on as they are.
selectDisclosed ==
    LET isi == decodeTagged24(wire)
    IN  /\ wire # Absent /\ kept = "unasked" /\ got = Absent /\ err = {}
        /\ kept' = IF isi.err = {} THEN "yes" ELSE "no"
        /\ err' = isi.err
        /\ UNCHANGED <<value, wire, whole, got>>

\* The body of verifyIssuerIntegrity's loop over items, where the digest matches.
verifyItem ==
    LET isi == decodeTagged24(wire)
        val == IF isi.err # {} THEN isi ELSE decodeElementValue(isi.val.elementValue)
    IN  /\ wire # Absent /\ got = Absent /\ err = {}
        /\ got' = val.val /\ err' = val.err
        /\ UNCHANGED <<value, wire, whole, kept>>

Next == Issue \/ Receive \/ Append1 \/ selectDisclosed \/ verifyItem

Spec == Init /\ [][Next]_hvars

-----------------------------------------------------------------------------
\* A member of an item that the limits allow.
Allowed(member) ==
    member = Absent \/
    (member.definite /\ 1 + member.nesting <= maxNestedLevels /\ member.size <= maxElements)

\* These bytes are one tag 24 around one item, within the limits and clear but for the
\* values in it; such an item can be read in one way only.
OneItem(raw) ==
    /\ Len(raw) = 1 /\ raw[1] # Garbage /\ raw[1].form = "tag"
    /\ raw[1].number = 24 /\ raw[1].definite /\ raw[1].content # Absent
    /\ LET inner == raw[1].content
       IN  /\ Len(inner) = 1 /\ inner[1] # Garbage /\ inner[1].form = "item"
           /\ inner[1].definite /\ inner[1].clear
           /\ Allowed(inner[1].elementValue) /\ Allowed(inner[1].unknown)

\* ... and the value in it is there and can be read in one way only too.
OneValue(v, raw) ==
    OneItem(raw) /\ v = raw[1].content[1].elementValue /\ v # Absent /\ v.clear

\* The verifier's call came to an end.
Verified == got # Absent \/ (err # {} /\ kept # "no")

\* cbor.go:22 "the ONE decoder for all untrusted input": a value is disclosed exactly
\* when all the bytes that arrived, at all three levels, are one item of one meaning.
\* The value is decoded last, from bytes the first decoding skipped over, and still
\* no ambiguity in it and no byte around it goes unnoticed.
OneReading ==
    Verified => \/ err = {} /\ OneValue(got, wire)
                \/ /\ err = {"ErrMalformed"} /\ got = Absent
                   /\ OneItem(wire) => ~OneValue(wire[1].content[1].elementValue, wire)

\* What a decoder of these limits can take back from an item.
Takes(v) == v.clear /\ 1 + v.nesting <= maxNestedLevels /\ v.size <= maxElements

\* The encoder has no limits and the decoder has: an element value Issue seals is the
\* value Verify discloses, unless it is nested as deep as the limit (the item around it
\* takes a level), is longer than the limit, or has keys that are not text.
SealedIsRead ==
    Verified /\ value # Absent /\ whole =>
        IF Takes(value) THEN got = encode(value)[1] ELSE err = {"ErrMalformed"}

\* A wallet refuses no item that the verifier would disclose; what it hands on and the
\* verifier refuses has its fault inside the element value.
WalletAgrees ==
    /\ kept = "no" => ~OneItem(wire)
    /\ kept = "yes" => OneItem(wire)
=============================================================================
