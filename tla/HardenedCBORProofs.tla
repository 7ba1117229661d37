------------------------- MODULE HardenedCBORProofs -------------------------
(***************************************************************************)
(* TLAPS proofs about HardenedCBOR, for all limits and all bytes: what is  *)
(* disclosed was read in the only way it can be, and what was sealed       *)
(* within the limits is disclosed.                                         *)
(***************************************************************************)
EXTENDS HardenedCBOR, SequenceTheorems, TLAPS

\* decode takes one item of the form asked for, alone in its bytes, and gives
\* ErrMalformed for everything else.
LEMMA DecodesOne ==
    ASSUME NEW S, NEW raw \in Seq(S), NEW form
    PROVE  decode(raw, form) =
             IF /\ Len(raw) = 1 /\ raw[1] # Garbage /\ wellformed(raw[1])
                /\ raw[1].form = form /\ raw[1].clear
             THEN Ok(raw[1]) ELSE ErrMalformed
  <1>1. raw = <<>> \/ (Len(raw) >= 1 /\ Head(raw) = raw[1] /\ raw # <<>>)
    OBVIOUS
  <1>2. raw # <<>> => (Tail(raw) = <<>> <=> Len(raw) = 1)
    <2> SUFFICES ASSUME raw # <<>>
                 PROVE  Tail(raw) = <<>> <=> Len(raw) = 1
      OBVIOUS
    <2> DEFINE t == Tail(raw)
    <2>1. t \in Seq(S) /\ Len(t) = Len(raw) - 1 /\ Len(raw) \in Nat
      BY HeadTailProperties
    <2> HIDE DEF t
    <2>2. t = <<>> <=> Len(t) = 0
      <3>1. Len(<<>>) = 0 /\ (t # <<>> => Len(t) \in Nat \ {0})
        BY <2>1, EmptySeq, Zenon
      <3> QED
        BY <3>1
    <2>3. t = <<>> <=> Len(raw) = 1
      <3>1. Len(t) = 0 <=> Len(raw) = 1
        BY <2>1
      <3> QED
        BY <2>2, <3>1, Zenon
    <2> QED
      BY <2>3 DEF t
  <1>3. nextItem(raw) = "item" <=> raw # <<>> /\ Head(raw) # Garbage /\ wellformed(Head(raw))
    BY DEF nextItem
  <1>4. nextItem(Tail(raw)) = "EOF" <=> Tail(raw) = <<>>
    BY DEF nextItem
  <1>5. Len(<<>>) = 0
    OBVIOUS
  <1>6. CASE raw = <<>>
    <2>1. ~(Len(raw) = 1) /\ nextItem(raw) # "item"
      BY <1>3, <1>5, <1>6
    <2> QED
      BY <2>1 DEF decode
  <1>7. CASE raw # <<>>
    <2>1. Head(raw) = raw[1]
      BY <1>1, <1>7
    <2>2. nextItem(Tail(raw)) = "EOF" <=> Len(raw) = 1
      BY <1>2, <1>4, <1>7
    <2>3. nextItem(raw) = "item" <=> raw[1] # Garbage /\ wellformed(raw[1])
      BY <1>3, <1>7, <2>1
    <2> QED
      BY <2>1, <2>2, <2>3 DEF decode
  <1> QED
    BY <1>6, <1>7

\* The item in a tag 24, taken out when OneItem says so and only then.
LEMMA TakesOneItem ==
    ASSUME NEW raw \in Bytes
    PROVE  /\ OneItem(raw) => decodeTagged24(raw) = Ok(raw[1].content[1])
           /\ ~OneItem(raw) => decodeTagged24(raw) = ErrMalformed
  <1> DEFINE t == decode(raw, "tag")
  <1>1. t = IF /\ Len(raw) = 1 /\ raw[1] # Garbage /\ wellformed(raw[1])
                /\ raw[1].form = "tag" /\ raw[1].clear
            THEN Ok(raw[1]) ELSE ErrMalformed
    BY DecodesOne DEF Bytes
  <1>2. Ok(raw[1]).err = {} /\ Ok(raw[1]).val = raw[1]
    BY DEF Ok
  <1>3. ErrMalformed.err # {}
    BY DEF ErrMalformed
  <1>4. CASE ~(Len(raw) = 1 /\ raw[1] # Garbage /\ raw[1].form = "tag")
    <2>1. t = ErrMalformed /\ ~OneItem(raw)
      BY <1>1, <1>4 DEF OneItem
    <2>2. untag24(raw) = ErrMalformed
      BY <1>3, <2>1 DEF untag24
    <2> QED
      BY <1>3, <2>1, <2>2 DEF decodeTagged24
  <1>5. CASE Len(raw) = 1 /\ raw[1] # Garbage /\ raw[1].form = "tag"
    <2> DEFINE inner == raw[1].content
    <2>1. raw[1] \in Tagged
      <3>1. raw[1] \in Inner \cup Tagged \cup {Garbage}
        BY <1>5, ElementOfSeq DEF Bytes
      <3>2. raw[1] \notin Inner
        BY <1>5 DEF Inner, ElementValue, IssuerSignedItem
      <3> QED
        BY <1>5, <3>1, <3>2
    <2>2. /\ raw[1].clear /\ raw[1].nesting = 0 /\ raw[1].size = 0
          /\ inner \in Seq(Inner \cup {Garbage}) \cup {Absent}
      BY <2>1 DEF Tagged
    <2>3. wellformed(raw[1]) <=> raw[1].definite
      <3>1. Parts(raw[1]) = {}
        BY <1>5 DEF Parts
      <3> QED
        BY <2>2, <3>1, LimitsAssumption DEF wellformed
    <2>4. CASE ~(raw[1].definite /\ raw[1].number = 24 /\ inner # Absent)
      <3>1. untag24(raw) = ErrMalformed /\ ~OneItem(raw)
        BY <1>1, <1>2, <1>3, <1>5, <2>2, <2>3, <2>4 DEF untag24, OneItem
      <3> QED
        BY <1>3, <3>1 DEF decodeTagged24
    <2>5. CASE raw[1].definite /\ raw[1].number = 24 /\ inner # Absent
      <3>1. untag24(raw) = Ok(inner)
        BY <1>1, <1>2, <1>3, <1>5, <2>2, <2>3, <2>5 DEF untag24
      <3>2. decodeTagged24(raw) = decode(inner, "item")
        BY <3>1 DEF decodeTagged24, Ok
      <3>3. inner \in Seq(Inner \cup {Garbage})
        BY <2>2, <2>5
      <3> HIDE DEF inner
      <3>4. decodeTagged24(raw) =
              IF /\ Len(inner) = 1 /\ inner[1] # Garbage /\ wellformed(inner[1])
                 /\ inner[1].form = "item" /\ inner[1].clear
              THEN Ok(inner[1]) ELSE ErrMalformed
        BY <3>2, <3>3, DecodesOne
      <3>5. ASSUME Len(inner) = 1, inner[1] # Garbage, inner[1].form = "item"
            PROVE  wellformed(inner[1]) <=>
                     /\ inner[1].definite /\ Allowed(inner[1].elementValue)
                     /\ Allowed(inner[1].unknown)
        <4>1. inner[1] \in IssuerSignedItem
          <5>1. inner[1] \in Inner \cup {Garbage}
            <6>1. 1 \in 1 .. Len(inner)
              BY <3>5
            <6> QED
              BY <3>3, <6>1, ElementOfSeq, Zenon
          <5>2. inner[1] \notin ElementValue
            BY <3>5 DEF ElementValue
          <5> QED
            BY <3>5, <5>1, <5>2 DEF Inner
        <4>2. inner[1].nesting = 1 /\ inner[1].size = 4
          BY <4>1 DEF IssuerSignedItem
        <4>3. Parts(inner[1]) = {inner[1].elementValue, inner[1].unknown} \ {Absent}
          BY <3>5 DEF Parts
        <4> QED
          BY <4>2, <4>3, LimitsAssumption DEF wellformed, Allowed
      <3> QED
        BY <1>5, <2>5, <3>4, <3>5 DEF OneItem, inner
    <2> QED
      BY <2>4, <2>5
  <1> QED
    BY <1>4, <1>5

\* What is verified of the item's bytes: its value, when OneValue says so and only then.
verdict(raw) ==
    LET isi == decodeTagged24(raw)
    IN  IF isi.err # {} THEN isi ELSE decodeElementValue(isi.val.elementValue)

LEMMA TakesOneValue ==
    ASSUME NEW raw \in Bytes
    PROVE  /\ OneItem(raw) /\ OneValue(raw[1].content[1].elementValue, raw)
                => verdict(raw) = Ok(raw[1].content[1].elementValue)
           /\ ~(OneItem(raw) /\ OneValue(raw[1].content[1].elementValue, raw))
                => verdict(raw) = ErrMalformed
  <1> DEFINE v == raw[1].content[1].elementValue
  <1>1. CASE ~OneItem(raw)
    <2>1. decodeTagged24(raw) = ErrMalformed /\ ErrMalformed.err # {}
      BY <1>1, TakesOneItem DEF ErrMalformed
    <2> QED
      BY <1>1, <2>1 DEF verdict
  <1>2. CASE OneItem(raw)
    <2>1. verdict(raw) = decodeElementValue(v)
      BY <1>2, TakesOneItem DEF verdict, Ok
    <2>2. v \in ElementValue \cup {Absent} /\ Allowed(v)
      <3>1. /\ Len(raw) = 1 /\ raw[1] # Garbage /\ raw[1].form = "tag" /\ raw[1].content # Absent
            /\ Len(raw[1].content) = 1 /\ raw[1].content[1] # Garbage
            /\ raw[1].content[1].form = "item" /\ Allowed(v)
        BY <1>2 DEF OneItem
      <3>2. raw[1] \in Inner \cup Tagged \cup {Garbage}
        BY <3>1, ElementOfSeq DEF Bytes
      <3>3. raw[1] \in Tagged
        BY <3>1, <3>2 DEF Inner, ElementValue, IssuerSignedItem
      <3>4. raw[1].content \in Seq(Inner \cup {Garbage})
        BY <3>1, <3>3 DEF Tagged
      <3>5. raw[1].content[1] \in Inner \cup {Garbage}
        BY <3>1, <3>4, ElementOfSeq
      <3>6. raw[1].content[1] \in IssuerSignedItem
        BY <3>1, <3>5 DEF Inner, ElementValue
      <3> QED
        BY <3>1, <3>6 DEF IssuerSignedItem
    <2> HIDE DEF v
    <2>3. CASE v = Absent
      <3>1. decodeElementValue(v) = decode(<<>>, "value")
        BY <2>3 DEF decodeElementValue
      <3>2. decode(<<>>, "value") = ErrMalformed
        BY DEF decode, nextItem
      <3> QED
        BY <2>1, <2>3, <3>1, <3>2 DEF OneValue, v
    <2>4. CASE v \in ElementValue
      <3>1. v # Absent /\ v # Garbage
        BY <2>4, SentinelItems DEF Inner
      <3>2. decodeElementValue(v) = decode(<<v>>, "value")
        BY <3>1 DEF decodeElementValue
      <3>3. <<v>> \in Seq(ElementValue) /\ Len(<<v>>) = 1 /\ <<v>>[1] = v
        BY <2>4
      <3>4. decode(<<v>>, "value") =
              IF v # Garbage /\ wellformed(v) /\ v.form = "value" /\ v.clear
              THEN Ok(v) ELSE ErrMalformed
        BY <3>3, DecodesOne
      <3>5. v.form = "value" /\ v.nesting \in Nat
        BY <2>4 DEF ElementValue
      <3>6. wellformed(v)
        <4>1. v.definite /\ 1 + v.nesting <= maxNestedLevels /\ v.size <= maxElements
          BY <2>2, <3>1 DEF Allowed
        <4>2. Parts(v) = {}
          BY <3>5 DEF Parts
        <4> QED
          BY <3>5, <4>1, <4>2, LimitsAssumption DEF wellformed
      <3>7. OneValue(v, raw) <=> v.clear
        BY <1>2, <3>1 DEF OneValue, v
      <3> QED
        BY <1>2, <2>1, <3>1, <3>2, <3>4, <3>5, <3>6, <3>7 DEF v
    <2> QED
      BY <2>2, <2>3, <2>4
  <1> QED
    BY <1>1, <1>2

-----------------------------------------------------------------------------
\* The bytes are bytes, and a call that ended gave the verdict on them.
IInv ==
    /\ wire \in Bytes \cup {Absent}
    /\ wire = Absent => got = Absent /\ err = {} /\ whole
    /\ Verified => got = verdict(wire).val /\ err = verdict(wire).err
    /\ value # Absent => value \in GoValues
    /\ value # Absent /\ whole => wire = encodeTagged24(encode(value))

\* What Issue writes is bytes.
LEMMA SealedBytes ==
    ASSUME NEW v \in GoValues
    PROVE  encodeTagged24(encode(v)) \in Bytes
  <1>1. Value(v.nesting, v.size, TRUE, v.clear) \in ElementValue
    BY GoValuesAssumption DEF Value, ElementValue
  <1> DEFINE x == Item(Value(v.nesting, v.size, TRUE, v.clear), Absent, TRUE, TRUE)
  <1>2. x \in Inner
    BY <1>1 DEF Inner, Item, IssuerSignedItem
  <1>3. Head(encode(v)) = Value(v.nesting, v.size, TRUE, v.clear)
    BY DEF encode
  <1>4. encodeTagged24(encode(v)) = <<Tag(24, <<x>>, TRUE)>>
    BY <1>3 DEF encodeTagged24
  <1> HIDE DEF x
  <1>5. <<x>> \in Seq(Inner \cup {Garbage})
    BY <1>2
  <1>6. Tag(24, <<x>>, TRUE) \in Tagged
    BY <1>5 DEF Tag, Tagged
  <1> QED
    <2> DEFINE y == Tag(24, <<x>>, TRUE)
    <2>1. y \in Inner \cup Tagged \cup {Garbage} /\ encodeTagged24(encode(v)) = <<y>>
      BY <1>4, <1>6
    <2> HIDE DEF y
    <2> QED
      BY <2>1 DEF Bytes

\* Bytes with more bytes appended, outside or inside the tag, are bytes.
LEMMA AppendedBytes == wire \in Bytes \cup {Absent} /\ Append1 => wire' \in Bytes
  <1> SUFFICES ASSUME wire \in Bytes, Append1
               PROVE  wire' \in Bytes
    BY DEF Append1
  <1>1. PICK more \in {<<Garbage>>, <<Value(0, 0, TRUE, TRUE)>>} :
          \/ wire' = wire \o more
          \/ /\ wire # <<>> /\ Head(wire) # Garbage
             /\ Head(wire).form = "tag" /\ Head(wire).content # Absent
             /\ wire' = [wire EXCEPT ![1].content = @ \o more]
    BY DEF Append1
  <1>2. more \in Seq(Inner \cup {Garbage}) /\ more \in Bytes
    <2> DEFINE zero == Value(0, 0, TRUE, TRUE)
    <2>1. zero \in Inner /\ more \in {<<Garbage>>, <<zero>>}
      BY <1>1 DEF Value, ElementValue, Inner
    <2> HIDE DEF zero
    <2>2. PICK g \in Inner \cup {Garbage} : more = <<g>>
      BY <2>1
    <2> QED
      BY <2>2 DEF Bytes
  <1>3. CASE wire' = wire \o more
    BY <1>2, <1>3, ConcatProperties DEF Bytes
  <1>4. CASE /\ wire # <<>> /\ Head(wire) # Garbage
             /\ Head(wire).form = "tag" /\ Head(wire).content # Absent
             /\ wire' = [wire EXCEPT ![1].content = @ \o more]
    <2> DEFINE tag == [wire[1] EXCEPT !.content = wire[1].content \o more]
    <2>1. Head(wire) = wire[1] /\ wire' = [wire EXCEPT ![1] = tag] /\ 1 \in 1 .. Len(wire)
      BY <1>4 DEF Bytes
    <2>2. wire[1] \in Inner \cup Tagged \cup {Garbage}
      BY <2>1, ElementOfSeq, Zenon DEF Bytes
    <2>3. wire[1] \in Tagged /\ wire[1].content \in Seq(Inner \cup {Garbage})
      <3>1. wire[1] \notin Inner
        BY <1>4, <2>1 DEF Inner, ElementValue, IssuerSignedItem
      <3> QED
        BY <1>4, <2>1, <2>2, <3>1 DEF Tagged
    <2>4. wire[1].content \o more \in Seq(Inner \cup {Garbage})
      BY <1>2, <2>3, ConcatProperties
    <2>5. tag \in Tagged
      BY <2>3, <2>4 DEF Tagged
    <2> HIDE DEF tag
    <2> QED
      BY <2>1, <2>5 DEF Bytes
  <1> QED
    BY <1>1, <1>3, <1>4

LEMMA StepIInv == IInv /\ [Next]_hvars => IInv'
  <1> SUFFICES ASSUME IInv, [Next]_hvars
               PROVE  IInv'
    OBVIOUS
  <1>0. Absent \notin Bytes
    BY SentinelItems
  <1>1. CASE Issue
    <2>1. /\ value' \in GoValues /\ wire' = encodeTagged24(encode(value'))
          /\ got' = Absent /\ err' = {} /\ whole'
      BY <1>1 DEF Issue, IInv
    <2>2. wire' \in Bytes
      BY <2>1, SealedBytes
    <2> QED
      BY <1>0, <2>1, <2>2 DEF IInv, Verified
  <1>2. CASE Receive
    <2>1. /\ wire' \in Bytes /\ got' = Absent /\ err' = {} /\ UNCHANGED <<value, whole>>
          /\ wire = Absent /\ whole
      BY <1>2, ForeignAssumption DEF Receive, IInv
    <2>2. value = Absent
      BY <1>0, <2>1, SealedBytes DEF IInv
    <2> QED
      BY <1>0, <2>1, <2>2 DEF IInv, Verified
  <1>3. CASE Append1
    BY <1>0, <1>3, AppendedBytes DEF Append1, IInv, Verified
  <1>4. CASE selectDisclosed
    <2>1. /\ kept' \in {"yes", "no"} /\ (kept' = "yes" => err' = {})
          /\ got' = Absent /\ UNCHANGED <<value, wire, whole>> /\ wire # Absent
      BY <1>4 DEF selectDisclosed
    <2> QED
      BY <2>1 DEF IInv, Verified
  <1>5. CASE verifyItem
    BY <1>5 DEF verifyItem, verdict, IInv, Verified
  <1>6. CASE UNCHANGED hvars
    BY <1>6 DEF hvars, IInv, Verified
  <1> QED
    BY <1>1, <1>2, <1>3, <1>4, <1>5, <1>6 DEF Next

\* Whatever bytes arrive, what verifyIssuerIntegrity discloses of an item is the only
\* value those bytes can be read as, and everything else is ErrMalformed.
THEOREM ReadInOneWay == Spec => []OneReading
  <1>1. Init => IInv
    BY DEF Init, IInv, Verified
  <1>2. IInv => OneReading
    <2> SUFFICES ASSUME IInv, Verified
                 PROVE  \/ err = {} /\ OneValue(got, wire)
                        \/ /\ err = {"ErrMalformed"} /\ got = Absent
                           /\ OneItem(wire) => ~OneValue(wire[1].content[1].elementValue, wire)
      BY DEF OneReading
    <2>1. wire \in Bytes /\ got = verdict(wire).val /\ err = verdict(wire).err
      BY DEF IInv, Verified
    <2>2. CASE OneItem(wire) /\ OneValue(wire[1].content[1].elementValue, wire)
      BY <2>1, <2>2, TakesOneValue DEF Ok
    <2>3. CASE ~(OneItem(wire) /\ OneValue(wire[1].content[1].elementValue, wire))
      BY <2>1, <2>3, TakesOneValue DEF ErrMalformed
    <2> QED
      BY <2>2, <2>3
  <1> QED
    BY <1>1, <1>2, StepIInv, PTL DEF Spec

\* Whatever the limits, an element value that Issue sealed is disclosed exactly when it
\* fits in them one level deeper and has text for its keys.
THEOREM SealedValueRead == Spec => []SealedIsRead
  <1>1. Init => IInv
    BY DEF Init, IInv, Verified
  <1>2. IInv => SealedIsRead
    <2> SUFFICES ASSUME IInv, Verified, value # Absent, whole
                 PROVE  IF Takes(value) THEN got = encode(value)[1] ELSE err = {"ErrMalformed"}
      BY DEF SealedIsRead
    <2> DEFINE v == Value(value.nesting, value.size, TRUE, value.clear)
               x == Item(v, Absent, TRUE, TRUE)
    <2>1. /\ wire \in Bytes /\ got = verdict(wire).val /\ err = verdict(wire).err
          /\ wire = <<Tag(24, <<x>>, TRUE)>> /\ encode(value)[1] = v
          /\ value \in GoValues
      <3>1. wire = encodeTagged24(encode(value)) /\ value \in GoValues
        BY DEF IInv
      <3>2. wire \in Bytes /\ got = verdict(wire).val /\ err = verdict(wire).err
        BY <3>1, SealedBytes DEF IInv
      <3>3. Head(encode(value)) = v /\ encode(value)[1] = v
        BY DEF encode
      <3> QED
        BY <3>1, <3>2, <3>3 DEF encodeTagged24
    <2>2. /\ v.definite /\ v.nesting = value.nesting /\ v.size = value.size
          /\ v.clear = value.clear /\ v \in ElementValue
      BY <2>1, GoValuesAssumption DEF Value, ElementValue
    <2>3. v # Absent /\ v # Garbage
      BY <2>2, SentinelItems DEF Inner
    <2> HIDE DEF v
    <2>4. /\ x.form = "item" /\ x.definite /\ x.clear /\ x.elementValue = v
          /\ x.unknown = Absent /\ x \in Inner
      BY <2>2 DEF Item, Inner, IssuerSignedItem
    <2>5. x # Garbage
      BY <2>4, SentinelItems
    <2> HIDE DEF x
    <2>6. /\ Len(wire) = 1 /\ wire[1].form = "tag" /\ wire[1].number = 24 /\ wire[1].definite
          /\ wire[1].content = <<x>> /\ wire[1] = Tag(24, <<x>>, TRUE)
      BY <2>1 DEF Tag
    <2>7. wire[1] # Garbage /\ wire[1].content # Absent
      <3>1. <<x>> \in Seq(Inner \cup {Garbage}) /\ <<x>> \in Bytes
        BY <2>4 DEF Bytes
      <3>2. wire[1] \in Tagged
        BY <2>6, <3>1 DEF Tag, Tagged
      <3> QED
        BY <2>6, <3>1, <3>2, SentinelItems
    <2>8. wire[1].content[1] = x /\ Len(wire[1].content) = 1
      BY <2>6
    <2>9. OneItem(wire) <=> Allowed(v)
      BY <2>4, <2>5, <2>6, <2>7, <2>8 DEF OneItem, Allowed
    <2>10. OneItem(wire) /\ OneValue(v, wire) <=> Takes(value)
      BY <2>2, <2>3, <2>4, <2>8, <2>9 DEF OneValue, Allowed, Takes
    <2> QED
      <3>1. wire[1].content[1].elementValue = v
        BY <2>4, <2>8
      <3>2. CASE Takes(value)
        <4>1. verdict(wire) = Ok(v)
          BY <2>1, <2>10, <3>1, <3>2, TakesOneValue
        <4> QED
          BY <2>1, <3>2, <4>1 DEF Ok
      <3>3. CASE ~Takes(value)
        <4>1. verdict(wire) = ErrMalformed
          BY <2>1, <2>10, <3>1, <3>3, TakesOneValue
        <4> QED
          BY <2>1, <3>3, <4>1 DEF ErrMalformed
      <3> QED
        BY <3>2, <3>3
  <1> QED
    BY <1>1, <1>2, StepIInv, PTL DEF Spec

\* A wallet refuses an item exactly when there is no single item of one meaning in it:
\* nothing the verifier would disclose is held back by the decoder.
THEOREM WalletHandsOn == Spec => []WalletAgrees
  <1> DEFINE WInv == IInv /\ WalletAgrees /\ (wire = Absent => kept = "unasked")
  <1>1. Init => WInv
    BY DEF Init, IInv, Verified, WalletAgrees
  <1>2. WInv /\ [Next]_hvars => WInv'
    <2> SUFFICES ASSUME WInv, [Next]_hvars
                 PROVE  WInv'
      OBVIOUS
    <2>1. IInv'
      BY StepIInv
    <2>2. CASE Issue \/ Receive \/ Append1
      <3>1. kept' = "unasked"
        BY <2>2 DEF Issue, Receive, Append1
      <3> QED
        BY <2>1, <3>1 DEF WalletAgrees
    <2>3. CASE selectDisclosed
      <3>1. wire \in Bytes /\ wire' = wire
        BY <2>3 DEF selectDisclosed, IInv
      <3>2. kept' = IF OneItem(wire) THEN "yes" ELSE "no"
        BY <2>3, <3>1, TakesOneItem DEF selectDisclosed, Ok, ErrMalformed
      <3>3. OneItem(wire') = OneItem(wire) /\ wire # Absent
        BY <2>3, <3>1 DEF selectDisclosed
      <3> QED
        BY <2>1, <3>1, <3>2, <3>3 DEF WalletAgrees
    <2>4. CASE verifyItem \/ UNCHANGED hvars
      <3>1. UNCHANGED <<wire, kept>>
        BY <2>4 DEF verifyItem, hvars
      <3> QED
        BY <2>1, <3>1 DEF WalletAgrees, OneItem
    <2> QED
      BY <2>2, <2>3, <2>4 DEF Next
  <1>3. WInv => WalletAgrees
    OBVIOUS
  <1> QED
    BY <1>1, <1>2, <1>3, PTL DEF Spec
=============================================================================
