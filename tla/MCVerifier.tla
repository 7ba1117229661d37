----------------------------- MODULE MCVerifier -----------------------------
(***************************************************************************)
(* Instances of Verifier for TLC. The inputs start from one genuine        *)
(* credential and deviate from it in one part, or in two parts together,   *)
(* so that every check has to decide both ways and every pair of faults    *)
(* competes for the reported reason.                                       *)
(***************************************************************************)
EXTENDS VerifierProperties

MCDocTypes == {"mDL", "PID"}
MCNamespaces == {"n1", "n2"}
MCElements == {"name", "age"}
MCValues == {"v1", "v2"}
MCDigestIDs == {0, 1}
MCWires == {"w1", "w2"}
MCKeys == {"kI", "kD", "kX"}
MCTranscripts == {"st1", "st2"}
\* A trust layer may report an error of its own or wrap one of the package's.
MCTrustErrors == {"unknown", "ErrIssuerCertValidity"}

-----------------------------------------------------------------------------
(* The genuine credential: issuer key kI, device key kD, session st1. *)

Item(w, id, e, v) == [wire |-> w, digestID |-> id, elementIdentifier |-> e, elementValue |-> v]
A == Item("w1", 0, "name", "v1")
B == Item("w1", 1, "age", "v2")
Again == Item("w1", 1, "name", "v2")     \* repeats A's identifier, sealed in n2
Broken == Item("w1", 0, "age", Malformed)
Seal(a, b) == [id \in MCDigestIDs |-> Hash("SHA-256", IF id = 0 THEN a ELSE b)]
Map(v1, v2) == [n \in MCNamespaces |-> IF n = "n1" THEN v1 ELSE v2]

Leaf == [subject |-> "kI", notBefore |-> 2, notAfter |-> 3]
Good == [version |-> "1.0", digestAlgorithm |-> "SHA-256",
         valueDigests |-> Map(Seal(A, B), Seal(Broken, Again)),
         deviceKey |-> [kty |-> "EC2", crv |-> 1, pt |-> "kD"], docType |-> "mDL",
         validityInfo |-> [signed |-> 2, validFrom |-> 2, validUntil |-> 3],
         status |-> Absent]

Prot(x5) == [alg |-> "ES256", x5chain |-> x5]
Cose(key, prot, unprot, payload, over) ==
    [tagged |-> FALSE, len |-> 4, protected |-> prot, unprotected |-> unprot,
     payload |-> payload, signature |-> Sign(key, prot, over)]
IssuerAuth(m) == Cose("kI", Prot(Absent), [x5chain |-> <<Leaf>>], m, m)
DeviceSig(key, st, t, ns) ==
    Cose(key, Prot(Absent), Absent, Absent, DeviceAuthentication(st, t, ns))

Doc(m) == [docType |-> "mDL", nameSpaces |-> Map(<<A, B>>, Absent), issuerAuth |-> IssuerAuth(m),
           deviceNameSpaces |-> "v1", deviceSignature |-> DeviceSig("kD", "st1", "mDL", "v1"),
           deviceMac |-> FALSE]
Response(docs) == [version |-> "1.0", documents |-> docs, documentErrors |-> FALSE, status |-> 0]
In(docs) == [DeviceResponse |-> Response(docs), SessionTranscript |-> "st1",
             IssuerTrust |-> TRUE, ExpectedDocType |-> "mDL"]

-----------------------------------------------------------------------------
(* Deviations, one set per part of a document. *)

Windows == {[Good.validityInfo EXCEPT !.signed = s] : s \in {0, 1, 3, 4}} \cup
           {[signed |-> 2, validFrom |-> w[1], validUntil |-> w[2]] :
                w \in {<<1, 2>>, <<3, 4>>, <<2, 2>>, <<0, 3>>, <<2, 0>>}}
DeviceKeys == {Malformed} \cup [kty: {"EC2"}, crv: {0, 4, Malformed}, pt: {"kD"}] \cup
              [kty: {"EC2", "other"}, crv: {2}, pt: {"kX", Malformed}]
Statuses == {Malformed, [statusList |-> Absent]} \cup
            {[statusList |-> [uri |-> u, idx |-> n]] : u \in {"uri", Absent}, n \in {0, 7, Absent}}
MSOs == {Good} \cup {[Good EXCEPT !.validityInfo = w] : w \in Windows}
        \cup {[Good EXCEPT !.deviceKey = x] : x \in DeviceKeys}
        \cup {[Good EXCEPT !.status = s] : s \in Statuses}
        \cup {[Good EXCEPT !.docType = "PID"], [Good EXCEPT !.digestAlgorithm = "SHA-1"],
              [Good EXCEPT !.digestAlgorithm = "SHA-512"]}

Chains == {Absent, Malformed, <<>>, <<Malformed>>, <<Malformed, Leaf>>, <<Leaf, Malformed>>,
           <<[Leaf EXCEPT !.notBefore = 3]>>}
IssuerAuths ==
    {Malformed, [IssuerAuth(Good) EXCEPT !.len = 3], [IssuerAuth(Good) EXCEPT !.tagged = TRUE],
     [IssuerAuth(Good) EXCEPT !.signature = Malformed]}
    \cup {Cose("kI", p, [x5chain |-> c], m, Good) :
            p \in {Malformed, Absent, Prot(Absent), [Prot(Absent) EXCEPT !.alg = "none"]},
            c \in {Absent, <<Leaf>>}, m \in {Good, Absent, Malformed, [Good EXCEPT !.docType = "PID"]}}
    \cup {Cose(key, Prot(c1), c2, Good, Good) : key \in {"kI", "kX"}, c1 \in {Absent, <<Leaf>>},
            c2 \in {[x5chain |-> c] : c \in Chains} \cup {Absent, Malformed}}

ItemLists == {<<A>>, <<B, A>>, <<A, Malformed>>, <<[A EXCEPT !.wire = "w2"]>>,
              <<[A EXCEPT !.elementValue = "v2"], A>>, <<Again>>, <<Broken>>}
NameSpaceMaps == {Map(l1, l2) : l1 \in Opt(ItemLists), l2 \in {Absent, <<Again>>, <<Broken>>}}
                 \cup {Map(Absent, l) : l \in ItemLists}

DeviceSigs ==
    {Absent, Malformed, [DeviceSig("kD", "st1", "mDL", "v1") EXCEPT !.len = 5],
     [DeviceSig("kD", "st1", "mDL", "v1") EXCEPT !.signature = Malformed],
     [DeviceSig("kD", "st1", "mDL", "v1") EXCEPT !.protected = Absent]}
    \cup {[DeviceSig("kD", st, "mDL", "v1") EXCEPT
                !.payload = DeviceAuthentication("st2", "mDL", "v1")] : st \in {"st1", "st2"}}
    \cup {DeviceSig(key, st, t, ns) : key \in {"kD", "kX"}, st \in {"st1", "st2"},
            t \in {"mDL", "PID"}, ns \in {"v1", "v2"}}

IssuerInputs == {In(<<[Doc(Good) EXCEPT !.issuerAuth = x]>>) : x \in IssuerAuths}
                \cup {In(<<Doc(m)>>) : m \in MSOs}
ItemInputs == {In(<<[Doc(m) EXCEPT !.nameSpaces = x]>>) : x \in NameSpaceMaps,
                    m \in {Good, [Good EXCEPT !.valueDigests = Map(Absent, Seal(Broken, Again))]}}
\* Two sealed items of one namespace with one identifier, in either order.
Repeats == [Good EXCEPT !.valueDigests = Map(Seal(A, Again), Absent)]
RepeatInputs == {In(<<[Doc(Repeats) EXCEPT !.nameSpaces = Map(l, Absent)]>>) :
                    l \in {<<A, Again>>, <<Again, A>>, <<A, Again, A>>}}
DeviceInputs == {[In(<<[Doc(Good) EXCEPT !.deviceSignature = x, !.deviceMac = mac]>>)
                    EXCEPT !.SessionTranscript = st] :
                    x \in DeviceSigs, mac \in BOOLEAN, st \in {"st1", Absent}}
CallInputs ==
    {[In(<<Doc(Good)>>) EXCEPT !.ExpectedDocType = t, !.IssuerTrust = b] :
        t \in {Absent, "PID"}, b \in BOOLEAN}
    \cup {[In(<<>>) EXCEPT !.DeviceResponse = r] :
            r \in {Malformed} \cup [version: {Absent, "1.0", "2.0"}, documents: {<<>>, <<Doc(Good)>>},
                                    documentErrors: BOOLEAN, status: {0, 10}]}

\* Two faults in one document, in parts that are checked one after the other.
FaultPairs ==
    LET ms == {Good, [Good EXCEPT !.validityInfo.signed = 4], [Good EXCEPT !.validityInfo.validFrom = 4,
                                                                 !.validityInfo.validUntil = 5],
               [Good EXCEPT !.docType = "PID"], [Good EXCEPT !.status = Malformed]}
    IN  {In(<<[Doc(m) EXCEPT !.nameSpaces = Map(l, Absent), !.deviceSignature = s]>>) :
            m \in ms, l \in {<<A>>, <<[A EXCEPT !.wire = "w2"]>>},
            s \in {Malformed, DeviceSig("kD", "st1", "mDL", "v1"), DeviceSig("kD", "st2", "mDL", "v1")}}

\* Two documents: each may be genuine, fail late, or be valid at other times.
BatchDocs ==
    {Doc([Good EXCEPT !.validityInfo.validFrom = w[1], !.validityInfo.validUntil = w[2]]) :
        w \in {<<1, 2>>, <<2, 4>>, <<3, 4>>}}
    \cup {[Doc(Good) EXCEPT !.nameSpaces = Map(<<Malformed>>, Absent)], Doc([Good EXCEPT !.status = Malformed]),
          [Doc([Good EXCEPT !.docType = "PID"]) EXCEPT !.docType = "PID",
                !.deviceSignature = DeviceSig("kD", "st1", "PID", "v1")]}
BatchInputs == {[In(<<d1, d2>>) EXCEPT !.ExpectedDocType = t] :
                    d1 \in BatchDocs, d2 \in BatchDocs, t \in {Absent, "mDL"}}

MCInputs == IssuerInputs \cup ItemInputs \cup RepeatInputs \cup DeviceInputs \cup CallInputs
            \cup FaultPairs \cup BatchInputs
=============================================================================
