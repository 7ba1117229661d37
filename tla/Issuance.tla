------------------------------ MODULE Issuance ------------------------------
(***************************************************************************)
(* issue.go: Issuer.Issue and DevicePresent, with the COSE and COSE_Key    *)
(* functions that only they use. Both are pure but for the order in which  *)
(* Go ranges over maps and the salts, which are parameters here. TicksPer- *)
(* Second is the resolution of time.Time against that of the encoding.     *)
(***************************************************************************)
EXTENDS Cose, Integers, FiniteSets

CONSTANTS
    TicksPerSecond,
    EmptyDeviceNameSpaces   \* the DeviceNameSpaces this package signs: an empty map

ASSUME DigestIDsAssumption ==
    IsFiniteSet(Elements) /\ 0 .. (Cardinality(Elements) - 1) \subseteq DigestIDs
ASSUME EmptyDeviceNameSpacesAssumption == EmptyDeviceNameSpaces \in Values
ASSUME TicksPerSecondAssumption == TicksPerSecond \in Nat \ {0}

\* IssuerSigned, the bytes a wallet keeps.
IssuerSignedMap == [nameSpaces: MapOf(Namespaces, Seq(ItemBytes)),
                    issuerAuth: COSESign1(MobileSecurityObject)]
IssuerSigned == Raw(IssuerSignedMap)

\* What this package makes is there, and decodes.
ASSUME SentinelIssued ==
    {Malformed, Absent} \cap
        (Seq(ItemBytes) \cup Seq(Cert) \cup MapOf(DigestIDs, Digest) \cup IssuerSignedItem
         \cup DeviceKeyMap \cup StatusMap \cup MobileSecurityObject \cup ProtectedMap \cup UnprotectedMap
         \cup COSEArray(MobileSecurityObject) \cup COSEArray(DeviceAuthentications)
         \cup IssuerSignedMap \cup DeviceResponse \cup {"1.0", "SHA-256"}) = {}

\* An Issuer; ok is whether its provider has the key.
Issuer == [key: Keys, x5chain: Opt(Seq(Cert)), ok: BOOLEAN]

\* A template; a value is Malformed when the encoder has no encoding for it.
DocumentTemplate ==
    [docType: Opt(DocTypes), namespaces: MapOf(Namespaces, MapOf(Elements, Raw(Values))),
     validityInfo: ValidityInfo, digestAlg: Opt(DigestAlgs),
     status: Opt([uri: Opt({"uri"}), idx: Nat])]

\* A public key as crypto/ecdsa sees it; curve 0 is one COSE has no label for.
PublicKey == [type: {"ecdsa", "other"}, curve: 0 .. 3, pt: Keys]

\* eudicrypto.SignCOSESign1: a tagged message with its payload attached; ok is
\* whether the provider has the key and the policy an algorithm for it.
SignCOSESign1(ok, key, payload) ==
    LET protected == [alg |-> "ES256", x5chain |-> Absent]
    IN  IF ~ok THEN Err({"signing"})
        ELSE Ok([tagged |-> TRUE, len |-> 4, protected |-> protected,
                 unprotected |-> [x5chain |-> Absent], payload |-> payload,
                 signature |-> Sign(key, protected, payload)])

\* The chain in the unprotected header. A nil chain is encoded as null, which reads
\* back as a single empty certificate.
signCOSEWithX5Chain(issuer, payload) ==
    LET signed == SignCOSESign1(issuer.ok, issuer.key, payload)
    IN  IF signed.err # {} THEN signed
        ELSE Ok(coseAssemble([coseParts(signed.val).val EXCEPT !.unprotected =
                    [x5chain |-> IF issuer.x5chain = Absent THEN <<Malformed>>
                                 ELSE issuer.x5chain]]))

\* The message with null in its payload slot.
detachCOSEPayload(raw) ==
    IF coseParts(raw).err # {} THEN coseParts(raw)
    ELSE Ok(coseAssemble([coseParts(raw).val EXCEPT !.payload = Absent]))

\* The COSE_Key of an EC key on one of the three curves.
encodeCOSEKey(pub) ==
    IF pub.curve = 0 THEN Err({"ErrUnsupported"})
    ELSE Ok([kty |-> "EC2", crv |-> pub.curve, pt |-> pub.pt])

\* Mutant of encodeTime: times are rounded to the nearest second.
encodeTime_Rounded(t) == LET u == t + TicksPerSecond \div 2 IN u - (u % TicksPerSecond)

\* A time as the encoder writes it: RFC 3339 in whole seconds; the zero time is null.
encodeTime(t) == t - (t % TicksPerSecond)
encodeValidity(vi) ==
    [signed |-> encodeTime(vi.signed), validFrom |-> encodeTime(vi.validFrom),
     validUntil |-> encodeTime(vi.validUntil)]

-----------------------------------------------------------------------------
(* Issue *)

\* The sequences of all members of S, each of them once.
Orders(S) == {o \in [1 .. Cardinality(S) -> S] : {o[j] : j \in DOMAIN o} = S}

\* The orders in which the elements of each namespace may be ranged over.
RangeOrders(template) ==
    LET InNamespace(n) == IF template.namespaces[n] = Absent THEN {}
                          ELSE KeysOf(template.namespaces[n])
    IN  {o \in [Namespaces -> UNION {Orders(InNamespace(n)) : n \in Namespaces}] :
            \A n \in Namespaces : o[n] \in Orders(InNamespace(n))}

\* Mutant of issueItem: the identifier is advanced before the item is built.
issueItem_Late(template, order, salts, n, j) ==
    [wire |-> salts[n][order[n][j]], digestID |-> j % Cardinality(DigestIDs),
     elementIdentifier |-> order[n][j],
     elementValue |-> template.namespaces[n][order[n][j]]]

\* The j-th item of namespace n; digestID counts from 0 in every namespace.
issueItem(template, order, salts, n, j) ==
    [wire |-> salts[n][order[n][j]], digestID |-> j - 1,
     elementIdentifier |-> order[n][j],
     elementValue |-> template.namespaces[n][order[n][j]]]

digestAlgOf(template) == IF template.digestAlg = Absent THEN "SHA-256" ELSE template.digestAlg

issuedNameSpaces(template, order, salts) ==
    [n \in Namespaces |->
        IF template.namespaces[n] = Absent THEN Absent
        ELSE [j \in 1 .. Len(order[n]) |-> issueItem(template, order, salts, n, j)]]

\* The digest of the j-th item is kept under the identifier j - 1.
issuedDigests(template, order, salts) ==
    [n \in Namespaces |->
        IF template.namespaces[n] = Absent THEN Absent
        ELSE [id \in DigestIDs |->
                IF id + 1 \in 1 .. Len(order[n])
                THEN Hash(digestAlgOf(template), issueItem(template, order, salts, n, id + 1))
                ELSE Absent]]

issuedMSO(template, deviceKey, order, salts) ==
    [version |-> "1.0", digestAlgorithm |-> digestAlgOf(template),
     valueDigests |-> issuedDigests(template, order, salts),
     deviceKey |-> encodeCOSEKey(deviceKey).val, docType |-> template.docType,
     validityInfo |-> encodeValidity(template.validityInfo),
     status |-> IF template.status = Absent THEN Absent ELSE [statusList |-> template.status]]

\* Mutant of issueErr: a value without an encoding is skipped over.
issueErr_AnyValue(template, deviceKey) ==
    IF template.docType = Absent THEN {"ErrUnsupported"}
    ELSE IF hashForMSODigestAlg(digestAlgOf(template)) # {}
    THEN hashForMSODigestAlg(digestAlgOf(template))
    ELSE IF deviceKey.type # "ecdsa" THEN {"ErrUnsupported"}
    ELSE encodeCOSEKey(deviceKey).err

\* The checks of Issue; an incoherent window, an empty status uri or a window the
\* signer's certificate does not cover are not among them.
issueErr(template, deviceKey) ==
    IF template.docType = Absent THEN {"ErrUnsupported"}
    ELSE IF hashForMSODigestAlg(digestAlgOf(template)) # {}
    THEN hashForMSODigestAlg(digestAlgOf(template))
    ELSE IF deviceKey.type # "ecdsa" THEN {"ErrUnsupported"}
    ELSE IF encodeCOSEKey(deviceKey).err # {} THEN encodeCOSEKey(deviceKey).err
    ELSE IF \E n \in KeysOf(template.namespaces) :
                \E e \in Elements : template.namespaces[n][e] = Malformed
    THEN {"ErrMalformed"}
    ELSE {}

\* Issuer.Issue with this order and these salts.
Issue(issuer, template, deviceKey, order, salts) ==
    IF issueErr(template, deviceKey) # {} THEN Err(issueErr(template, deviceKey))
    ELSE LET issuerAuth == signCOSEWithX5Chain(issuer,
                                issuedMSO(template, deviceKey, order, salts)) IN
         IF issuerAuth.err # {} THEN issuerAuth
         ELSE Ok([nameSpaces |-> issuedNameSpaces(template, order, salts),
                  issuerAuth |-> issuerAuth.val])

-----------------------------------------------------------------------------
(* DevicePresent *)

\* The docType of the MSO in an issuerAuth nobody has verified.
docTypeFromIssuerAuth(issuerAuth) ==
    IF coseParts(issuerAuth).err # {} THEN coseParts(issuerAuth)
    ELSE IF issuerAuth.payload \in {Absent, Malformed} THEN Err({"ErrMalformed"})
    ELSE Ok(issuerAuth.payload.docType)

\* The items at these positions, in order: a set of one sequence.
ItemsAt(items, kept) ==
    {[p \in DOMAIN o |-> items[o[p]]] :
        o \in {o \in Orders(kept) : \A p, q \in DOMAIN o : p < q => o[p] < o[q]}}

\* Mutant of keptItems: an identifier stays wanted after its first item.
keptItems_Repeated(items, want) ==
    ItemsAt(items, {j \in 1 .. Len(items) : items[j].elementIdentifier \in want})

\* The items kept of one namespace: the first of each wanted identifier.
keptItems(items, want) ==
    ItemsAt(items, {j \in 1 .. Len(items) :
        /\ items[j].elementIdentifier \in want
        /\ \A l \in 1 .. j - 1 : items[l].elementIdentifier # items[j].elementIdentifier})

\* What selectDisclosed objects to in namespace n.
disclosureErr(nameSpaces, disclose, n) ==
    IF nameSpaces[n] = Absent THEN {"ErrUnsupported"}
    ELSE IF \E j \in 1 .. Len(nameSpaces[n]) : nameSpaces[n][j] = Malformed
    THEN {"ErrMalformed"}
    ELSE IF \E e \in disclose[n] :
                \A j \in 1 .. Len(nameSpaces[n]) : nameSpaces[n][j].elementIdentifier # e
    THEN {"ErrUnsupported"}
    ELSE {}

\* The possible results of selectDisclosed: it ranges over the requested namespaces
\* in any order and fails at the first one with a fault.
selectDisclosed(nameSpaces, disclose) ==
    LET faulty == {n \in KeysOf(disclose) : disclosureErr(nameSpaces, disclose, n) # {}}
        Lists(n) == IF disclose[n] = Absent THEN {Absent}
                    ELSE keptItems(nameSpaces[n], disclose[n])
    IN  IF faulty # {} THEN {Err(disclosureErr(nameSpaces, disclose, n)) : n \in faulty}
        ELSE {Ok(d) : d \in {d \in [Namespaces -> UNION {Lists(n) : n \in Namespaces}] :
                                \A n \in Namespaces : d[n] \in Lists(n)}}

\* The detached signature over DeviceAuthentication.
deviceSignature(device, docType, st) ==
    LET signed == SignCOSESign1(device.ok, device.key,
                        DeviceAuthentication(st, docType, EmptyDeviceNameSpaces))
    IN  IF signed.err # {} THEN signed ELSE detachCOSEPayload(signed.val)

\* The possible results of DevicePresent.
DevicePresent(device, issuerSigned, disclose, st) ==
    IF issuerSigned = Malformed THEN {Err({"ErrMalformed"})}
    ELSE LET docType == docTypeFromIssuerAuth(issuerSigned.issuerAuth) IN
         IF docType.err # {} THEN {docType}
         ELSE LET signature == deviceSignature(device, docType.val, st)
                  Present(disclosed) ==
                    IF disclosed.err # {} THEN disclosed
                    ELSE IF signature.err # {} THEN signature
                    ELSE Ok([version |-> "1.0", documentErrors |-> FALSE, status |-> 0,
                             documents |-> << [docType |-> docType.val,
                                nameSpaces |-> disclosed.val,
                                issuerAuth |-> issuerSigned.issuerAuth,
                                deviceNameSpaces |-> EmptyDeviceNameSpaces,
                                deviceSignature |-> signature.val,
                                deviceMac |-> FALSE] >>])
              IN {Present(d) : d \in selectDisclosed(issuerSigned.nameSpaces, disclose)}
=============================================================================
