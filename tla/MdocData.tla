------------------------------ MODULE MdocData ------------------------------
(***************************************************************************)
(* The data of the package: the structures of model.go as the hardened     *)
(* decoder delivers them, and the error sentinels of errors.go.            *)
(*                                                                         *)
(* Bytes kept raw by the code (cbor.RawMessage) are modelled by what       *)
(* decoding them yields: the value, Malformed when the decoder refuses     *)
(* them, Absent when there are none (nil, an omitted member, an empty      *)
(* string). An error is the set of sentinels errors.Is finds in it, since  *)
(* the code wraps several with %w; {} is the nil error.                    *)
(***************************************************************************)
EXTENDS Naturals, Sequences

CONSTANTS
    Malformed,      \* bytes the decoder refuses
    Absent,         \* nil, empty or omitted
    DocTypes,       \* document types
    Namespaces,     \* names of namespaces
    Elements,       \* element identifiers
    Values,         \* decoded data element values
    DigestIDs,      \* digest identifiers
    Wires,          \* what an item's bytes hold beyond the members read here:
                    \*   the salt, the member order, integer widths
    Keys,           \* public keys
    Transcripts     \* encoded, non-empty SessionTranscripts

ASSUME SentinelValues ==
    /\ Malformed # Absent
    /\ {Malformed, Absent} \cap (DocTypes \cup Values \cup Keys \cup Transcripts \cup Nat) = {}

Opt(S) == S \cup {Absent}
Raw(S) == S \cup {Malformed}

\* Go maps: the value of a key that is not in the map is Absent.
MapOf(K, V) == [K -> Opt(V)]
EmptyMap(K) == [x \in K |-> Absent]
KeysOf(m) == {x \in DOMAIN m : m[x] # Absent}

\* time.Time in ticks; 0 is the zero time (IsZero).
Time == Nat

DigestAlgs == {"SHA-256", "SHA-384", "SHA-512", "SHA-1"}

\* IssuerSignedItemBytes, with the elementValue still raw inside.
IssuerSignedItem == [wire: Wires, digestID: DigestIDs, elementIdentifier: Elements,
                     elementValue: Raw(Values)]
ItemBytes == Raw(IssuerSignedItem)

\* A digest is determined by the algorithm and the exact bytes, and by nothing
\* less: collision resistance, taken as injectivity.
Hash(alg, bytes) == [alg |-> alg, over |-> bytes]
Digest == [alg: DigestAlgs, over: ItemBytes]

ValidityInfo == [signed: Time, validFrom: Time, validUntil: Time]

\* COSE_Key: kty is EC2 or not; the curve label; pt is the point the coordinates
\* give, Malformed when they do not decode, are too long or lie off the curve.
DeviceKeyMap == [kty: {"EC2", "other"}, crv: Raw(0 .. 4), pt: Raw(Keys)]
DeviceKeyBytes == Raw(DeviceKeyMap)

\* The MSO status member: a map with or without status_list.
StatusMap == [statusList: Opt([uri: Opt({"uri"}), idx: Opt(Nat)])]
StatusBytes == Opt(Raw(StatusMap))
StatusRef == [uri: {"uri"}, idx: Nat, raw: StatusBytes]

\* nil is no map, no digest, no *StatusRef and no list, not even an empty one.
ASSUME SentinelRecords ==
    Absent \notin StatusRef \cup MapOf(Elements, Values) \cup Digest \cup {<<>>}

MobileSecurityObject ==
    [version: {"1.0", "2.0"}, digestAlgorithm: DigestAlgs,
     valueDigests: MapOf(Namespaces, MapOf(DigestIDs, Digest)),
     deviceKey: DeviceKeyBytes, docType: Opt(DocTypes),
     validityInfo: ValidityInfo, status: StatusBytes]

\* A certificate of the x5chain, as x509.ParseCertificate reads it.
Cert == Raw([subject: Keys, notBefore: Time, notAfter: Time])

\* The x5chain header value: a bstr or an array of bstr. An empty array is <<>>.
X5Value == Opt(Raw(Seq(Cert)))

\* Mutant of DeviceAuthentication: the session transcript is not covered.
DeviceAuthentication_NoTranscript(st, docType, ns) ==
    [context |-> "DeviceAuthentication", sessionTranscript |-> Absent,
     docType |-> docType, deviceNameSpaces |-> ns]

\* The bytes a device signs: DeviceAuthentication of ISO/IEC 18013-5 9.1.3.4.
DeviceAuthentication(st, docType, ns) ==
    [context |-> "DeviceAuthentication", sessionTranscript |-> st,
     docType |-> docType, deviceNameSpaces |-> ns]

\* The header maps. A protected header that is an empty bstr is Absent, one that is
\* not a bstr at all Malformed; an unprotected one that is no map is Malformed.
ProtectedMap == [alg: {"ES256", "none"}, x5chain: X5Value]
UnprotectedMap == [x5chain: X5Value]
Protected == Opt(Raw(ProtectedMap))
Unprotected == Opt(Raw(UnprotectedMap))

\* Signatures are ideal: one names the key that made it and what it covers.
Sign(key, protected, payload) == [key |-> key, protected |-> protected, payload |-> payload]

Signature(P) == Raw([key: Keys, protected: Protected, payload: Opt(Raw(P))])

\* A COSE_Sign1 with payload in P: len is the number of array elements.
COSEArray(P) ==
    [tagged: BOOLEAN, len: Nat, protected: Protected, unprotected: Unprotected,
     payload: Opt(Raw(P)), signature: Signature(P)]
COSESign1(P) == Raw(COSEArray(P))

DeviceAuthentications ==
    {DeviceAuthentication(st, t, ns) :
        st \in Transcripts, t \in Opt(DocTypes), ns \in Opt(Values)}

\* What a device signs is there, and decodes.
ASSUME SentinelSigned == {Malformed, Absent} \cap DeviceAuthentications = {}

Document ==
    [docType: Opt(DocTypes),
     nameSpaces: MapOf(Namespaces, Seq(ItemBytes)),
     issuerAuth: COSESign1(MobileSecurityObject),
     deviceNameSpaces: Opt(Values),
     deviceSignature: Opt(COSESign1(DeviceAuthentications)),
     deviceMac: BOOLEAN]

\* documentErrors: whether the wallet listed any.
DeviceResponse ==
    [version: Opt({"1.0", "2.0"}), documents: Seq(Document),
     documentErrors: BOOLEAN, status: Nat]

VerifyInput ==
    [DeviceResponse: Raw(DeviceResponse), SessionTranscript: Opt(Transcripts),
     IssuerTrust: BOOLEAN, ExpectedDocType: Opt(DocTypes)]

VerifiedDocument ==
    [docType: Opt(DocTypes), namespaces: MapOf(Namespaces, MapOf(Elements, Values)),
     validityInfo: ValidityInfo, deviceKey: Keys, status: Opt(StatusRef),
     msoDigestAlg: DigestAlgs]

Sentinels ==
    {"ErrMalformed", "ErrUnsupported", "ErrIssuerAuth", "ErrIssuerCertValidity",
     "ErrIntegrity", "ErrDeviceAuth", "ErrValidity", "ErrDocTypeMismatch",
     "ErrDeviceMacUnsupported", "ErrDigestAlg", "ErrStatus", "ErrDeviceResponseStatus"}

\* Sentinels of go-eudi-crypto that the package's errors wrap.
CryptoSentinels == {"ErrVerificationFailed", "ErrAlgNotAllowed"}
=============================================================================
