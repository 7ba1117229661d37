----------------------------- MODULE Acceptance -----------------------------
(***************************************************************************)
(* What it means for a presented document to deserve acceptance, said of   *)
(* the data alone: no order of checks, no early return, no error. These    *)
(* predicates are what verify.go's doc comments promise of a document that *)
(* Verify returns (ISO/IEC 18013-5 9.1.2, 9.1.3, 9.3.1).                   *)
(***************************************************************************)
EXTENDS MdocData

\* A COSE_Sign1 that key made over payload under an allowed algorithm.
SignedBy(cose, key, payload) ==
    /\ cose # Malformed /\ cose.len = 4
    /\ cose.protected \notin {Absent, Malformed}
    /\ cose.protected.alg = "ES256"
    /\ cose.signature = Sign(key, cose.protected, payload)

\* The chain a COSE header pair carries, as a set of at most one; the unprotected
\* header has precedence.
Carried(cose) ==
    LET InHeader(h) == h \notin {Absent, Malformed} /\ h.x5chain # Absent
    IN  IF InHeader(cose.unprotected) THEN {cose.unprotected.x5chain}
        ELSE IF InHeader(cose.protected) THEN {cose.protected.x5chain}
        ELSE {}

\* A time the leaf of the chain was valid at.
InLeafWindow(chain, t) ==
    /\ chain \notin {Absent, Malformed, <<>>}
    /\ chain[1] # Malformed
    /\ chain[1].notBefore <= t /\ t <= chain[1].notAfter

\* The question a document poses to the trust layer: the chain it carries and the
\* time it claims to be signed at, which that chain's leaf covers.
Poses(d, q) ==
    /\ d.issuerAuth # Malformed /\ d.issuerAuth.len = 4
    /\ q.x5chain \in Carried(d.issuerAuth)
    /\ d.issuerAuth.payload \notin {Absent, Malformed}
    /\ q.signed = d.issuerAuth.payload.validityInfo.signed
    /\ q.signed # 0
    /\ InLeafWindow(q.x5chain, q.signed)

\* A document that the trust layer can be asked about: it is of the expected type and
\* poses a question.
Askable(d, in) ==
    /\ in.ExpectedDocType \in {Absent, d.docType}
    /\ d.issuerAuth # Malformed /\ d.issuerAuth.len = 4
    /\ d.issuerAuth.payload \notin {Absent, Malformed}
    /\ d.issuerAuth.payload.validityInfo.signed # 0
    /\ \E chain \in Carried(d.issuerAuth) :
            InLeafWindow(chain, d.issuerAuth.payload.validityInfo.signed)

\* The key the trust layer vouched for signed the presented MSO, which names the
\* document's own docType and an allowed digest algorithm.
IssuerAuthentic(d, a) ==
    /\ a.err = {} /\ a.val \in Keys
    /\ SignedBy(d.issuerAuth, a.val, d.issuerAuth.payload)
    /\ d.issuerAuth.payload.docType = d.docType
    /\ d.issuerAuth.payload.digestAlgorithm # "SHA-1"

ValidAt(vi, t) ==
    /\ vi.validFrom # 0 /\ vi.validFrom < vi.validUntil
    /\ vi.validFrom <= t /\ t <= vi.validUntil

\* The MSO seals a usable EC key.
SealedKey(mso, key) ==
    /\ mso.deviceKey # Malformed
    /\ mso.deviceKey.kty = "EC2"
    /\ mso.deviceKey.crv \in {1, 2, 3}
    /\ mso.deviceKey.pt = key
    /\ key \in Keys

\* The MSO seals the digest of these very bytes under the item's own digestID.
ItemSealed(item, mso, n) ==
    /\ mso.valueDigests[n] # Absent
    /\ item # Malformed
    /\ mso.valueDigests[n][item.digestID] = [alg |-> mso.digestAlgorithm, over |-> item]
    /\ item.elementValue # Malformed

ItemsSealed(d) ==
    \A n \in KeysOf(d.nameSpaces) :
        /\ d.issuerAuth.payload.valueDigests[n] # Absent
        /\ \A j \in 1 .. Len(d.nameSpaces[n]) :
                ItemSealed(d.nameSpaces[n][j], d.issuerAuth.payload, n)

\* The holder of the sealed key signed this document for this session.
BoundToSession(d, key, st) ==
    /\ ~d.deviceMac
    /\ st # Absent /\ d.deviceSignature # Absent
    /\ SignedBy(d.deviceSignature, key, DeviceAuthentication(st, d.docType, d.deviceNameSpaces))

StatusReadable(mso) ==
    mso.status # Absent =>
        /\ mso.status # Malformed
        /\ mso.status.statusList # Absent
        /\ mso.status.statusList.uri # Absent

\* m holds exactly the elements of the first n items; of items that repeat an
\* identifier the last one counts.
Discloses(m, items, n) ==
    /\ KeysOf(m) = {items[j].elementIdentifier : j \in 1 .. n}
    /\ \A j \in 1 .. n :
        (\A l \in j + 1 .. n : items[l].elementIdentifier # items[j].elementIdentifier)
            => m[items[j].elementIdentifier] = items[j].elementValue

\* The VerifiedDocument that stands for d.
Reports(vd, d) ==
    /\ vd.docType = d.docType
    /\ KeysOf(vd.namespaces) = KeysOf(d.nameSpaces)
    /\ \A n \in KeysOf(d.nameSpaces) :
            Discloses(vd.namespaces[n], d.nameSpaces[n], Len(d.nameSpaces[n]))
    /\ vd.validityInfo = d.issuerAuth.payload.validityInfo
    /\ vd.deviceKey = d.issuerAuth.payload.deviceKey.pt
    /\ (vd.status = Absent) = (d.issuerAuth.payload.status = Absent)
    /\ vd.status # Absent => vd.status.raw = d.issuerAuth.payload.status
    /\ vd.msoDigestAlg = d.issuerAuth.payload.digestAlgorithm

\* Everything the checks of one document are for; a is the trust layer's entry.
Acceptable(d, in, t, a) ==
    /\ in.ExpectedDocType \in {Absent, d.docType}
    /\ Poses(d, a.question)
    /\ IssuerAuthentic(d, a.answer)
    /\ ValidAt(d.issuerAuth.payload.validityInfo, t)
    /\ SealedKey(d.issuerAuth.payload, d.issuerAuth.payload.deviceKey.pt)
    /\ ItemsSealed(d)
    /\ BoundToSession(d, d.issuerAuth.payload.deviceKey.pt, in.SessionTranscript)
    /\ StatusReadable(d.issuerAuth.payload)

\* A response the wallet did not flag, with something in it.
WellFormedResponse(in) ==
    /\ in.IssuerTrust
    /\ in.DeviceResponse # Malformed
    /\ in.DeviceResponse.version # Absent
    /\ in.DeviceResponse.status = 0
    /\ ~in.DeviceResponse.documentErrors
    /\ in.DeviceResponse.documents # <<>>
=============================================================================
