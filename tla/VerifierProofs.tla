--------------------------- MODULE VerifierProofs ---------------------------
(***************************************************************************)
(* TLAPS proofs about Verifier: what each check establishes when it        *)
(* returns no error, and the safety properties that follow for every       *)
(* choice of the constants.                                                *)
(***************************************************************************)
EXTENDS VerifierProperties, TLAPS

-----------------------------------------------------------------------------
(* What the checks establish. *)

\* coseParts gives the four elements of a well-formed COSE_Sign1.
LEMMA PartsOf ==
    ASSUME NEW raw, coseParts(raw).err = {}
    PROVE  /\ raw # Malformed /\ raw.len = 4
           /\ coseParts(raw).val.protected = raw.protected
           /\ coseParts(raw).val.unprotected = raw.unprotected
           /\ coseParts(raw).val.payload = raw.payload
           /\ coseParts(raw).val.signature = raw.signature
BY DEF coseParts, Ok, Err

\* x5chainFrom returns the chain the headers carry.
LEMMA ChainOf ==
    ASSUME NEW raw, coseParts(raw).err = {},
           x5chainFrom(coseParts(raw).val).err = {}
    PROVE  /\ x5chainFrom(coseParts(raw).val).val \in Carried(raw)
           /\ x5chainFrom(coseParts(raw).val).val \notin {Absent, Malformed, <<>>}
  <1> DEFINE parts == coseParts(raw).val
  <1>1. parts.unprotected = raw.unprotected /\ parts.protected = raw.protected
    BY PartsOf
  <1>2. ASSUME NEW h, x5chainFromMap(h).err = {}
        PROVE  \/ x5chainFromMap(h).val = Absent /\ (h \in {Absent, Malformed} \/ h.x5chain = Absent)
               \/ /\ h \notin {Absent, Malformed} /\ x5chainFromMap(h).val = h.x5chain
                  /\ h.x5chain \notin {Absent, Malformed, <<>>}
    BY <1>2 DEF x5chainFromMap, Ok, Err
  <1> HIDE DEF parts
  <1>3. CASE x5chainFromMap(parts.unprotected).err # {} \/ x5chainFromMap(parts.unprotected).val # Absent
    BY <1>1, <1>2, <1>3 DEF x5chainFrom, Carried, parts
  <1>4. CASE ~(x5chainFromMap(parts.unprotected).err # {} \/ x5chainFromMap(parts.unprotected).val # Absent)
    <2>1. /\ parts.protected # Malformed
          /\ x5chainFromMap(parts.protected).err = {}
          /\ x5chainFrom(parts) = x5chainFromMap(parts.protected)
          /\ x5chainFromMap(parts.protected).val # Absent
      BY <1>4 DEF x5chainFrom, Ok, Err, parts
    <2> QED
      BY <1>1, <1>2, <1>4, <2>1 DEF Carried, parts
  <1> QED
    BY <1>3, <1>4

\* checkSignerWindow lets a time pass only inside the leaf's window.
LEMMA WindowOf ==
    ASSUME NEW chain \in Seq(Cert), chain \notin {Absent, Malformed, <<>>},
           NEW t \in Nat, checkSignerWindow(chain, t) = {}
    PROVE  InLeafWindow(chain, t)
  <1>1. chain[1] # Malformed /\ ~(t < chain[1].notBefore) /\ ~(t > chain[1].notAfter)
    BY DEF checkSignerWindow
  <1>2. chain[1].notBefore \in Nat /\ chain[1].notAfter \in Nat
    BY <1>1 DEF Cert, Raw, Time
  <1> QED
    BY <1>1, <1>2 DEF InLeafWindow

\* A document that gets as far as the trust layer poses the question it is asked
\* about, and the question is well typed.
LEMMA ClaimPoses ==
    ASSUME NEW d \in Document, issuerClaim(d.issuerAuth).err = {}
    PROVE  /\ Poses(d, issuerClaim(d.issuerAuth).val)
           /\ d.issuerAuth.payload \in MobileSecurityObject
           /\ issuerClaim(d.issuerAuth).val \in Question
  <1> DEFINE raw == d.issuerAuth
             parts == coseParts(raw)
             chain == x5chainFrom(parts.val)
             claimed == claimedSigningTime(parts.val.payload)
  <1>1. /\ parts.err = {} /\ chain.err = {} /\ claimed.err = {}
        /\ checkSignerWindow(chain.val, claimed.val) = {}
        /\ issuerClaim(raw).val = [x5chain |-> chain.val, signed |-> claimed.val]
    BY DEF issuerClaim, Ok, Err
  <1>2. /\ raw \in COSESign1(MobileSecurityObject)
        /\ raw # Malformed /\ raw.len = 4 /\ parts.val.payload = raw.payload
    BY <1>1, PartsOf DEF Document
  <1>0. raw.unprotected \in Unprotected /\ raw.protected \in Protected
        /\ raw.payload \in Opt(Raw(MobileSecurityObject))
    BY <1>2 DEF COSESign1, COSEArray, Raw
  <1>3. chain.val \in Carried(raw) /\ chain.val \notin {Absent, Malformed, <<>>}
    BY <1>1, ChainOf
  <1>4. /\ raw.payload \notin {Absent, Malformed}
        /\ claimed.val = raw.payload.validityInfo.signed
        /\ raw.payload.validityInfo.signed # 0
    BY <1>1, <1>2 DEF claimedSigningTime, Ok, Err
  <1>5. raw.payload \in MobileSecurityObject
    BY <1>0, <1>4 DEF Raw, Opt
  <1>6. raw.payload.validityInfo.signed \in Nat
    BY <1>5 DEF MobileSecurityObject, ValidityInfo, Time
  <1>7. chain.val \in Seq(Cert)
    BY <1>0, <1>3 DEF Carried, Unprotected, Protected, UnprotectedMap, ProtectedMap, X5Value, Raw, Opt
  <1>8. InLeafWindow(chain.val, claimed.val)
    <2> HIDE DEF chain, claimed
    <2> QED
      BY <1>1, <1>3, <1>4, <1>6, <1>7, WindowOf
  <1> QED
    BY <1>1, <1>2, <1>3, <1>4, <1>5, <1>6, <1>7, <1>8 DEF Poses, Question, Time
\* VerifyCOSESign1 accepts only what the key signed, and returns the payload; what
\* it says of the reassembled message holds of the message it was taken from.
LEMMA VerifiedIsSigned ==
    ASSUME NEW raw, coseParts(raw).err = {}, NEW pl, NEW key,
           VerifyCOSESign1(coseAssemble([coseParts(raw).val EXCEPT !.payload = pl]), key).err = {}
    PROVE  /\ SignedBy(raw, key, pl)
           /\ VerifyCOSESign1(coseAssemble([coseParts(raw).val EXCEPT !.payload = pl]), key).val = pl
  <1> DEFINE parts == [coseParts(raw).val EXCEPT !.payload = pl]
             cose == coseAssemble(parts)
  <1>1. /\ raw # Malformed /\ raw.len = 4
        /\ parts.protected = raw.protected /\ parts.payload = pl
        /\ parts.signature = raw.signature
    BY DEF coseParts, Ok, Err
  <1>2. cose.protected = raw.protected /\ cose.payload = pl /\ cose.signature = raw.signature
    BY <1>1 DEF coseAssemble
  <1> HIDE DEF cose
  <1>3. /\ cose.protected \notin {Absent, Malformed} /\ cose.protected.alg = "ES256"
        /\ cose.signature = Sign(key, cose.protected, cose.payload)
        /\ VerifyCOSESign1(cose, key).val = cose.payload
    BY DEF VerifyCOSESign1, Ok, Err, cose
  <1> QED
    BY <1>1, <1>2, <1>3 DEF SignedBy, cose

\* parseCOSEKey accepts only a sealed EC key.
LEMMA ParsedKey ==
    ASSUME NEW m \in MobileSecurityObject, parseCOSEKey(m.deviceKey).err = {}
    PROVE  /\ parseCOSEKey(m.deviceKey).val = m.deviceKey.pt
           /\ SealedKey(m, m.deviceKey.pt)
  <1>1. m.deviceKey \in DeviceKeyBytes
    BY DEF MobileSecurityObject
  <1>2. /\ m.deviceKey # Malformed /\ m.deviceKey.kty = "EC2"
        /\ m.deviceKey.crv # Malformed /\ curveForCOSELabel(m.deviceKey.crv) = {}
        /\ m.deviceKey.pt # Malformed
        /\ parseCOSEKey(m.deviceKey).val = m.deviceKey.pt
    BY DEF parseCOSEKey, Ok, Err
  <1>3. m.deviceKey.pt \in Keys /\ m.deviceKey.crv \in 0 .. 4
    BY <1>1, <1>2 DEF DeviceKeyBytes, DeviceKeyMap, Raw
  <1>4. m.deviceKey.crv \in {1, 2, 3}
    BY <1>2, <1>3 DEF curveForCOSELabel
  <1> QED
    BY <1>2, <1>3, <1>4 DEF SealedKey

\* checkValidity lets an instant pass only inside a coherent window.
LEMMA WithinValidity ==
    ASSUME NEW vi \in ValidityInfo, NEW t \in Nat, checkValidity(vi, t) = {}
    PROVE  ValidAt(vi, t)
BY DEF checkValidity, ValidAt, ValidityInfo, Time

\* verifyIssuerAuth returns no error only for an MSO that the vouched-for key
\* signed, of an allowed digest algorithm, valid at t, with a usable device key.
LEMMA AuthenticatedMSO ==
    ASSUME NEW d \in Document, issuerClaim(d.issuerAuth).err = {},
           NEW a \in Answer, NEW t \in Nat, authenticateMSO(d.issuerAuth, a, t) = {}
    PROVE  /\ a.err = {} /\ a.val \in Keys
           /\ SignedBy(d.issuerAuth, a.val, d.issuerAuth.payload)
           /\ d.issuerAuth.payload.digestAlgorithm # "SHA-1"
           /\ ValidAt(d.issuerAuth.payload.validityInfo, t)
           /\ SealedKey(d.issuerAuth.payload, d.issuerAuth.payload.deviceKey.pt)
           /\ parseCOSEKey(d.issuerAuth.payload.deviceKey).val = d.issuerAuth.payload.deviceKey.pt
  <1> DEFINE raw == d.issuerAuth
             parts == coseParts(raw)
             payload == VerifyCOSESign1(coseAssemble(parts.val), a.val)
             m == raw.payload
  <1>1. parts.err = {}
    BY DEF issuerClaim, Err
  <1>2. parts.val = [parts.val EXCEPT !.payload = raw.payload]
    BY <1>1 DEF coseParts, Ok, Err
  <1>3. m \in MobileSecurityObject
    BY ClaimPoses
  <1>4. /\ a.err = {} /\ a.val # Absent
        /\ payload.err = {}
        /\ hashForMSODigestAlg(payload.val.digestAlgorithm) = {}
        /\ checkValidity(payload.val.validityInfo, t) = {}
        /\ parseCOSEKey(payload.val.deviceKey).err = {}
    <2> HIDE DEF payload
    <2>1. resolution(a) = {}
      BY DEF authenticateMSO
    <2>2. a.err = {} /\ a.val # Absent
      BY <2>1 DEF resolution
    <2> QED
      BY <2>1, <2>2 DEF authenticateMSO, payload
  <1>5. SignedBy(raw, a.val, m) /\ payload.val = m
    <2>1. payload = VerifyCOSESign1(coseAssemble([parts.val EXCEPT !.payload = m]), a.val)
      BY <1>2
    <2> HIDE DEF payload, m
    <2>2. VerifyCOSESign1(coseAssemble([parts.val EXCEPT !.payload = m]), a.val).err = {}
      BY <1>4, <2>1
    <2> HIDE DEF raw
    <2> QED
      BY <1>1, <2>1, <2>2, VerifiedIsSigned
  <1>6. a.val \in Keys
    BY <1>4 DEF Answer, Opt
  <1>7. m.digestAlgorithm # "SHA-1"
    BY <1>4, <1>5 DEF hashForMSODigestAlg
  <1>8. ValidAt(m.validityInfo, t)
    BY <1>3, <1>4, <1>5, WithinValidity DEF MobileSecurityObject
  <1>9. SealedKey(m, m.deviceKey.pt) /\ parseCOSEKey(m.deviceKey).val = m.deviceKey.pt
    BY <1>3, <1>4, <1>5, ParsedKey
  <1> QED
    BY <1>4, <1>5, <1>6, <1>7, <1>8, <1>9

\* checkItem accepts only items sealed by the MSO, and decodes their value.
LEMMA CheckedItem ==
    ASSUME NEW m, NEW n, m.valueDigests[n] # Absent, NEW item \in ItemBytes,
           checkItem(item, m.valueDigests[n], m.digestAlgorithm) = {}
    PROVE  /\ ItemSealed(item, m, n)
           /\ item.elementIdentifier \in Elements /\ item.elementValue \in Values
  <1>1. /\ item # Malformed /\ item.elementValue # Malformed
        /\ m.valueDigests[n][item.digestID] = Hash(m.digestAlgorithm, item)
    BY DEF checkItem
  <1>2. item \in IssuerSignedItem
    BY <1>1 DEF ItemBytes, Raw
  <1> QED
    BY <1>1, <1>2 DEF ItemSealed, Hash, IssuerSignedItem, Raw

\* verifyDeviceAuth accepts only a document bound to the caller's transcript.
LEMMA DeviceBound ==
    ASSUME NEW d, NEW key, NEW st, verifyDeviceAuth(d, key, st) = {}
    PROVE  BoundToSession(d, key, st)
  <1> DEFINE sig == d.deviceSignature
             pl == DeviceAuthentication(st, d.docType, d.deviceNameSpaces)
             spliced == spliceCOSEPayload(sig, pl)
  <1>1. ~d.deviceMac /\ sig # Absent /\ st # Absent
    BY DEF verifyDeviceAuth
  <1>2. spliced.err = {} /\ VerifyCOSESign1(spliced.val, key).err = {}
    <2> HIDE DEF spliced
    <2> QED
      BY <1>1 DEF verifyDeviceAuth, spliced
  <1>3. /\ coseParts(sig).err = {}
        /\ spliced.val = coseAssemble([coseParts(sig).val EXCEPT !.payload = pl])
    <2> HIDE DEF pl
    <2> QED
      BY <1>2 DEF spliceCOSEPayload, Ok
  <1>4. SignedBy(sig, key, pl)
    <2> HIDE DEF pl, sig, spliced
    <2> QED
      BY <1>2, <1>3, VerifiedIsSigned
  <1> QED
    BY <1>1, <1>4 DEF BoundToSession

\* parseMSOStatus accepts only a readable status.
LEMMA StatusParsed ==
    ASSUME NEW m \in MobileSecurityObject, parseMSOStatus(m.status).err = {}
    PROVE  /\ StatusReadable(m)
           /\ parseMSOStatus(m.status).val \in Opt(StatusRef)
           /\ (parseMSOStatus(m.status).val = Absent) = (m.status = Absent)
           /\ m.status # Absent => parseMSOStatus(m.status).val.raw = m.status
  <1>1. m.status \in StatusBytes
    BY DEF MobileSecurityObject
  <1>2. CASE m.status = Absent
    BY <1>2 DEF StatusReadable, parseMSOStatus, Ok, Opt
  <1>3. CASE m.status # Absent
    <2>1. /\ m.status # Malformed /\ m.status.statusList # Absent
          /\ m.status.statusList.uri # Absent
      BY <1>3 DEF parseMSOStatus, Err
    <2>2. m.status.statusList \in [uri: Opt({"uri"}), idx: Opt(Nat)]
      BY <1>1, <1>3, <2>1 DEF StatusBytes, StatusMap, Opt, Raw
    <2> QED
      BY <1>1, <1>3, <2>1, <2>2, SentinelRecords
      DEF StatusReadable, parseMSOStatus, Ok, Opt, StatusRef
  <1> QED
    BY <1>2, <1>3
-----------------------------------------------------------------------------
(* The item loop. *)

\* Before the first item nothing is disclosed.
LEMMA DisclosesNone ==
    ASSUME NEW list
    PROVE  Discloses(EmptyMap(Elements), list, 0)
BY DEF Discloses, EmptyMap, KeysOf

\* One more item: its element is added, or replaces the one of the same identifier.
LEMMA DisclosesNext ==
    ASSUME NEW m \in MapOf(Elements, Values), NEW list, NEW n \in Nat,
           Discloses(m, list, n),
           list[n + 1].elementIdentifier \in Elements, list[n + 1].elementValue \in Values
    PROVE  LET m2 == [m EXCEPT ![list[n + 1].elementIdentifier] = list[n + 1].elementValue]
           IN  m2 \in MapOf(Elements, Values) /\ Discloses(m2, list, n + 1)
  <1> DEFINE id(j) == list[j].elementIdentifier
             v == list[n + 1].elementValue
             m2 == [m EXCEPT ![id(n + 1)] = v]
  <1>1. m2 \in MapOf(Elements, Values)
    BY DEF MapOf, Opt
  <1>2. /\ m2[id(n + 1)] = v
        /\ \A e \in Elements : e # id(n + 1) => m2[e] = m[e]
        /\ DOMAIN m = Elements /\ DOMAIN m2 = Elements
    BY DEF MapOf
  <1>3. v # Absent
    BY SentinelValues
  <1>4. KeysOf(m2) = KeysOf(m) \cup {id(n + 1)}
    BY <1>2, <1>3 DEF KeysOf
  <1>5. KeysOf(m) = {id(j) : j \in 1 .. n}
    BY DEF Discloses
  <1>6. {id(j) : j \in 1 .. n + 1} = {id(j) : j \in 1 .. n} \cup {id(n + 1)}
    <2>1. 1 .. n + 1 = (1 .. n) \cup {n + 1}
      OBVIOUS
    <2> QED
      BY <2>1
  <1>7. ASSUME NEW j \in 1 .. n + 1, \A l \in j + 1 .. n + 1 : id(l) # id(j)
        PROVE  m2[id(j)] = list[j].elementValue
    <2>1. CASE j = n + 1
      BY <1>2, <2>1
    <2>2. CASE j # n + 1
      <3>1. j \in 1 .. n /\ n + 1 \in j + 1 .. n + 1 /\ j + 1 .. n \subseteq j + 1 .. n + 1
        BY <2>2
      <3>2. m[id(j)] = list[j].elementValue
        BY <1>7, <3>1 DEF Discloses
      <3>3. id(j) # id(n + 1)
        BY <1>7, <3>1
      <3>4. id(j) \in Elements
        BY <1>2, <1>5, <3>1 DEF KeysOf
      <3> QED
        BY <1>2, <3>2, <3>3, <3>4
    <2> QED
      BY <2>1, <2>2
  <1> QED
    BY <1>1, <1>4, <1>5, <1>6, <1>7 DEF Discloses

-----------------------------------------------------------------------------
(* The errors are sentinels and causes. *)

Reasons == Sentinels \cup CryptoSentinels \cup TrustErrors

\* Every check returns known reasons only.
LEMMA ChecksNameReasons ==
    ASSUME NEW x, NEW y, NEW z
    PROVE  /\ DecodeDeviceResponse(x) \subseteq Reasons
           /\ checkItem(x, y, z) \subseteq Reasons
           /\ checkDocType(x, y) \subseteq Reasons
           /\ parseMSOStatus(x).err \subseteq Reasons
           /\ checkValidity(x, y) \subseteq Reasons
           /\ checkSignerWindow(x, y) \subseteq Reasons
           /\ hashForMSODigestAlg(x) \subseteq Reasons
           /\ claimedSigningTime(x).err \subseteq Reasons
           /\ coseParts(x).err \subseteq Reasons
           /\ x5chainFromMap(x).err \subseteq Reasons
           /\ VerifyCOSESign1(x, y).err \subseteq Reasons
           /\ curveForCOSELabel(x) \subseteq Reasons
  <1> USE DEF Reasons, Sentinels, CryptoSentinels, Ok, Err
  <1>1. DecodeDeviceResponse(x) \subseteq Reasons
    BY DEF DecodeDeviceResponse
  <1>2. checkItem(x, y, z) \subseteq Reasons
    BY DEF checkItem
  <1>3. checkDocType(x, y) \subseteq Reasons
    BY DEF checkDocType
  <1>4. parseMSOStatus(x).err \subseteq Reasons
    BY DEF parseMSOStatus
  <1>5. checkValidity(x, y) \subseteq Reasons
    BY DEF checkValidity
  <1>6. checkSignerWindow(x, y) \subseteq Reasons
    BY DEF checkSignerWindow
  <1>7. hashForMSODigestAlg(x) \subseteq Reasons /\ curveForCOSELabel(x) \subseteq Reasons
    BY DEF hashForMSODigestAlg, curveForCOSELabel
  <1>8. claimedSigningTime(x).err \subseteq Reasons
    BY DEF claimedSigningTime
  <1>9. coseParts(x).err \subseteq Reasons
    BY DEF coseParts
  <1>10. x5chainFromMap(x).err \subseteq Reasons
    BY DEF x5chainFromMap
  <1>11. VerifyCOSESign1(x, y).err \subseteq Reasons
    BY DEF VerifyCOSESign1
  <1> QED
    BY <1>1, <1>2, <1>3, <1>4, <1>5, <1>6, <1>7, <1>8, <1>9, <1>10, <1>11

\* So do the functions that combine them.
LEMMA VerdictsNameReasons ==
    ASSUME NEW x, NEW y, NEW z, NEW a \in Answer
    PROVE  /\ issuerClaim(x).err \subseteq Reasons
           /\ authenticateMSO(x, a, y) \subseteq Reasons
           /\ verifyDeviceAuth(x, y, z) \subseteq Reasons
  <1>0. {"ErrMalformed"} \subseteq Reasons /\ {"ErrIssuerAuth"} \subseteq Reasons
        /\ {"ErrUnsupported"} \subseteq Reasons /\ {"ErrDeviceAuth"} \subseteq Reasons
        /\ {"ErrDeviceMacUnsupported"} \subseteq Reasons
    BY DEF Reasons, Sentinels
  <1>1. ASSUME NEW p PROVE x5chainFrom(p).err \subseteq Reasons
    BY <1>0, ChecksNameReasons DEF x5chainFrom, Err
  <1>2. issuerClaim(x).err \subseteq Reasons
    BY <1>0, <1>1, ChecksNameReasons DEF issuerClaim, Ok, Err
  <1>3. ASSUME NEW p PROVE parseCOSEKey(p).err \subseteq Reasons
    BY <1>0, ChecksNameReasons DEF parseCOSEKey, Ok, Err
  <1>4. resolution(a) \subseteq Reasons
    BY <1>0 DEF resolution, Answer, Reasons
  <1>5. authenticateMSO(x, a, y) \subseteq Reasons
    BY <1>0, <1>3, <1>4, ChecksNameReasons DEF authenticateMSO
  <1>6. ASSUME NEW p, NEW q PROVE spliceCOSEPayload(p, q).err \subseteq Reasons
    BY ChecksNameReasons DEF spliceCOSEPayload, Ok
  <1>7. verifyDeviceAuth(x, y, z) \subseteq Reasons
    BY <1>0, <1>6, ChecksNameReasons DEF verifyDeviceAuth
  <1> QED
    BY <1>2, <1>5, <1>7
-----------------------------------------------------------------------------
(* The inductive invariant. *)

\* Nothing has happened before the first call.
LEMMA InitIInv == Init => IInv
  <1> SUFFICES ASSUME Init PROVE IInv
    OBVIOUS
  <1> USE DEF Init
  <1>1. TypeOK
    BY DEF TypeOK, Time, PCs, Opt, MapOf, EmptyMap
  <1>2. Idle /\ NoErrorYet /\ InputRead /\ ResponseRead /\ DocumentsDone /\ DocumentRead
        /\ DocumentAnswered /\ DocumentGenuine /\ ItemsDone /\ DeviceDone /\ AllDone
    BY DEF Idle, NoErrorYet, InputRead, ResponseRead, DocumentsDone, DocumentRead,
        DocumentAnswered, DocumentGenuine, ItemsDone, DeviceDone, AllDone,
        Busy, Reading, Answered, Genuine, Accepted
  <1>3. TrustAskedInOrder /\ RefusalKeepsCause
    BY DEF TrustAskedInOrder, RefusalKeepsCause, TrustRefused
  <1> QED
    BY <1>1, <1>2, <1>3 DEF IInv

\* A check that fails ends the call with its reasons and nothing else.
LEMMA FailKeepsIInv ==
    ASSUME IInv, pc # "idle", NEW e, e \subseteq Reasons, e # {}, Fail(e),
           asked # <<>> /\ asked[Len(asked)].answer.err # {}
                => e = {"ErrIssuerAuth"} \cup asked[Len(asked)].answer.err
    PROVE  IInv'
  <1> USE DEF Fail, loop
  <1>1. TypeOK'
    BY DEF IInv, TypeOK, PCs, Reasons
  <1>2. /\ ~Busy' /\ ~Reading' /\ ~Answered' /\ ~Genuine' /\ ~Accepted'
        /\ pc' = "done"
    BY DEF Busy, Reading, Answered, Genuine, Accepted
  <1>3. /\ Idle' /\ NoErrorYet' /\ ResponseRead' /\ DocumentsDone' /\ DocumentRead'
        /\ DocumentAnswered' /\ DocumentGenuine' /\ ItemsDone' /\ DeviceDone' /\ AllDone'
    BY <1>2 DEF Idle, NoErrorYet, ResponseRead, DocumentsDone, DocumentRead,
        DocumentAnswered, DocumentGenuine, ItemsDone, DeviceDone, AllDone
  <1>4. InputRead'
    BY DEF IInv, InputRead
  <1>5. TrustAskedInOrder'
    BY DEF IInv, TrustAskedInOrder, documents
  <1>6. RefusalKeepsCause'
    BY DEF RefusalKeepsCause, TrustRefused
  <1> QED
    BY <1>1, <1>3, <1>4, <1>5, <1>6 DEF IInv

\* The input of a call is typed, and so is the document under way.
LEMMA DocumentTyped ==
    ASSUME IInv, Busy
    PROVE  /\ documents \in Seq(Document) /\ i \in Nat /\ i >= 1
           /\ Reading => doc \in Document /\ i \in 1 .. Len(documents)
  <1>1. in.DeviceResponse \in DeviceResponse
    BY DEF IInv, ResponseRead
  <1>2. documents \in Seq(Document)
    BY <1>1 DEF DeviceResponse, documents
  <1>3. i \in Nat /\ i >= 1
    BY DEF IInv, ResponseRead, TypeOK
  <1>4. Reading => i \in 1 .. Len(documents)
    BY <1>2, <1>3 DEF IInv, DocumentRead
  <1> QED
    BY <1>2, <1>3, <1>4 DEF doc

\* No earlier document was declined by the trust layer.
LEMMA NoRefusalBefore ==
    ASSUME IInv, pc \in {"document", "trust"}
    PROVE  asked # <<>> => asked[Len(asked)].answer.err = {}
  <1>1. Busy /\ ~Answered
    BY DEF Busy, Answered
  <1>2. Len(asked) = i - 1 /\ asked \in Seq([question: Question, answer: Answer])
    BY <1>1 DEF IInv, DocumentsDone, TypeOK
  <1>3. ASSUME asked # <<>> PROVE i - 1 \in 1 .. i - 1
    BY <1>1, <1>2, <1>3, DocumentTyped
  <1>4. ASSUME asked # <<>> PROVE Acceptable(documents[i - 1], in, at, asked[i - 1])
    BY <1>1, <1>3, <1>4 DEF IInv, DocumentsDone
  <1> QED
    BY <1>2, <1>4 DEF Acceptable, IssuerAuthentic

\* A new call starts with nothing established.
LEMMA StepCall ==
    ASSUME IInv, NEW input \in VerifyInput, Call(input)
    PROVE  IInv'
  <1> USE DEF Call, loop
  <1>1. TypeOK'
    BY DEF IInv, TypeOK, PCs, Opt
  <1>2. /\ ~Busy' /\ ~Reading' /\ ~Answered' /\ ~Genuine' /\ ~Accepted'
    BY DEF Busy, Reading, Answered, Genuine, Accepted
  <1>3. /\ Idle' /\ NoErrorYet' /\ ResponseRead' /\ DocumentsDone' /\ DocumentRead'
        /\ DocumentAnswered' /\ DocumentGenuine' /\ ItemsDone' /\ DeviceDone' /\ AllDone'
    BY <1>2 DEF IInv, Idle, NoErrorYet, ResponseRead, DocumentsDone, DocumentRead,
        DocumentAnswered, DocumentGenuine, ItemsDone, DeviceDone, AllDone
  <1>4. InputRead'
    BY DEF IInv, TypeOK, Time, InputRead
  <1>5. TrustAskedInOrder' /\ RefusalKeepsCause'
    BY DEF IInv, Idle, TrustAskedInOrder, RefusalKeepsCause, TrustRefused
  <1> QED
    BY <1>1, <1>3, <1>4, <1>5 DEF IInv

\* The argument checks reject, or leave a decoded response and the instant read.
LEMMA StepVerify == IInv /\ Verify => IInv'
  <1> SUFFICES ASSUME IInv, Verify PROVE IInv'
    OBVIOUS
  <1> DEFINE e == IF ~in.IssuerTrust THEN {"ErrUnsupported"}
                  ELSE DecodeDeviceResponse(in.DeviceResponse)
  <1>1. pc = "called" /\ asked = <<>> /\ out = <<>> /\ err = {}
    BY DEF IInv, Idle, NoErrorYet, Verify
  <1>2. CASE e # {}
    <2>1. e \subseteq Reasons
      BY ChecksNameReasons DEF Reasons, Sentinels
    <2> QED
      BY <1>1, <1>2, <2>1, FailKeepsIInv DEF Verify
  <1>3. CASE e = {}
    <2>1. /\ at' = clock /\ i' = 1 /\ pc' = "document"
          /\ UNCHANGED <<clock, in, answer, loop, out, err, began, asked>>
      BY <1>3 DEF Verify
    <2> USE <2>1 DEF loop
    <2>2. in \in VerifyInput /\ in.IssuerTrust /\ DecodeDeviceResponse(in.DeviceResponse) = {}
      BY <1>1, <1>3 DEF IInv, InputRead
    <2>3. in.DeviceResponse \in DeviceResponse
      BY <2>2 DEF DecodeDeviceResponse, VerifyInput, Raw
    <2>4. documents \in Seq(Document)
      BY <2>3 DEF DeviceResponse, documents
    <2>5. TypeOK'
      BY DEF IInv, TypeOK, PCs
    <2>6. /\ Busy' /\ ~Reading' /\ ~Answered' /\ ~Genuine' /\ ~Accepted'
      BY DEF Busy, Reading, Answered, Genuine, Accepted
    <2>7. Idle' /\ NoErrorYet' /\ InputRead' /\ ResponseRead'
      BY <1>1, <2>2, <2>3 DEF IInv, TypeOK, Time, Idle, NoErrorYet, InputRead, ResponseRead
    <2>8. DocumentsDone'
      BY <1>1, <2>4, <2>6 DEF DocumentsDone, documents
    <2>9. /\ DocumentRead' /\ DocumentAnswered' /\ DocumentGenuine' /\ ItemsDone'
          /\ DeviceDone' /\ AllDone'
      BY <2>6 DEF DocumentRead, DocumentAnswered, DocumentGenuine, ItemsDone, DeviceDone, AllDone
    <2>10. TrustAskedInOrder' /\ RefusalKeepsCause'
      BY <1>1 DEF TrustAskedInOrder, RefusalKeepsCause, TrustRefused
    <2> QED
      BY <2>5, <2>7, <2>8, <2>9, <2>10 DEF IInv
  <1> QED
    BY <1>2, <1>3

\* The head of the document loop rejects, or knows which question the document poses.
LEMMA StepNextDocument == IInv /\ NextDocument => IInv'
  <1> SUFFICES ASSUME IInv, NextDocument PROVE IInv'
    OBVIOUS
  <1> DEFINE e == IF in.ExpectedDocType # Absent /\ doc.docType # in.ExpectedDocType
                  THEN {"ErrDocTypeMismatch"}
                  ELSE issuerClaim(doc.issuerAuth).err
  <1>1. pc = "document" /\ i <= Len(documents)
    BY DEF NextDocument
  <1>2. CASE e # {}
    <2>1. e \subseteq Reasons
      <3>1. {"ErrDocTypeMismatch"} \subseteq Reasons
        BY DEF Reasons, Sentinels
      <3>2. Ok(Absent) \in Answer
        BY DEF Answer, Ok, Opt
      <3> QED
        BY <3>1, <3>2, VerdictsNameReasons
    <2>2. asked # <<>> => asked[Len(asked)].answer.err = {}
      BY <1>1, NoRefusalBefore
    <2>3. Fail(e)
      BY <1>2 DEF NextDocument
    <2> HIDE DEF e
    <2> QED
      BY <1>1, <1>2, <2>1, <2>2, <2>3, FailKeepsIInv
  <1>3. CASE e = {}
    <2>1. /\ pc' = "trust"
          /\ UNCHANGED <<clock, in, at, i, answer, loop, out, err, began, asked>>
      BY <1>3 DEF NextDocument
    <2> USE <2>1 DEF loop
    <2>2. TypeOK'
      BY DEF IInv, TypeOK, PCs
    <2>3. /\ Busy /\ Busy' /\ ~Answered /\ ~Answered' /\ ~Genuine' /\ ~Accepted'
      BY <1>1 DEF Busy, Answered, Genuine, Accepted
    <2>4. Idle' /\ NoErrorYet' /\ InputRead' /\ ResponseRead'
      BY <1>1, <2>3 DEF IInv, Idle, NoErrorYet, InputRead, ResponseRead
    <2>5. DocumentsDone'
      BY <2>3 DEF IInv, DocumentsDone, documents
    <2>6. DocumentRead'
      BY <1>1, <1>3 DEF DocumentRead, documents, doc
    <2>7. /\ DocumentAnswered' /\ DocumentGenuine' /\ ItemsDone' /\ DeviceDone' /\ AllDone'
      BY <2>3 DEF DocumentAnswered, DocumentGenuine, ItemsDone, DeviceDone, AllDone
    <2>8. TrustAskedInOrder' /\ RefusalKeepsCause'
      BY DEF IInv, TrustAskedInOrder, RefusalKeepsCause, TrustRefused, documents
    <2> QED
      BY <2>2, <2>4, <2>5, <2>6, <2>7, <2>8 DEF IInv
  <1> QED
    BY <1>2, <1>3

\* Any answer of the trust layer is recorded against the document it is about.
LEMMA StepResolveIssuerKey == IInv /\ ResolveIssuerKey => IInv'
  <1> SUFFICES ASSUME IInv, ResolveIssuerKey PROVE IInv'
    OBVIOUS
  <1> DEFINE q == issuerClaim(doc.issuerAuth).val
  <1>1. PICK a \in Answers : answer' = a /\ asked' = Append(asked, [question |-> q, answer |-> a])
    BY DEF ResolveIssuerKey
  <1>2. /\ pc = "trust" /\ pc' = "answered"
        /\ UNCHANGED <<clock, in, at, i, loop, out, err, began>>
    BY DEF ResolveIssuerKey
  <1> USE <1>2 DEF loop
  <1>3. /\ Busy /\ Busy' /\ Reading /\ Reading' /\ ~Answered /\ Answered'
        /\ ~Genuine' /\ ~Accepted'
    BY DEF Busy, Reading, Answered, Genuine, Accepted
  <1>4. a \in Answer
    BY DEF Answers, Answer, Ok, Err, Opt
  <1>5. doc \in Document /\ documents \in Seq(Document) /\ i \in 1 .. Len(documents)
    BY <1>3, DocumentTyped
  <1>6. Poses(doc, q) /\ q \in Question
    BY <1>3, <1>5, ClaimPoses DEF IInv, DocumentRead
  <1>7. asked \in Seq([question: Question, answer: Answer]) /\ Len(asked) = i - 1
    BY <1>3 DEF IInv, TypeOK, DocumentsDone
  <1>8. /\ asked' \in Seq([question: Question, answer: Answer]) /\ Len(asked') = i
        /\ asked'[i] = [question |-> q, answer |-> a]
        /\ \A j \in 1 .. i - 1 : asked'[j] = asked[j]
    <2> HIDE DEF q
    <2> QED
      BY <1>1, <1>4, <1>5, <1>6, <1>7
  <1>9. TypeOK'
    BY <1>1, <1>4, <1>8 DEF IInv, TypeOK, PCs, Opt
  <1>10. Idle' /\ NoErrorYet' /\ InputRead' /\ ResponseRead'
    BY <1>3 DEF IInv, Idle, NoErrorYet, InputRead, ResponseRead
  <1>11. DocumentsDone'
    BY <1>3, <1>8 DEF IInv, DocumentsDone, documents
  <1>12. DocumentRead'
    BY <1>3 DEF IInv, DocumentRead, documents, doc
  <1>13. DocumentAnswered'
    BY <1>1, <1>4, <1>8 DEF DocumentAnswered, documents, doc
  <1>14. DocumentGenuine' /\ ItemsDone' /\ DeviceDone' /\ AllDone' /\ RefusalKeepsCause'
    BY <1>3 DEF DocumentGenuine, ItemsDone, DeviceDone, AllDone, RefusalKeepsCause, TrustRefused
  <1>15. TrustAskedInOrder'
    <2>1. Len(asked') <= i'
      BY <1>5, <1>8
    <2>2. ASSUME NEW j \in 1 .. Len(asked')
          PROVE  /\ Poses(documents'[j], asked'[j].question)
                 /\ j < Len(asked') => asked'[j].answer.val \in Keys
      <3>1. CASE j = i
        BY <1>5, <1>6, <1>8, <3>1 DEF doc, documents
      <3>2. CASE j # i
        <4>1. j \in 1 .. i - 1
          BY <1>5, <1>8, <3>2
        <4>2. Acceptable(documents[j], in, at, asked[j])
          BY <1>3, <4>1 DEF IInv, DocumentsDone
        <4> QED
          BY <1>8, <4>1, <4>2 DEF Acceptable, IssuerAuthentic, documents
      <3> QED
        BY <3>1, <3>2
    <2> QED
      BY <2>1, <2>2 DEF TrustAskedInOrder
  <1> QED
    BY <1>9, <1>10, <1>11, <1>12, <1>13, <1>14, <1>15 DEF IInv

\* Once a document is answered for, its entry in the history is the answer.
LEMMA LastAnswer ==
    ASSUME IInv, Answered
    PROVE  /\ answer \in Answer /\ asked # <<>> /\ Len(asked) = i
           /\ asked[Len(asked)].answer = answer
           /\ asked[i].question = issuerClaim(doc.issuerAuth).val
           /\ doc \in Document /\ documents \in Seq(Document) /\ i \in 1 .. Len(documents)
           /\ issuerClaim(doc.issuerAuth).err = {}
           /\ mso \in MobileSecurityObject /\ at \in Nat
  <1>1. Busy /\ Reading
    BY DEF Answered, Busy, Reading
  <1>2. Len(asked) = i /\ asked \in Seq([question: Question, answer: Answer])
    BY <1>1 DEF IInv, DocumentsDone, TypeOK
  <1>3. doc \in Document /\ documents \in Seq(Document) /\ i \in 1 .. Len(documents)
    BY <1>1, DocumentTyped
  <1>4. answer \in Answer /\ asked[i] = [question |-> issuerClaim(doc.issuerAuth).val, answer |-> answer]
    BY DEF IInv, DocumentAnswered
  <1>5. issuerClaim(doc.issuerAuth).err = {}
    BY <1>1 DEF IInv, DocumentRead
  <1>6. mso \in MobileSecurityObject
    BY <1>3, <1>5, ClaimPoses DEF mso
  <1> QED
    BY <1>2, <1>3, <1>4, <1>5, <1>6 DEF IInv, TypeOK, Time

\* What is known of an authenticated document.
LEMMA GenuineDocument ==
    ASSUME IInv, Genuine
    PROVE  /\ answer.err = {} /\ Poses(doc, asked[i].question)
           /\ IssuerAuthentic(doc, asked[i].answer)
           /\ ValidAt(mso.validityInfo, at)
           /\ SealedKey(mso, mso.deviceKey.pt)
           /\ parseCOSEKey(mso.deviceKey).val = mso.deviceKey.pt
  <1>1. Answered
    BY DEF Genuine, Answered
  <1>2. authenticateMSO(doc.issuerAuth, answer, at) = {} /\ mso.docType = doc.docType
    BY DEF IInv, DocumentGenuine
  <1> HIDE DEF doc
  <1> QED
    BY <1>1, <1>2, LastAnswer, AuthenticatedMSO, ClaimPoses DEF mso, IssuerAuthentic

\* verifyIssuerAuth rejects, with the trust layer's cause if it had one, or leaves an
\* authenticated MSO and no namespace done.
LEMMA StepVerifyIssuerAuth == IInv /\ verifyIssuerAuth => IInv'
  <1> SUFFICES ASSUME IInv, verifyIssuerAuth PROVE IInv'
    OBVIOUS
  <1> DEFINE auth == authenticateMSO(doc.issuerAuth, answer, at)
             e == IF auth # {} THEN auth ELSE checkDocType(mso.docType, doc.docType)
  <1>1. pc = "answered" /\ Busy /\ Reading /\ Answered
    BY DEF verifyIssuerAuth, Busy, Reading, Answered
  <1>2. CASE e # {}
    <2>1. e \subseteq Reasons
      BY <1>1, LastAnswer, ChecksNameReasons, VerdictsNameReasons
    <2>2. answer.err # {} => e = {"ErrIssuerAuth"} \cup answer.err
      BY DEF authenticateMSO, resolution
    <2>3. Fail(e)
      BY <1>2 DEF verifyIssuerAuth
    <2> HIDE DEF e
    <2> QED
      BY <1>1, <1>2, <2>1, <2>2, <2>3, LastAnswer, FailKeepsIInv
  <1>3. CASE e = {}
    <2>1. /\ pc' = "integrity" /\ StartLoops(KeysOf(doc.nameSpaces))
          /\ UNCHANGED <<clock, in, at, i, answer, out, err, began, asked>>
          /\ auth = {} /\ checkDocType(mso.docType, doc.docType) = {}
      BY <1>3 DEF verifyIssuerAuth
    <2> HIDE DEF auth, e
    <2> USE <2>1 DEF StartLoops
    <2>2. KeysOf(doc.nameSpaces) \subseteq Namespaces
      BY <1>1, LastAnswer DEF Document, MapOf, KeysOf
    <2>3. TypeOK'
      BY <2>2 DEF IInv, TypeOK, PCs, Opt, MapOf, EmptyMap
    <2>4. /\ Busy' /\ Reading' /\ Answered' /\ Genuine' /\ ~Accepted'
      BY DEF Busy, Reading, Answered, Genuine, Accepted
    <2>5. Idle' /\ NoErrorYet' /\ InputRead' /\ ResponseRead'
      BY <1>1, <2>4 DEF IInv, Idle, NoErrorYet, InputRead, ResponseRead
    <2>6. DocumentsDone'
      BY <1>1, <2>4 DEF IInv, DocumentsDone, documents
    <2>7. DocumentRead' /\ DocumentAnswered'
      BY <1>1, <2>4 DEF IInv, DocumentRead, DocumentAnswered, documents, doc
    <2>8. KeysOf(namespaces') = {}
      BY DEF EmptyMap, KeysOf
    <2>9. doc' = doc /\ mso' = mso
      BY DEF doc, mso, documents
    <2>10. DocumentGenuine'
      BY <2>8, <2>9 DEF DocumentGenuine, checkDocType, auth
    <2>11. ItemsDone' /\ DeviceDone' /\ AllDone'
      BY <2>4 DEF ItemsDone, DeviceDone, AllDone
    <2>12. TrustAskedInOrder' /\ RefusalKeepsCause'
      BY DEF IInv, TrustAskedInOrder, RefusalKeepsCause, TrustRefused, documents
    <2> QED
      BY <2>3, <2>5, <2>6, <2>7, <2>10, <2>11, <2>12 DEF IInv
  <1> QED
    BY <1>2, <1>3

\* A step inside verifyIssuerIntegrity or verifyDeviceAuth touches only the loops;
\* everything said of the documents done and of the MSO stands.
LEMMA InsideDocument ==
    ASSUME IInv, Genuine, Genuine',
           UNCHANGED <<clock, in, at, i, answer, out, err, began, asked>>
    PROVE  /\ Idle' /\ NoErrorYet' /\ InputRead' /\ ResponseRead' /\ DocumentsDone'
           /\ DocumentRead' /\ DocumentAnswered' /\ AllDone'
           /\ TrustAskedInOrder' /\ RefusalKeepsCause'
           /\ doc' = doc /\ mso' = mso
           /\ authenticateMSO(doc.issuerAuth, answer, at) = {} /\ mso.docType = doc.docType
  <1>1. /\ Busy /\ Reading /\ Answered /\ Busy' /\ Reading' /\ Answered'
        /\ ~Accepted' /\ pc # "done" /\ pc' \notin {"idle", "called", "done"}
    BY DEF Busy, Reading, Answered, Genuine, Accepted
  <1>2. doc' = doc /\ mso' = mso /\ documents' = documents
    BY DEF doc, mso, documents
  <1>3. Idle' /\ NoErrorYet' /\ InputRead' /\ ResponseRead' /\ AllDone'
    BY <1>1 DEF IInv, Idle, NoErrorYet, InputRead, ResponseRead, AllDone
  <1>4. DocumentsDone'
    BY <1>1, <1>2 DEF IInv, DocumentsDone
  <1>5. DocumentRead' /\ DocumentAnswered'
    BY <1>1, <1>2 DEF IInv, DocumentRead, DocumentAnswered
  <1>6. TrustAskedInOrder' /\ RefusalKeepsCause'
    BY <1>1, <1>2 DEF IInv, TrustAskedInOrder, RefusalKeepsCause, TrustRefused
  <1> QED
    BY <1>2, <1>3, <1>4, <1>5, <1>6 DEF IInv, DocumentGenuine

\* A check that fails after the issuer was authenticated.
LEMMA FailInsideDocument ==
    ASSUME IInv, Genuine, NEW e, e \subseteq Reasons, e # {}, Fail(e)
    PROVE  IInv'
  <1>1. Answered /\ pc # "idle"
    BY DEF Answered, Genuine
  <1>2. asked[Len(asked)].answer.err = {}
    BY <1>1, LastAnswer, GenuineDocument
  <1> QED
    BY <1>1, <1>2, FailKeepsIInv

\* The namespaces of the document under way are typed.
LEMMA NamespaceTyped ==
    ASSUME IInv, Genuine, NEW n \in todo
    PROVE  n \in Namespaces /\ doc.nameSpaces[n] \in Seq(ItemBytes)
  <1>1. n \in KeysOf(doc.nameSpaces)
    BY DEF IInv, DocumentGenuine
  <1>2. doc.nameSpaces \in MapOf(Namespaces, Seq(ItemBytes))
    BY LastAnswer DEF Document, Answered, Genuine
  <1> QED
    BY <1>1, <1>2 DEF KeysOf, MapOf, Opt

\* A namespace is entered only if the MSO has digests for it.
LEMMA StepRangeNamespace == IInv /\ RangeNamespace => IInv'
  <1> SUFFICES ASSUME IInv, RangeNamespace PROVE IInv'
    OBVIOUS
  <1>1. pc = "integrity" /\ Genuine
    BY DEF RangeNamespace, Genuine
  <1>2. PICK n \in todo :
            \/ mso.valueDigests[n] = Absent /\ Fail({"ErrIntegrity"})
            \/ /\ mso.valueDigests[n] # Absent
               /\ cur' = n /\ k' = 1 /\ nsOut' = EmptyMap(Elements) /\ pc' = "items"
               /\ UNCHANGED <<clock, in, at, i, answer, todo, namespaces, out, err, began, asked>>
    BY DEF RangeNamespace
  <1>3. CASE Fail({"ErrIntegrity"})
    BY <1>1, <1>3, FailInsideDocument DEF Reasons, Sentinels
  <1>4. CASE mso.valueDigests[n] # Absent /\ ~Fail({"ErrIntegrity"})
    <2> USE <1>2, <1>4
    <2>1. Genuine' /\ pc' = "items"
      BY DEF Genuine
    <2>2. n \in Namespaces /\ doc.nameSpaces[n] \in Seq(ItemBytes)
      BY <1>1, NamespaceTyped
    <2>3. TypeOK'
      BY <2>2 DEF IInv, TypeOK, PCs, Opt, MapOf, EmptyMap
    <2>4. doc' = doc /\ mso' = mso /\ items' = doc.nameSpaces[n]
      BY DEF doc, mso, documents, items
    <2>5. DocumentGenuine'
      BY <1>1, <2>4 DEF IInv, DocumentGenuine, NamespaceDone
    <2>6. ItemsDone'
      BY <2>2, <2>4, DisclosesNone DEF ItemsDone
    <2>7. DeviceDone'
      BY DEF DeviceDone
    <2> QED
      BY <1>1, <2>1, <2>3, <2>5, <2>6, <2>7, InsideDocument DEF IInv
  <1> QED
    BY <1>2, <1>3, <1>4

\* An item is added to the namespace's map only after its digest matched.
LEMMA StepRangeItem == IInv /\ RangeItem => IInv'
  <1> SUFFICES ASSUME IInv, RangeItem PROVE IInv'
    OBVIOUS
  <1> DEFINE e == checkItem(items[k], mso.valueDigests[cur], mso.digestAlgorithm)
  <1>1. pc = "items" /\ Genuine /\ k <= Len(items)
    BY DEF RangeItem, Genuine
  <1>2. CASE e # {}
    BY <1>1, <1>2, ChecksNameReasons, FailInsideDocument DEF RangeItem
  <1>3. CASE e = {}
    <2>1. /\ nsOut' = [nsOut EXCEPT ![items[k].elementIdentifier] = items[k].elementValue]
          /\ k' = k + 1 /\ pc' = "items"
          /\ UNCHANGED <<clock, pc, in, at, i, answer, todo, cur, namespaces, out, err, began, asked>>
      BY <1>1, <1>3 DEF RangeItem
    <2> USE <2>1
    <2>2. /\ cur \in todo /\ mso.valueDigests[cur] # Absent
          /\ k \in 1 .. Len(items) + 1
          /\ \A j \in 1 .. k - 1 : ItemSealed(items[j], mso, cur)
          /\ Discloses(nsOut, items, k - 1)
      BY <1>1 DEF IInv, ItemsDone
    <2>3. items \in Seq(ItemBytes)
      BY <1>1, <2>2, NamespaceTyped DEF items
    <2>4. items[k] \in ItemBytes /\ k \in 1 .. Len(items) /\ (k - 1) + 1 = k
          /\ k - 1 \in Nat /\ k + 1 - 1 = k
      BY <1>1, <2>2, <2>3
    <2>5. /\ ItemSealed(items[k], mso, cur)
          /\ items[k].elementIdentifier \in Elements /\ items[k].elementValue \in Values
      BY <1>3, <2>2, <2>4, CheckedItem
    <2>6. nsOut \in MapOf(Elements, Values)
      BY DEF IInv, TypeOK
    <2>7. nsOut' \in MapOf(Elements, Values) /\ Discloses(nsOut', items, k)
      BY <2>2, <2>4, <2>5, <2>6, DisclosesNext
    <2>8. TypeOK'
      BY <2>2, <2>7 DEF IInv, TypeOK
    <2>9. doc' = doc /\ mso' = mso /\ items' = items
      BY DEF doc, mso, documents, items
    <2>10. DocumentGenuine'
      BY <1>1, <2>9 DEF IInv, DocumentGenuine, NamespaceDone, Genuine
    <2>11. ItemsDone'
      <3>1. k' \in 1 .. Len(items) + 1 /\ k' - 1 = k
        BY <2>4
      <3>2. \A j \in 1 .. k : ItemSealed(items[j], mso, cur)
        BY <2>2, <2>4, <2>5
      <3> QED
        BY <2>2, <2>7, <2>9, <3>1, <3>2 DEF ItemsDone
    <2>12. DeviceDone' /\ Genuine'
      BY DEF DeviceDone, Genuine
    <2> QED
      BY <1>1, <2>8, <2>10, <2>11, <2>12, InsideDocument DEF IInv
  <1> QED
    BY <1>2, <1>3

\* A namespace is done when all of its items are sealed and in its map.
LEMMA StepEndNamespace == IInv /\ EndNamespace => IInv'
  <1> SUFFICES ASSUME IInv, EndNamespace PROVE IInv'
    OBVIOUS
  <1> USE DEF EndNamespace
  <1>1. Genuine /\ Genuine'
    BY DEF Genuine
  <1>2. /\ cur \in todo /\ mso.valueDigests[cur] # Absent
        /\ k \in 1 .. Len(items) + 1
        /\ \A j \in 1 .. k - 1 : ItemSealed(items[j], mso, cur)
        /\ Discloses(nsOut, items, k - 1)
    BY DEF IInv, ItemsDone
  <1>3. cur \in Namespaces /\ items \in Seq(ItemBytes)
    BY <1>1, <1>2, NamespaceTyped DEF items
  <1>4. k - 1 = Len(items)
    BY <1>2, <1>3
  <1>5. /\ nsOut \in MapOf(Elements, Values) /\ nsOut # Absent
        /\ namespaces \in MapOf(Namespaces, MapOf(Elements, Values))
    BY SentinelRecords DEF IInv, TypeOK, MapOf, Opt
  <1>6. /\ namespaces' \in MapOf(Namespaces, MapOf(Elements, Values))
        /\ namespaces'[cur] = nsOut
        /\ \A n \in Namespaces : n # cur => namespaces'[n] = namespaces[n]
    BY <1>3, <1>5 DEF MapOf, Opt
  <1>7. KeysOf(namespaces') = KeysOf(namespaces) \cup {cur}
    BY <1>3, <1>5, <1>6 DEF KeysOf, MapOf
  <1>8. TypeOK'
    BY <1>6 DEF IInv, TypeOK, PCs
  <1>9. doc' = doc /\ mso' = mso
    BY DEF doc, mso, documents
  <1>10. /\ todo \subseteq KeysOf(doc.nameSpaces)
         /\ KeysOf(namespaces) = KeysOf(doc.nameSpaces) \ todo
         /\ \A n \in KeysOf(namespaces) : NamespaceDone(n)
    BY <1>1 DEF IInv, DocumentGenuine
  <1>11. ASSUME NEW n \in KeysOf(namespaces') PROVE NamespaceDone(n)'
    <2>1. CASE n = cur
      BY <1>2, <1>4, <1>6, <1>9, <2>1 DEF NamespaceDone, items
    <2>2. CASE n # cur
      <3>1. n \in KeysOf(namespaces) /\ n \in Namespaces
        BY <1>5, <1>7, <2>2 DEF KeysOf, MapOf
      <3> QED
        BY <1>6, <1>9, <1>10, <2>2, <3>1 DEF NamespaceDone
    <2> QED
      BY <2>1, <2>2
  <1>12. todo' \subseteq KeysOf(doc.nameSpaces) /\ KeysOf(namespaces') = KeysOf(doc.nameSpaces) \ todo'
    BY <1>2, <1>7, <1>10
  <1>13. DocumentGenuine'
    <2>1. authenticateMSO(doc.issuerAuth, answer, at) = {} /\ mso.docType = doc.docType
      BY <1>1 DEF IInv, DocumentGenuine
    <2> QED
      BY <1>9, <1>11, <1>12, <2>1 DEF DocumentGenuine
  <1>14. ItemsDone' /\ DeviceDone'
    BY DEF ItemsDone, DeviceDone
  <1> QED
    BY <1>1, <1>8, <1>13, <1>14, InsideDocument DEF IInv

\* The device signature is reached with every namespace done, and decides the document.
LEMMA StepDeviceAuth == IInv /\ DeviceAuth => IInv'
  <1> SUFFICES ASSUME IInv, DeviceAuth PROVE IInv'
    OBVIOUS
  <1> DEFINE e == verifyDeviceAuth(doc, parseCOSEKey(mso.deviceKey).val, in.SessionTranscript)
  <1>1. pc = "integrity" /\ Genuine /\ Answered /\ todo = {}
    BY DEF DeviceAuth, Genuine, Answered
  <1>2. e \subseteq Reasons
    BY <1>1, LastAnswer, VerdictsNameReasons
  <1>3. CASE e # {}
    BY <1>1, <1>2, <1>3, FailInsideDocument DEF DeviceAuth
  <1>4. CASE e = {}
    <2>1. /\ pc' = "status"
          /\ UNCHANGED <<clock, in, at, i, answer, loop, out, err, began, asked>>
      BY <1>4 DEF DeviceAuth
    <2> HIDE DEF e
    <2> USE <2>1 DEF loop
    <2>2. Genuine'
      BY DEF Genuine
    <2>3. TypeOK'
      BY DEF IInv, TypeOK, PCs
    <2>4. doc' = doc /\ mso' = mso
      BY DEF doc, mso, documents
    <2>5. DocumentGenuine'
      BY <1>1, <2>4 DEF IInv, DocumentGenuine, NamespaceDone
    <2>6. ItemsDone' /\ DeviceDone'
      BY <1>1, <1>4, <2>4 DEF ItemsDone, DeviceDone, e
    <2> QED
      BY <1>1, <2>2, <2>3, <2>5, <2>6, InsideDocument DEF IInv
  <1> QED
    BY <1>3, <1>4

\* A document that passed every check deserves acceptance.
LEMMA DocumentAcceptable ==
    ASSUME IInv, pc = "status", parseMSOStatus(mso.status).err = {}
    PROVE  /\ Acceptable(doc, in, at, asked[i])
           /\ KeysOf(namespaces) = KeysOf(doc.nameSpaces)
           /\ \A n \in KeysOf(doc.nameSpaces) :
                Discloses(namespaces[n], doc.nameSpaces[n], Len(doc.nameSpaces[n]))
  <1>1. Genuine /\ Reading /\ Answered /\ todo = {}
    BY DEF IInv, DeviceDone, Genuine, Reading, Answered
  <1>2. /\ KeysOf(namespaces) = KeysOf(doc.nameSpaces)
        /\ \A n \in KeysOf(doc.nameSpaces) : NamespaceDone(n)
    BY <1>1 DEF IInv, DocumentGenuine
  <1>3. ItemsSealed(doc)
    BY <1>2 DEF ItemsSealed, NamespaceDone, mso
  <1>4. BoundToSession(doc, mso.deviceKey.pt, in.SessionTranscript)
    BY <1>1, GenuineDocument, DeviceBound DEF IInv, DeviceDone
  <1>5. StatusReadable(mso)
    BY <1>1, LastAnswer, StatusParsed
  <1>6. in.ExpectedDocType \in {Absent, doc.docType}
    BY <1>1 DEF IInv, DocumentRead
  <1>7. /\ Poses(doc, asked[i].question) /\ IssuerAuthentic(doc, asked[i].answer)
        /\ ValidAt(mso.validityInfo, at) /\ SealedKey(mso, mso.deviceKey.pt)
    BY <1>1, GenuineDocument
  <1>8. Acceptable(doc, in, at, asked[i])
    BY <1>3, <1>4, <1>5, <1>6, <1>7 DEF Acceptable, mso
  <1> QED
    BY <1>2, <1>8 DEF NamespaceDone

\* What is appended reports a document that deserves acceptance.
LEMMA StepAppendVerified == IInv /\ AppendVerified => IInv'
  <1> SUFFICES ASSUME IInv, AppendVerified PROVE IInv'
    OBVIOUS
  <1> DEFINE status == parseMSOStatus(mso.status)
             vd == [docType |-> doc.docType, namespaces |-> namespaces,
                    validityInfo |-> mso.validityInfo,
                    deviceKey |-> parseCOSEKey(mso.deviceKey).val,
                    status |-> status.val, msoDigestAlg |-> mso.digestAlgorithm]
  <1>1. pc = "status" /\ Genuine /\ Answered /\ Busy /\ Reading
    BY DEF AppendVerified, Genuine, Answered, Busy, Reading
  <1>2. CASE status.err # {}
    BY <1>1, <1>2, ChecksNameReasons, FailInsideDocument DEF AppendVerified
  <1>3. CASE status.err = {}
    <2>1. /\ out' = Append(out, vd) /\ i' = i + 1 /\ pc' = "document"
          /\ UNCHANGED <<clock, in, at, answer, loop, err, began, asked>>
      BY <1>3 DEF AppendVerified
    <2>2. /\ mso \in MobileSecurityObject /\ doc \in Document /\ documents \in Seq(Document)
          /\ i \in 1 .. Len(documents) /\ Len(asked) = i
      BY <1>1, LastAnswer
    <2>3. SealedKey(mso, mso.deviceKey.pt) /\ parseCOSEKey(mso.deviceKey).val = mso.deviceKey.pt
      BY <1>1, GenuineDocument
    <2>4. /\ status.val \in Opt(StatusRef)
          /\ (status.val = Absent) = (mso.status = Absent)
          /\ status.val # Absent => status.val.raw = mso.status
      BY <1>3, <2>2, StatusParsed
    <2>5. vd \in VerifiedDocument
      BY <2>2, <2>3, <2>4 DEF VerifiedDocument, Document, MobileSecurityObject, SealedKey, IInv, TypeOK
    <2>6. Reports(vd, doc)
      BY <1>1, <1>3, <2>3, <2>4, DocumentAcceptable DEF Reports, mso
    <2> HIDE DEF vd, status
    <2> USE <2>1 DEF loop
    <2>7. out \in Seq(VerifiedDocument) /\ Len(out) = i - 1
      BY <1>1 DEF IInv, TypeOK, DocumentsDone
    <2>8. /\ out' \in Seq(VerifiedDocument) /\ Len(out') = i /\ out'[i] = vd
          /\ \A j \in 1 .. i - 1 : out'[j] = out[j]
      BY <2>2, <2>5, <2>7
    <2>9. TypeOK'
      BY <2>2, <2>8 DEF IInv, TypeOK, PCs
    <2>10. /\ Busy' /\ ~Reading' /\ ~Answered' /\ ~Genuine' /\ ~Accepted'
           /\ pc' \notin {"idle", "called", "done"} /\ pc # "idle" /\ pc # "done"
      BY <1>1 DEF Busy, Reading, Answered, Genuine, Accepted
    <2>11. Idle' /\ NoErrorYet' /\ InputRead' /\ ResponseRead'
      BY <1>1, <2>2, <2>10 DEF IInv, Idle, NoErrorYet, InputRead, ResponseRead
    <2>12. DocumentsDone'
      <3>1. /\ Len(out') = i' - 1 /\ i' - 1 <= Len(documents') /\ Len(asked') = i' - 1
        BY <2>2, <2>8 DEF documents
      <3>2. ASSUME NEW j \in 1 .. i' - 1
            PROVE  Acceptable(documents[j], in, at, asked[j]) /\ Reports(out'[j], documents[j])
        <4>1. CASE j = i
          BY <1>1, <1>3, <2>6, <2>8, <4>1, DocumentAcceptable DEF doc, status
        <4>2. CASE j # i
          <5>1. j \in 1 .. i - 1
            BY <2>2, <4>2
          <5> QED
            BY <1>1, <2>8, <5>1 DEF IInv, DocumentsDone
        <4> QED
          BY <4>1, <4>2
      <3> QED
        BY <2>10, <3>1, <3>2 DEF DocumentsDone, documents
    <2>13. /\ DocumentRead' /\ DocumentAnswered' /\ DocumentGenuine' /\ ItemsDone'
           /\ DeviceDone' /\ AllDone' /\ RefusalKeepsCause'
      BY <2>10 DEF DocumentRead, DocumentAnswered, DocumentGenuine, ItemsDone, DeviceDone,
        AllDone, RefusalKeepsCause, TrustRefused
    <2>14. TrustAskedInOrder'
      BY <2>2 DEF IInv, TrustAskedInOrder, documents
    <2> QED
      BY <2>9, <2>11, <2>12, <2>13, <2>14 DEF IInv
  <1> QED
    BY <1>2, <1>3

\* The loop ends with every document done; a response without one is rejected.
LEMMA StepEndDocuments == IInv /\ EndDocuments => IInv'
  <1> SUFFICES ASSUME IInv, EndDocuments PROVE IInv'
    OBVIOUS
  <1>1. pc = "document" /\ i > Len(documents) /\ Busy /\ ~Answered
    BY DEF EndDocuments, Busy, Answered
  <1>2. CASE Fail({"ErrMalformed"})
    <2>1. asked # <<>> => asked[Len(asked)].answer.err = {}
      BY <1>1, NoRefusalBefore
    <2>2. {"ErrMalformed"} \subseteq Reasons
      BY DEF Reasons, Sentinels
    <2> QED
      BY <1>1, <1>2, <2>1, <2>2, FailKeepsIInv
  <1>3. CASE /\ Len(out) # 0 /\ pc' = "done"
             /\ UNCHANGED <<clock, in, at, i, answer, loop, out, err, began, asked>>
    <2> USE <1>3 DEF loop
    <2>1. /\ ~Busy' /\ ~Reading' /\ ~Answered' /\ ~Genuine' /\ err = {} /\ Accepted'
      BY <1>1 DEF IInv, NoErrorYet, Busy, Reading, Answered, Genuine, Accepted
    <2>2. TypeOK'
      BY DEF IInv, TypeOK, PCs
    <2>3. Idle' /\ NoErrorYet' /\ InputRead' /\ ResponseRead'
      BY <1>1, <2>1 DEF IInv, Idle, NoErrorYet, InputRead, ResponseRead
    <2>4. DocumentsDone'
      BY <1>1, <2>1 DEF IInv, DocumentsDone, documents
    <2>5. /\ DocumentRead' /\ DocumentAnswered' /\ DocumentGenuine' /\ ItemsDone' /\ DeviceDone'
      BY <2>1 DEF DocumentRead, DocumentAnswered, DocumentGenuine, ItemsDone, DeviceDone
    <2>6. AllDone'
      <3>1. i - 1 <= Len(documents) /\ i \in Nat /\ documents \in Seq(Document)
        BY <1>1, DocumentTyped DEF IInv, DocumentsDone
      <3>2. out # <<>>
        OBVIOUS
      <3> QED
        BY <1>1, <3>1, <3>2 DEF AllDone, documents
    <2>7. TrustAskedInOrder'
      BY DEF IInv, TrustAskedInOrder, documents
    <2>8. RefusalKeepsCause'
      BY <1>1, NoRefusalBefore DEF RefusalKeepsCause, TrustRefused
    <2> QED
      BY <2>2, <2>3, <2>4, <2>5, <2>6, <2>7, <2>8 DEF IInv
  <1> QED
    BY <1>2, <1>3 DEF EndDocuments

\* Nothing of a call survives it.
LEMMA StepReturn == IInv /\ Return => IInv'
  <1> SUFFICES ASSUME IInv, Return PROVE IInv'
    OBVIOUS
  <1> USE DEF Return, StartLoops
  <1>1. TypeOK'
    BY DEF IInv, TypeOK, Time, PCs, Opt, MapOf, EmptyMap
  <1>2. /\ ~Busy' /\ ~Reading' /\ ~Answered' /\ ~Genuine' /\ ~Accepted'
    BY DEF Busy, Reading, Answered, Genuine, Accepted
  <1>3. /\ Idle' /\ NoErrorYet' /\ InputRead' /\ ResponseRead' /\ DocumentsDone'
        /\ DocumentRead' /\ DocumentAnswered' /\ DocumentGenuine' /\ ItemsDone'
        /\ DeviceDone' /\ AllDone'
    BY <1>2 DEF IInv, Idle, NoErrorYet, InputRead, ResponseRead, DocumentsDone, DocumentRead,
        DocumentAnswered, DocumentGenuine, ItemsDone, DeviceDone, AllDone
  <1>4. TrustAskedInOrder' /\ RefusalKeepsCause'
    BY DEF TrustAskedInOrder, RefusalKeepsCause, TrustRefused
  <1> QED
    BY <1>1, <1>3, <1>4 DEF IInv

\* What is established does not depend on the clock, which only runs forward.
LEMMA StepTick == IInv /\ (Tick \/ UNCHANGED vars) => IInv'
  <1> SUFFICES ASSUME IInv, Tick \/ UNCHANGED vars PROVE IInv'
    OBVIOUS
  <1>1. UNCHANGED <<pc, in, at, i, answer, todo, cur, k, nsOut, namespaces, out, err, began, asked>>
    BY DEF Tick, loop, vars
  <1>2. clock' \in Nat /\ clock <= clock' /\ clock \in Nat /\ began \in Nat /\ at \in Nat
    BY DEF IInv, TypeOK, Time, Tick, vars
  <1> USE <1>1
  <1>3. TypeOK'
    BY <1>2 DEF IInv, TypeOK, Time
  <1>4. /\ Busy' = Busy /\ Reading' = Reading /\ Answered' = Answered /\ Genuine' = Genuine
        /\ Accepted' = Accepted /\ documents' = documents /\ doc' = doc /\ mso' = mso
        /\ items' = items
    BY DEF Busy, Reading, Answered, Genuine, Accepted, documents, doc, mso, items
  <1>5. Idle' /\ NoErrorYet' /\ AllDone'
    BY <1>4 DEF IInv, Idle, NoErrorYet, AllDone
  <1>6. InputRead' /\ ResponseRead'
    BY <1>2, <1>4 DEF IInv, InputRead, ResponseRead
  <1>7. DocumentsDone'
    BY <1>4 DEF IInv, DocumentsDone
  <1>8. DocumentRead' /\ DocumentAnswered'
    BY <1>4 DEF IInv, DocumentRead, DocumentAnswered
  <1>9. DocumentGenuine'
    BY <1>4 DEF IInv, DocumentGenuine, NamespaceDone
  <1>10. ItemsDone'
    BY <1>4 DEF IInv, ItemsDone
  <1>11. DeviceDone'
    BY <1>4 DEF IInv, DeviceDone
  <1>12. TrustAskedInOrder' /\ RefusalKeepsCause'
    BY <1>4 DEF IInv, TrustAskedInOrder, RefusalKeepsCause, TrustRefused
  <1> QED
    BY <1>3, <1>5, <1>6, <1>7, <1>8, <1>9, <1>10, <1>11, <1>12 DEF IInv

\* IInv is an invariant of every behaviour of Verify.
THEOREM Invariance == Spec => []IInv
  <1>1. IInv /\ [Next]_vars => IInv'
    BY InputsAssumption, StepCall, StepVerify, StepNextDocument, StepResolveIssuerKey, StepVerifyIssuerAuth,
       StepRangeNamespace, StepRangeItem, StepEndNamespace, StepDeviceAuth,
       StepAppendVerified, StepEndDocuments, StepReturn, StepTick
    DEF Next, Step
  <1> QED
    BY InitIInv, <1>1, PTL DEF Spec

-----------------------------------------------------------------------------
(* What the invariant says of an accepted response. *)

\* In an accepted response every document was found acceptable at the instant read
\* from the clock, with its own answer of the trust layer.
LEMMA AcceptedAcceptable ==
    ASSUME IInv, Accepted
    PROVE  /\ Len(asked) = Len(documents) /\ Len(out) = Len(documents)
           /\ at \in began .. clock
           /\ \A j \in 1 .. Len(documents) :
                Acceptable(documents[j], in, at, asked[j]) /\ Reports(out[j], documents[j])
  <1>1. /\ i = Len(documents) + 1 /\ Len(out) = i - 1 /\ ~Answered
        /\ Len(asked) = IF Answered THEN i ELSE i - 1
        /\ \A j \in 1 .. i - 1 :
            Acceptable(documents[j], in, at, asked[j]) /\ Reports(out[j], documents[j])
    BY DEF IInv, AllDone, DocumentsDone, Accepted, Answered
  <1>2. began <= at /\ at <= clock /\ at \in Nat /\ began \in Nat /\ clock \in Nat
    BY DEF IInv, ResponseRead, TypeOK, Time
  <1>3. documents \in Seq(Document)
    BY DEF IInv, ResponseRead, documents, DeviceResponse
  <1>4. i - 1 = Len(documents)
    BY <1>1, <1>3
  <1> QED
    BY <1>1, <1>2, <1>4

\* Every variable of Verify keeps its type.
THEOREM TypeCorrect == Spec => []TypeOK
  <1>1. IInv => TypeOK
    BY DEF IInv
  <1> QED
    BY Invariance, <1>1, PTL

\* No document is accepted whose MSO was not signed by a key the trust layer vouched
\* for when it was asked about that document.
THEOREM Authenticity == Spec => []AcceptedAuthentic
  <1>1. IInv => AcceptedAuthentic
    BY AcceptedAcceptable DEF AcceptedAuthentic, Acceptable
  <1> QED
    BY Invariance, <1>1, PTL

\* No value is returned that the issuer did not seal, in the namespace it sealed it
\* in, and none of the disclosed elements is lost.
THEOREM Integrity == Spec => []DisclosedIsSealed
  <1>1. IInv => DisclosedIsSealed
    BY AcceptedAcceptable DEF DisclosedIsSealed, Acceptable
  <1> QED
    BY Invariance, <1>1, PTL

\* No document is accepted that the holder of its sealed key did not sign for the
\* caller's session.
THEOREM SessionBinding == Spec => []AcceptedBoundToSession
  <1>1. ASSUME IInv PROVE AcceptedBoundToSession
    <2> SUFFICES ASSUME Accepted, NEW j \in 1 .. Len(documents)
                 PROVE  /\ SealedKey(MSOOf(j), out[j].deviceKey)
                        /\ BoundToSession(documents[j], out[j].deviceKey, in.SessionTranscript)
      BY DEF AcceptedBoundToSession
    <2>1. Acceptable(documents[j], in, at, asked[j]) /\ Reports(out[j], documents[j])
      BY <1>1, AcceptedAcceptable
    <2>2. out[j].deviceKey = MSOOf(j).deviceKey.pt
      BY <2>1 DEF Reports, MSOOf
    <2> QED
      BY <2>1, <2>2 DEF Acceptable, MSOOf
  <1> QED
    BY Invariance, <1>1, PTL

\* All documents of an accepted response were valid at one instant of the call.
THEOREM SimultaneousValidity == Spec => []OneInstant
  <1>1. ASSUME IInv PROVE OneInstant
    <2> SUFFICES ASSUME Accepted
                 PROVE \E t \in began .. clock :
                    \A j \in 1 .. Len(documents) : ValidAt(MSOOf(j).validityInfo, t)
      BY DEF OneInstant
    <2>1. at \in began .. clock
      BY <1>1, AcceptedAcceptable
    <2>2. \A j \in 1 .. Len(documents) : ValidAt(MSOOf(j).validityInfo, at)
      BY <1>1, AcceptedAcceptable DEF Acceptable, MSOOf
    <2> QED
      BY <2>1, <2>2
  <1> QED
    BY Invariance, <1>1, PTL

\* The trust layer is asked in document order, inside the leaf's window, and never
\* again once it declined.
THEOREM TrustBoundary == Spec => []TrustAskedInOrder
  <1>1. IInv => TrustAskedInOrder
    BY DEF IInv
  <1> QED
    BY Invariance, <1>1, PTL

\* A refusal of the trust layer reaches the caller with its cause.
THEOREM CauseKept == Spec => []RefusalKeepsCause
  <1>1. IInv => RefusalKeepsCause
    BY DEF IInv
  <1> QED
    BY Invariance, <1>1, PTL
=============================================================================
