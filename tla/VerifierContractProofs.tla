----------------------- MODULE VerifierContractProofs -----------------------
(***************************************************************************)
(* TLAPS proofs that Verify refuses only what deserves it: each check      *)
(* passes whatever Acceptance asks of it, so the early-return chain of     *)
(* checks implements VerifierContract, and the sentinel it returns names a *)
(* fault the response has.                                                 *)
(***************************************************************************)
EXTENDS VerifierProofs

-----------------------------------------------------------------------------
(* What deserves to pass a check passes it. *)

\* A signature of the key over the payload verifies.
LEMMA SignedIsVerified ==
    ASSUME NEW raw, NEW key, NEW pl, pl \notin {Absent, Malformed}, SignedBy(raw, key, pl)
    PROVE  /\ coseParts(raw).err = {}
           /\ VerifyCOSESign1(coseAssemble([coseParts(raw).val EXCEPT !.payload = pl]), key)
                = Ok(pl)
  <1> DEFINE parts == [coseParts(raw).val EXCEPT !.payload = pl]
             cose == coseAssemble(parts)
  <1>1. raw # Malformed /\ raw.len = 4
    BY DEF SignedBy
  <1>2. /\ coseParts(raw).err = {}
        /\ parts.protected = raw.protected /\ parts.payload = pl
        /\ parts.signature = raw.signature
    BY <1>1 DEF coseParts, Ok, Err
  <1>3. cose.protected = raw.protected /\ cose.payload = pl /\ cose.signature = raw.signature
    BY <1>2 DEF coseAssemble
  <1> HIDE DEF cose
  <1>4. VerifyCOSESign1(cose, key) = Ok(pl)
    BY <1>3 DEF VerifyCOSESign1, SignedBy
  <1> QED
    BY <1>2, <1>4 DEF cose

\* A document bound to the session by its sealed key passes verifyDeviceAuth.
LEMMA BoundPasses ==
    ASSUME NEW d \in Document, NEW key, NEW st \in Opt(Transcripts), BoundToSession(d, key, st)
    PROVE  verifyDeviceAuth(d, key, st) = {}
  <1> DEFINE sig == d.deviceSignature
             pl == DeviceAuthentication(st, d.docType, d.deviceNameSpaces)
             spliced == spliceCOSEPayload(sig, pl)
  <1>1. ~d.deviceMac /\ sig # Absent /\ st # Absent /\ SignedBy(sig, key, pl)
    BY DEF BoundToSession
  <1>2. pl \notin {Absent, Malformed}
    <2>1. st \in Transcripts /\ d.docType \in Opt(DocTypes) /\ d.deviceNameSpaces \in Opt(Values)
      BY <1>1 DEF Document, Opt
    <2>2. pl \in DeviceAuthentications
      BY <2>1 DEF DeviceAuthentications
    <2> QED
      BY <2>2, SentinelSigned
  <1>3. /\ coseParts(sig).err = {}
        /\ VerifyCOSESign1(coseAssemble([coseParts(sig).val EXCEPT !.payload = pl]), key) = Ok(pl)
    <2> HIDE DEF pl, sig
    <2> QED
      BY <1>1, <1>2, SignedIsVerified
  <1>4. spliced = Ok(coseAssemble([coseParts(sig).val EXCEPT !.payload = pl]))
    <2> HIDE DEF pl, sig
    <2> QED
      BY <1>3 DEF spliceCOSEPayload, spliced
  <1> HIDE DEF spliced
  <1>5. spliced.err = {} /\ VerifyCOSESign1(spliced.val, key).err = {}
    BY <1>3, <1>4 DEF Ok
  <1> QED
    BY <1>1, <1>5 DEF verifyDeviceAuth, spliced

\* A sealed item passes checkItem.
LEMMA SealedPasses ==
    ASSUME NEW m \in MobileSecurityObject, NEW n, NEW item \in ItemBytes, ItemSealed(item, m, n)
    PROVE  checkItem(item, m.valueDigests[n], m.digestAlgorithm) = {}
  <1>1. Hash(m.digestAlgorithm, item) \in Digest
    BY DEF MobileSecurityObject, Digest, Hash
  <1>2. /\ item # Malformed /\ item.elementValue # Malformed
        /\ m.valueDigests[n][item.digestID] = Hash(m.digestAlgorithm, item)
    BY DEF ItemSealed, Hash
  <1> QED
    BY <1>1, <1>2, SentinelRecords DEF checkItem

\* A usable sealed key passes parseCOSEKey.
LEMMA SealedKeyParses ==
    ASSUME NEW m, SealedKey(m, m.deviceKey.pt)
    PROVE  parseCOSEKey(m.deviceKey).err = {}
  <1>1. /\ m.deviceKey # Malformed /\ m.deviceKey.kty = "EC2"
        /\ m.deviceKey.crv \in 1 .. 3 /\ m.deviceKey.pt # Malformed /\ m.deviceKey.crv # Malformed
    BY SentinelValues DEF SealedKey
  <1> QED
    BY <1>1 DEF parseCOSEKey, curveForCOSELabel, Ok

\* A valid MSO passes checkValidity.
LEMMA ValidPasses ==
    ASSUME NEW vi \in ValidityInfo, NEW t \in Nat, ValidAt(vi, t)
    PROVE  checkValidity(vi, t) = {}
BY DEF checkValidity, ValidAt, ValidityInfo, Time

\* An authentic document that is valid at t passes verifyIssuerAuth.
LEMMA AuthenticPasses ==
    ASSUME NEW d \in Document, issuerClaim(d.issuerAuth).err = {},
           NEW a \in Answer, NEW t \in Nat, IssuerAuthentic(d, a),
           ValidAt(d.issuerAuth.payload.validityInfo, t),
           SealedKey(d.issuerAuth.payload, d.issuerAuth.payload.deviceKey.pt)
    PROVE  /\ authenticateMSO(d.issuerAuth, a, t) = {}
           /\ checkDocType(d.issuerAuth.payload.docType, d.docType) = {}
  <1> DEFINE raw == d.issuerAuth
             parts == coseParts(raw)
             payload == VerifyCOSESign1(coseAssemble(parts.val), a.val)
             m == raw.payload
  <1>1. /\ m \in MobileSecurityObject /\ m \notin {Absent, Malformed}
        /\ issuerClaim(raw).val.signed = m.validityInfo.signed
    BY ClaimPoses DEF Poses
  <1>2. parts.err = {} /\ payload = Ok(m)
    <2>1. SignedBy(raw, a.val, m)
      BY DEF IssuerAuthentic
    <2>2. /\ parts.err = {}
          /\ VerifyCOSESign1(coseAssemble([parts.val EXCEPT !.payload = m]), a.val) = Ok(m)
      <3> HIDE DEF m, raw
      <3> QED
        BY <1>1, <2>1, SignedIsVerified
    <2>3. parts.val = [parts.val EXCEPT !.payload = m]
      BY <2>2 DEF coseParts, Ok, Err
    <2> QED
      BY <2>2, <2>3
  <1>3. resolution(a) = {}
    BY SentinelValues DEF IssuerAuthentic, resolution
  <1>4. hashForMSODigestAlg(m.digestAlgorithm) = {}
    BY <1>1 DEF IssuerAuthentic, MobileSecurityObject, DigestAlgs, hashForMSODigestAlg
  <1>5. checkValidity(m.validityInfo, t) = {}
    BY <1>1, ValidPasses DEF MobileSecurityObject
  <1>6. parseCOSEKey(m.deviceKey).err = {}
    BY SealedKeyParses
  <1>7. payload.err = {} /\ payload.val = m
    BY <1>2 DEF Ok
  <1>8. authenticateMSO(raw, a, t) = {}
    <2> HIDE DEF payload, m
    <2> QED
      BY <1>1, <1>3, <1>4, <1>5, <1>6, <1>7 DEF authenticateMSO, payload
  <1> QED
    BY <1>8 DEF checkDocType, IssuerAuthentic

\* A header without a chain is told from one with an undecodable or an empty chain.
LEMMA AbsentIsNoChain == Absent # Malformed /\ Absent # <<>>
BY SentinelValues, SentinelRecords

\* A time in the window of the chain a document carries passes checkSignerWindow.
LEMMA WindowPasses ==
    ASSUME NEW d \in Document, d.issuerAuth # Malformed,
           d.issuerAuth.payload \notin {Absent, Malformed}, NEW chain \in Carried(d.issuerAuth),
           InLeafWindow(chain, d.issuerAuth.payload.validityInfo.signed)
    PROVE  checkSignerWindow(chain, d.issuerAuth.payload.validityInfo.signed) = {}
  <1> DEFINE raw == d.issuerAuth
             signed == raw.payload.validityInfo.signed
  <1>1. chain \notin {Absent, Malformed, <<>>} /\ chain[1] # Malformed
        /\ chain[1].notBefore <= signed /\ signed <= chain[1].notAfter
    BY DEF InLeafWindow
  <1>2. raw \in COSEArray(MobileSecurityObject)
    BY DEF Document, COSESign1, Raw
  <1>3. /\ raw.payload \in MobileSecurityObject
        /\ raw.unprotected \in Unprotected /\ raw.protected \in Protected
    BY <1>2 DEF COSEArray, Opt, Raw
  <1>4. signed \in Nat
    BY <1>3 DEF MobileSecurityObject, ValidityInfo, Time
  <1>5. chain \in Seq(Cert)
    BY <1>1, <1>3 DEF Carried, Unprotected, Protected, UnprotectedMap, ProtectedMap, X5Value, Raw, Opt
  <1>6. chain[1] \in Cert
    BY <1>1, <1>5
  <1>7. chain[1].notBefore \in Nat /\ chain[1].notAfter \in Nat
    BY <1>1, <1>6 DEF Cert, Raw, Time
  <1> HIDE DEF signed
  <1>8. checkSignerWindow(chain, signed) = {}
    BY <1>1, <1>4, <1>7 DEF checkSignerWindow
  <1> QED
    BY <1>8 DEF signed

\* A document the trust layer can be asked about passes every check before it is.
LEMMA AskablePasses ==
    ASSUME NEW d \in Document, NEW inp, Askable(d, inp)
    PROVE  /\ inp.ExpectedDocType \in {Absent, d.docType}
           /\ issuerClaim(d.issuerAuth).err = {}
  <1> DEFINE raw == d.issuerAuth
             parts == coseParts(raw)
             signed == raw.payload.validityInfo.signed
  <1>1. /\ raw # Malformed /\ raw.len = 4 /\ raw.payload \notin {Absent, Malformed}
        /\ signed # 0
    BY DEF Askable
  <1>2. PICK chain \in Carried(raw) : InLeafWindow(chain, signed)
    BY DEF Askable
  <1>3. chain \notin {Absent, Malformed, <<>>} /\ chain[1] # Malformed
        /\ chain[1].notBefore <= signed /\ signed <= chain[1].notAfter
    BY <1>2 DEF InLeafWindow
  <1>4. /\ parts.err = {} /\ parts.val.protected = raw.protected
        /\ parts.val.unprotected = raw.unprotected /\ parts.val.payload = raw.payload
    BY <1>1 DEF coseParts, Ok, Err
  <1>5. x5chainFrom(parts.val) = Ok(chain)
    <2> DEFINE InHeader(h) == h \notin {Absent, Malformed} /\ h.x5chain # Absent
    <2>1. ASSUME NEW h, InHeader(h), h.x5chain = chain
          PROVE  x5chainFromMap(h) = Ok(chain)
      BY <1>3, <2>1 DEF x5chainFromMap
    <2>2. ASSUME NEW h, ~InHeader(h) PROVE x5chainFromMap(h) = Ok(Absent)
      BY <2>2, AbsentIsNoChain DEF x5chainFromMap
    <2>3. \/ InHeader(raw.unprotected) /\ raw.unprotected.x5chain = chain
          \/ /\ ~InHeader(raw.unprotected)
             /\ InHeader(raw.protected) /\ raw.protected.x5chain = chain
      BY <1>2 DEF Carried
    <2> HIDE DEF InHeader, parts
    <2>4. CASE InHeader(raw.unprotected) /\ raw.unprotected.x5chain = chain
      <3>1. x5chainFromMap(parts.val.unprotected) = Ok(chain)
        BY <1>4, <2>1, <2>4
      <3> QED
        BY <1>3, <3>1 DEF x5chainFrom, Ok
    <2>5. CASE /\ ~InHeader(raw.unprotected)
               /\ InHeader(raw.protected) /\ raw.protected.x5chain = chain
      <3>1. raw.protected # Malformed
        BY <2>5 DEF InHeader
      <3>2. /\ x5chainFromMap(parts.val.unprotected) = Ok(Absent)
            /\ x5chainFromMap(parts.val.protected) = Ok(chain)
        BY <1>4, <2>1, <2>2, <2>5
      <3> QED
        BY <1>3, <1>4, <3>1, <3>2 DEF x5chainFrom, Ok
    <2> QED
      BY <2>3, <2>4, <2>5
  <1>6. claimedSigningTime(parts.val.payload) = Ok(signed)
    BY <1>1, <1>4 DEF claimedSigningTime
  <1>7. checkSignerWindow(chain, signed) = {}
    BY <1>1, <1>2, WindowPasses
  <1> HIDE DEF parts, signed
  <1>8. issuerClaim(raw).err = {}
    BY <1>4, <1>5, <1>6, <1>7 DEF issuerClaim, Ok, parts
  <1> QED
    BY <1>8 DEF Askable

\* An expected document that poses a question is one the trust layer can be asked about.
LEMMA PosedIsAskable ==
    ASSUME NEW d, NEW inp, NEW q, inp.ExpectedDocType \in {Absent, d.docType}, Poses(d, q)
    PROVE  Askable(d, inp)
BY DEF Poses, Askable

\* A readable status passes parseMSOStatus.
LEMMA ReadablePasses ==
    ASSUME NEW m, StatusReadable(m)
    PROVE  parseMSOStatus(m.status).err = {}
BY DEF StatusReadable, parseMSOStatus, Ok

\* A response that DecodeDeviceResponse refuses is not well formed.
LEMMA WellFormedPasses ==
    ASSUME NEW inp, WellFormedResponse(inp)
    PROVE  inp.IssuerTrust /\ DecodeDeviceResponse(inp.DeviceResponse) = {}
BY DEF WellFormedResponse, DecodeDeviceResponse

-----------------------------------------------------------------------------
(* What each failing step knows of the document it fails on. *)

Deserving == Acceptable(doc, in, at, asked[i])

\* The questions put to the trust layer are the documents reached, and what is known of
\* the documents before the one under way.
LEMMA BeforeThis ==
    ASSUME IInv, Busy
    PROVE  /\ \A j \in 1 .. i - 1 : Acceptable(documents[j], in, at, asked[j])
           /\ at \in began .. clock /\ i \in Nat /\ i >= 1
           /\ documents \in Seq(Document)
           /\ in.IssuerTrust /\ DecodeDeviceResponse(in.DeviceResponse) = {}
           /\ Len(asked) = IF Answered THEN i ELSE i - 1
  <1>1. began \in Nat /\ at \in Nat /\ clock \in Nat /\ began <= at /\ at <= clock
    BY DEF IInv, TypeOK, Time, ResponseRead
  <1> QED
    BY <1>1, DocumentTyped DEF IInv, DocumentsDone, ResponseRead

\* verifyIssuerAuth fails only on a document that is not authentic, valid and usable.
LEMMA UndeservedIssuer ==
    ASSUME IInv, pc = "answered",
           \/ authenticateMSO(doc.issuerAuth, answer, at) # {}
           \/ checkDocType(mso.docType, doc.docType) # {}
    PROVE  ~Deserving
  <1>1. Answered
    BY DEF Answered
  <1>2. /\ doc \in Document /\ issuerClaim(doc.issuerAuth).err = {}
        /\ answer \in Answer /\ at \in Nat /\ asked[i].answer = answer
    BY <1>1, LastAnswer
  <1> HIDE DEF doc
  <1> QED
    BY <1>2, AuthenticPasses DEF Deserving, Acceptable, mso

\* A namespace that the MSO has no digests for is not sealed.
LEMMA UndeservedNamespace ==
    ASSUME IInv, pc = "integrity", NEW n \in todo, mso.valueDigests[n] = Absent
    PROVE  ~ItemsSealed(doc)
  <1>1. Genuine
    BY DEF Genuine
  <1> QED
    BY <1>1 DEF IInv, DocumentGenuine, ItemsSealed, mso

\* Neither is one with an item that checkItem refuses.
LEMMA UndeservedItem ==
    ASSUME IInv, pc = "items", k <= Len(items),
           checkItem(items[k], mso.valueDigests[cur], mso.digestAlgorithm) # {}
    PROVE  ~ItemsSealed(doc)
  <1>1. Genuine /\ Answered
    BY DEF Genuine, Answered
  <1>2. /\ mso \in MobileSecurityObject
        /\ cur \in todo /\ k \in 1 .. Len(items) + 1
    BY <1>1, LastAnswer DEF IInv, ItemsDone
  <1>3. cur \in KeysOf(doc.nameSpaces) /\ items \in Seq(ItemBytes)
    BY <1>1, <1>2, NamespaceTyped DEF IInv, DocumentGenuine, items
  <1>4. k \in 1 .. Len(items) /\ items[k] \in ItemBytes
    BY <1>2, <1>3
  <1>5. ~ItemSealed(items[k], mso, cur)
    BY <1>2, <1>4, SealedPasses
  <1> QED
    BY <1>3, <1>4, <1>5 DEF ItemsSealed, items, mso

\* With every namespace done, all items are sealed.
LEMMA AllSealed ==
    ASSUME IInv, Genuine, todo = {}
    PROVE  ItemsSealed(doc)
BY DEF IInv, DocumentGenuine, NamespaceDone, ItemsSealed, mso

\* verifyDeviceAuth fails only on a document that is not bound to the session.
LEMMA UndeservedDevice ==
    ASSUME IInv, pc = "integrity",
           verifyDeviceAuth(doc, parseCOSEKey(mso.deviceKey).val, in.SessionTranscript) # {}
    PROVE  ~BoundToSession(doc, mso.deviceKey.pt, in.SessionTranscript)
  <1>1. Genuine /\ Answered
    BY DEF Genuine, Answered
  <1>2. doc \in Document /\ parseCOSEKey(mso.deviceKey).val = mso.deviceKey.pt
    BY <1>1, LastAnswer, GenuineDocument
  <1>3. in.SessionTranscript \in Opt(Transcripts)
    BY DEF IInv, InputRead, VerifyInput
  <1> HIDE DEF doc, mso
  <1> QED
    BY <1>2, <1>3, BoundPasses

\* Past verifyDeviceAuth the document is bound to the session.
LEMMA BoundBefore ==
    ASSUME IInv, pc = "status"
    PROVE  /\ Genuine /\ todo = {}
           /\ BoundToSession(doc, mso.deviceKey.pt, in.SessionTranscript)
BY GenuineDocument, DeviceBound DEF IInv, DeviceDone, Genuine

\* A response whose loop ends with nothing verified has no documents.
LEMMA UndeservedEmpty ==
    ASSUME IInv, pc = "document", i > Len(documents), Len(out) = 0
    PROVE  documents = <<>>
  <1>1. Busy /\ ~Answered
    BY DEF Busy, Answered
  <1>2. documents \in Seq(Document) /\ i \in Nat /\ i >= 1 /\ Len(out) = i - 1
    BY <1>1, BeforeThis DEF IInv, DocumentsDone
  <1> QED
    BY <1>2

-----------------------------------------------------------------------------
(* Verify implements VerifierContract. *)

\* The predicates of the contract are those of Acceptance.
LEMMA SamePredicates ==
    ASSUME NEW d, NEW inp, NEW t, NEW a, NEW vd, NEW q
    PROVE  /\ Contract!WellFormedResponse(inp) = WellFormedResponse(inp)
           /\ Contract!Poses(d, q) = Poses(d, q)
           /\ Contract!Askable(d, inp) = Askable(d, inp)
           /\ Contract!Acceptable(d, inp, t, a) = Acceptable(d, inp, t, a)
           /\ Contract!Reports(vd, d) = Reports(vd, d)
  <1>1. Contract!WellFormedResponse(inp) = WellFormedResponse(inp)
    BY DEF Contract!WellFormedResponse, WellFormedResponse
  <1>2. ASSUME NEW c PROVE Contract!Carried(c) = Carried(c)
    BY DEF Contract!Carried, Carried
  <1>3. ASSUME NEW c, NEW u PROVE Contract!InLeafWindow(c, u) = InLeafWindow(c, u)
    BY DEF Contract!InLeafWindow, InLeafWindow
  <1>4. ASSUME NEW r PROVE Contract!Poses(d, r) = Poses(d, r)
    BY <1>2, <1>3 DEF Contract!Poses, Poses
  <1>5. ASSUME NEW c, NEW key, NEW p PROVE Contract!SignedBy(c, key, p) = SignedBy(c, key, p)
    BY DEF Contract!SignedBy, SignedBy, Contract!Sign, Sign
  <1>6. ASSUME NEW b PROVE Contract!IssuerAuthentic(d, b) = IssuerAuthentic(d, b)
    BY <1>5 DEF Contract!IssuerAuthentic, IssuerAuthentic
  <1>7. ASSUME NEW vi PROVE Contract!ValidAt(vi, t) = ValidAt(vi, t)
    BY DEF Contract!ValidAt, ValidAt
  <1>8. ASSUME NEW m, NEW key PROVE Contract!SealedKey(m, key) = SealedKey(m, key)
    BY DEF Contract!SealedKey, SealedKey
  <1>9. ASSUME NEW x PROVE Contract!KeysOf(x) = KeysOf(x)
    BY DEF Contract!KeysOf, KeysOf
  <1>10. ASSUME NEW x, NEW m, NEW n PROVE Contract!ItemSealed(x, m, n) = ItemSealed(x, m, n)
    BY DEF Contract!ItemSealed, ItemSealed
  <1>11. Contract!ItemsSealed(d) = ItemsSealed(d)
    BY <1>9, <1>10 DEF Contract!ItemsSealed, ItemsSealed
  <1>12. ASSUME NEW key, NEW st PROVE Contract!BoundToSession(d, key, st) = BoundToSession(d, key, st)
    BY <1>5 DEF Contract!BoundToSession, BoundToSession, Contract!DeviceAuthentication, DeviceAuthentication
  <1>13. ASSUME NEW m PROVE Contract!StatusReadable(m) = StatusReadable(m)
    BY DEF Contract!StatusReadable, StatusReadable
  <1>14. Contract!Acceptable(d, inp, t, a) = Acceptable(d, inp, t, a)
    BY <1>4, <1>6, <1>7, <1>8, <1>11, <1>12, <1>13 DEF Contract!Acceptable, Acceptable
  <1>15. ASSUME NEW x, NEW l, NEW n PROVE Contract!Discloses(x, l, n) = Discloses(x, l, n)
    BY <1>9 DEF Contract!Discloses, Discloses
  <1>16. Contract!Reports(vd, d) = Reports(vd, d)
    BY <1>9, <1>15 DEF Contract!Reports, Reports
  <1>17. Contract!Askable(d, inp) = Askable(d, inp)
    BY <1>2, <1>3 DEF Contract!Askable, Askable
  <1> QED
    BY <1>1, <1>4, <1>14, <1>16, <1>17

\* What the contract calls a fault, said of the verifier's own variables.
FaultAt(t) ==
    \/ ~WellFormedResponse(in)
    \/ \E j \in 1 .. Len(asked) : ~Acceptable(documents[j], in, t, asked[j])
    \/ Len(asked) < Len(documents) /\ ~Askable(documents[Len(asked) + 1], in)

LEMMA SameFaults ==
    ASSUME NEW t
    PROVE  Contract!AtFault(t) <=> FaultAt(t)
  <1>1. /\ Contract!WellFormedResponse(in) = WellFormedResponse(in)
        /\ \A d : Contract!Askable(d, in) = Askable(d, in)
        /\ \A d, a : Contract!Acceptable(d, in, t, a) = Acceptable(d, in, t, a)
    BY SamePredicates
  <1> QED
    BY <1>1 DEF Contract!AtFault, FaultAt, documents

\* A response that Verify has begun to read is well formed once it has a document.
LEMMA ReadIsWellFormed ==
    ASSUME IInv, Busy, documents # <<>>
    PROVE  WellFormedResponse(in)
  <1>1. in.IssuerTrust /\ in.DeviceResponse \in DeviceResponse /\ DecodeDeviceResponse(in.DeviceResponse) = {}
    BY DEF IInv, ResponseRead
  <1> QED
    BY <1>1 DEF WellFormedResponse, DecodeDeviceResponse, documents

\* A call that fails at an instant at which there is a fault is a decision to reject.
LEMMA RejectDecides ==
    ASSUME pc \notin {"idle", "done"}, NEW e, e # {}, Fail(e),
           NEW t \in began .. clock, FaultAt(t)
    PROVE  Contract!Decide
  <1>1. Contract!AtFault(t)
    BY SameFaults
  <1>2. Contract!Reject
    BY DEF Contract!Reject, Fail
  <1>3. /\ (IF pc \in {"idle", "done"} THEN pc ELSE "busy") = "busy"
        /\ (IF pc' \in {"idle", "done"} THEN pc' ELSE "busy") = "done"
        /\ UNCHANGED <<clock, in, began, asked>>
    BY DEF Fail
  <1> QED
    BY <1>1, <1>2, <1>3 DEF Contract!Decide

\* The same for a failure on the document under way.
LEMMA RejectThis ==
    ASSUME IInv, Answered, ~Deserving, NEW e, e # {}, Fail(e)
    PROVE  Contract!Decide
  <1>1. pc \notin {"idle", "done"} /\ Busy
    BY DEF Answered, Busy
  <1>2. Len(asked) = i /\ i \in 1 .. Len(asked) /\ at \in began .. clock
    BY <1>1, BeforeThis
  <1>3. ~Acceptable(documents[i], in, at, asked[i])
    BY DEF Deserving, doc
  <1>4. FaultAt(at)
    BY <1>2, <1>3 DEF FaultAt
  <1> QED
    BY <1>1, <1>2, <1>4, RejectDecides

\* A step within the call is none of the caller's business.
LEMMA Within ==
    ASSUME pc \notin {"idle", "done"}, pc' \notin {"idle", "done"},
           UNCHANGED <<clock, in, began, asked, err>>
    PROVE  UNCHANGED Contract!cvars
BY DEF Contract!cvars

\* A call is a call.
LEMMA MapsCall ==
    ASSUME IInv, NEW input \in Inputs, Call(input)
    PROVE  Contract!Call
BY DEF Call, Contract!Call

\* The head of Verify rejects what is not well formed, or stays within the call.
LEMMA MapsVerify == IInv /\ Verify => [Contract!Next]_(Contract!cvars)
  <1> SUFFICES ASSUME IInv, Verify PROVE [Contract!Next]_(Contract!cvars)
    OBVIOUS
  <1> DEFINE e == IF ~in.IssuerTrust THEN {"ErrUnsupported"}
                  ELSE DecodeDeviceResponse(in.DeviceResponse)
  <1>1. pc = "called" /\ clock \in began .. clock
    BY DEF Verify, IInv, InputRead, TypeOK, Time
  <1>2. CASE e # {}
    <2>1. Fail(e)
      BY <1>2 DEF Verify
    <2>2. ~WellFormedResponse(in)
      BY <1>2, WellFormedPasses
    <2> HIDE DEF e
    <2> QED
      BY <1>1, <1>2, <2>1, <2>2, RejectDecides DEF FaultAt, Contract!Next
  <1>3. CASE e = {}
    BY <1>1, <1>3, Within DEF Verify
  <1> QED
    BY <1>2, <1>3

\* The head of the document loop rejects a document that the trust layer cannot be asked
\* about, or stays within the call.
LEMMA MapsNextDocument == IInv /\ NextDocument => [Contract!Next]_(Contract!cvars)
  <1> SUFFICES ASSUME IInv, NextDocument PROVE [Contract!Next]_(Contract!cvars)
    OBVIOUS
  <1> DEFINE e == IF in.ExpectedDocType # Absent /\ doc.docType # in.ExpectedDocType
                  THEN {"ErrDocTypeMismatch"}
                  ELSE issuerClaim(doc.issuerAuth).err
  <1>1. pc = "document" /\ Busy /\ ~Answered /\ i <= Len(documents)
    BY DEF NextDocument, Busy, Answered
  <1>2. /\ Len(asked) = i - 1 /\ i \in 1 .. Len(documents) /\ at \in began .. clock
        /\ doc \in Document
    <2>1. documents \in Seq(Document) /\ i \in 1 .. Len(documents)
      BY <1>1, BeforeThis
    <2> QED
      BY <1>1, <2>1, BeforeThis DEF doc
  <1>3. CASE e # {}
    <2>1. Fail(e)
      BY <1>3 DEF NextDocument
    <2>2. ~Askable(doc, in)
      <3> SUFFICES ASSUME Askable(doc, in) PROVE FALSE
        OBVIOUS
      <3>1. in.ExpectedDocType \in {Absent, doc.docType} /\ issuerClaim(doc.issuerAuth).err = {}
        <4> HIDE DEF doc
        <4> QED
          BY <1>2, AskablePasses
      <3> QED
        BY <1>3, <3>1
    <2>3. FaultAt(at)
      BY <1>2, <2>2 DEF FaultAt, doc
    <2> HIDE DEF e
    <2> QED
      BY <1>1, <1>2, <1>3, <2>1, <2>3, RejectDecides DEF Contract!Next
  <1>4. CASE e = {}
    BY <1>1, <1>4, Within DEF NextDocument
  <1> QED
    BY <1>3, <1>4

\* The trust layer is asked about the next document, in that document's terms.
LEMMA MapsResolveIssuerKey == IInv /\ ResolveIssuerKey => Contract!Vouch
  <1> SUFFICES ASSUME IInv, ResolveIssuerKey PROVE Contract!Vouch
    OBVIOUS
  <1> DEFINE q == issuerClaim(doc.issuerAuth).val
  <1>1. pc = "trust" /\ pc' = "answered" /\ Busy /\ Reading /\ ~Answered
        /\ UNCHANGED <<clock, in, began, out, err>>
    BY DEF ResolveIssuerKey, Busy, Reading, Answered
  <1>2. PICK a \in Answers : asked' = Append(asked, [question |-> q, answer |-> a])
    BY DEF ResolveIssuerKey
  <1>3. /\ i \in 1 .. Len(documents) /\ doc \in Document /\ documents \in Seq(Document)
        /\ Len(asked) = i - 1 /\ asked \in Seq([question: Question, answer: Answer])
    BY <1>1, DocumentTyped, BeforeThis DEF IInv, TypeOK
  <1>4. Poses(documents[i], q)
    BY <1>1, <1>3, ClaimPoses DEF IInv, DocumentRead, doc
  <1>5. WellFormedResponse(in)
    BY <1>1, <1>3, ReadIsWellFormed
  <1>6. /\ Len(asked') = i /\ asked = SubSeq(asked', 1, Len(asked))
        /\ asked'[i].question = q
    <2> HIDE DEF q
    <2>1. Len(asked') = i /\ asked'[i] = [question |-> q, answer |-> a]
          /\ \A j \in 1 .. i - 1 : asked'[j] = asked[j]
      BY <1>2, <1>3
    <2>2. asked = SubSeq(asked', 1, i - 1)
      BY <1>2, <1>3
    <2> QED
      BY <1>3, <2>1, <2>2
  <1>7. \E t \in began .. clock : ~Contract!AtFault(t)
    <2>1. Askable(documents[i], in)
      BY <1>1, <1>4, PosedIsAskable DEF IInv, DocumentRead, doc
    <2>2. \A j \in 1 .. Len(asked) : Acceptable(documents[j], in, at, asked[j])
      BY <1>1, <1>3, BeforeThis
    <2>3. ~FaultAt(at)
      BY <1>3, <1>5, <2>1, <2>2 DEF FaultAt
    <2> QED
      BY <1>1, <2>3, BeforeThis, SameFaults
  <1> HIDE DEF q
  <1>8. Len(asked') = Len(asked) + 1 /\ Len(asked') <= Len(in.DeviceResponse.documents)
        /\ Poses(in.DeviceResponse.documents[Len(asked')], asked'[Len(asked')].question)
    BY <1>3, <1>4, <1>6 DEF documents
  <1> QED
    BY <1>1, <1>5, <1>6, <1>7, <1>8, SamePredicates DEF Contract!Vouch

\* verifyIssuerAuth rejects a document that is not authentic, or stays within the call.
LEMMA MapsVerifyIssuerAuth == IInv /\ verifyIssuerAuth => [Contract!Next]_(Contract!cvars)
  <1> SUFFICES ASSUME IInv, verifyIssuerAuth PROVE [Contract!Next]_(Contract!cvars)
    OBVIOUS
  <1> DEFINE auth == authenticateMSO(doc.issuerAuth, answer, at)
             e == IF auth # {} THEN auth ELSE checkDocType(mso.docType, doc.docType)
  <1>1. pc = "answered" /\ Answered
    BY DEF verifyIssuerAuth, Answered
  <1>2. CASE e # {}
    <2>1. Fail(e)
      BY <1>2 DEF verifyIssuerAuth
    <2>2. ~Deserving
      BY <1>1, <1>2, UndeservedIssuer
    <2> HIDE DEF e
    <2> QED
      BY <1>1, <1>2, <2>1, <2>2, RejectThis DEF Contract!Next
  <1>3. CASE e = {}
    <2>1. /\ pc' = "integrity" /\ UNCHANGED <<clock, in, began, asked, err>>
      BY <1>3 DEF verifyIssuerAuth
    <2> QED
      BY <1>1, <2>1, Within
  <1> QED
    BY <1>2, <1>3

\* A namespace the MSO knows nothing of is a reason to reject.
LEMMA MapsRangeNamespace == IInv /\ RangeNamespace => [Contract!Next]_(Contract!cvars)
  <1> SUFFICES ASSUME IInv, RangeNamespace PROVE [Contract!Next]_(Contract!cvars)
    OBVIOUS
  <1>1. pc = "integrity" /\ Answered
    BY DEF RangeNamespace, Answered
  <1>2. PICK n \in todo :
            \/ mso.valueDigests[n] = Absent /\ Fail({"ErrIntegrity"})
            \/ pc' = "items" /\ UNCHANGED <<clock, in, began, asked, err>>
    BY DEF RangeNamespace
  <1>3. CASE mso.valueDigests[n] = Absent /\ Fail({"ErrIntegrity"})
    BY <1>1, <1>3, UndeservedNamespace, RejectThis DEF Deserving, Acceptable, Contract!Next
  <1>4. CASE pc' = "items" /\ UNCHANGED <<clock, in, began, asked, err>>
    BY <1>1, <1>4, Within
  <1> QED
    BY <1>2, <1>3, <1>4

\* So is an item that is not sealed.
LEMMA MapsRangeItem == IInv /\ RangeItem => [Contract!Next]_(Contract!cvars)
  <1> SUFFICES ASSUME IInv, RangeItem PROVE [Contract!Next]_(Contract!cvars)
    OBVIOUS
  <1> DEFINE e == checkItem(items[k], mso.valueDigests[cur], mso.digestAlgorithm)
  <1>1. pc = "items" /\ Answered /\ k <= Len(items)
    BY DEF RangeItem, Answered
  <1>2. CASE e # {}
    <2>1. Fail(e)
      BY <1>2 DEF RangeItem
    <2>2. ~ItemsSealed(doc)
      BY <1>1, <1>2, UndeservedItem
    <2> HIDE DEF e
    <2> QED
      BY <1>1, <1>2, <2>1, <2>2, RejectThis DEF Deserving, Acceptable, Contract!Next
  <1>3. CASE e = {}
    BY <1>1, <1>3, Within DEF RangeItem
  <1> QED
    BY <1>2, <1>3

\* The end of a namespace decides nothing.
LEMMA MapsEndNamespace == IInv /\ EndNamespace => [Contract!Next]_(Contract!cvars)
BY Within DEF EndNamespace

\* A document that is not bound to the session is rejected.
LEMMA MapsDeviceAuth == IInv /\ DeviceAuth => [Contract!Next]_(Contract!cvars)
  <1> SUFFICES ASSUME IInv, DeviceAuth PROVE [Contract!Next]_(Contract!cvars)
    OBVIOUS
  <1> DEFINE e == verifyDeviceAuth(doc, parseCOSEKey(mso.deviceKey).val, in.SessionTranscript)
  <1>1. pc = "integrity" /\ Answered
    BY DEF DeviceAuth, Answered
  <1>2. CASE e # {}
    <2>1. Fail(e)
      BY <1>2 DEF DeviceAuth
    <2>2. ~BoundToSession(doc, mso.deviceKey.pt, in.SessionTranscript)
      BY <1>1, <1>2, UndeservedDevice
    <2> HIDE DEF e
    <2> QED
      BY <1>1, <1>2, <2>1, <2>2, RejectThis DEF Deserving, Acceptable, mso, Contract!Next
  <1>3. CASE e = {}
    BY <1>1, <1>3, Within DEF DeviceAuth
  <1> QED
    BY <1>2, <1>3

\* A document whose status cannot be read is rejected.
LEMMA MapsAppendVerified == IInv /\ AppendVerified => [Contract!Next]_(Contract!cvars)
  <1> SUFFICES ASSUME IInv, AppendVerified PROVE [Contract!Next]_(Contract!cvars)
    OBVIOUS
  <1> DEFINE e == parseMSOStatus(mso.status).err
  <1>1. pc = "status" /\ Answered
    BY DEF AppendVerified, Answered
  <1>2. CASE e # {}
    <2>1. Fail(e)
      BY <1>2 DEF AppendVerified
    <2>2. ~StatusReadable(mso)
      BY <1>2, ReadablePasses
    <2> HIDE DEF e
    <2> QED
      BY <1>1, <1>2, <2>1, <2>2, RejectThis DEF Deserving, Acceptable, mso, Contract!Next
  <1>3. CASE e = {}
    BY <1>1, <1>3, Within DEF AppendVerified
  <1> QED
    BY <1>2, <1>3

\* The end of the document loop is the decision to accept, or to reject an empty response.
LEMMA MapsEndDocuments == IInv /\ EndDocuments => Contract!Decide
  <1> SUFFICES ASSUME IInv, EndDocuments PROVE Contract!Decide
    OBVIOUS
  <1>1. pc = "document" /\ i > Len(documents) /\ Busy /\ ~Answered
    BY DEF EndDocuments, Busy, Answered
  <1>2. /\ at \in began .. clock /\ Len(asked) = Len(documents) /\ Len(out) = Len(documents)
        /\ \A j \in 1 .. Len(asked) :
            Acceptable(documents[j], in, at, asked[j]) /\ Reports(out[j], documents[j])
    <2>1. i - 1 = Len(documents) /\ Len(asked) = i - 1 /\ Len(out) = i - 1 /\ at \in began .. clock
      BY <1>1, BeforeThis DEF IInv, DocumentsDone
    <2> QED
      BY <1>1, <2>1 DEF IInv, DocumentsDone
  <1>3. CASE Len(out) = 0 /\ Fail({"ErrMalformed"})
    <2>1. ~WellFormedResponse(in)
      BY <1>1, <1>3, UndeservedEmpty DEF WellFormedResponse, documents
    <2> QED
      BY <1>1, <1>2, <1>3, <2>1, RejectDecides DEF FaultAt
  <1>4. CASE /\ Len(out) # 0 /\ pc' = "done"
             /\ UNCHANGED <<clock, in, at, i, answer, loop, out, err, began, asked>>
    <2>1. documents # <<>>
      BY <1>2, <1>4
    <2>2. ~FaultAt(at)
      BY <1>1, <1>2, <2>1, ReadIsWellFormed DEF FaultAt
    <2>3. err' = {} /\ out' = out /\ pc' = "done" /\ asked' = asked
      BY <1>1, <1>4 DEF IInv, NoErrorYet
    <2>4. Contract!Accept
      BY <1>2, <2>3, SamePredicates DEF Contract!Accept, documents
    <2>5. /\ ~Contract!AtFault(at) /\ Contract!Accept
          /\ Len(asked) = Len(in.DeviceResponse.documents)
      BY <1>2, <2>2, <2>4, SameFaults DEF documents
    <2> QED
      BY <1>1, <1>2, <1>4, <2>5 DEF Contract!Decide
  <1> QED
    BY <1>3, <1>4 DEF EndDocuments

\* The return to the caller is the contract's.
LEMMA MapsReturn == IInv /\ Return => Contract!Return
BY DEF Return, Contract!Return

\* Time passes for both.
LEMMA MapsTick == IInv /\ Tick => Contract!Tick
BY DEF Tick, Contract!Tick, IInv, TypeOK, Time

\* Every behaviour of Verify is one of the contract: it asks the trust layer about one
\* document after the other as long as there is no fault, as of one instant of the call it
\* rejects a response with a fault and accepts one without, and of what it rejects it
\* returns nothing.
THEOREM Refinement == Spec => KeepsContract
  <1>1. Init => Contract!Init
    BY DEF Init, Contract!Init
  <1>2. IInv /\ [Next]_vars => [Contract!Next]_(Contract!cvars)
    <2> SUFFICES ASSUME IInv, [Next]_vars PROVE [Contract!Next]_(Contract!cvars)
      OBVIOUS
    <2>1. ASSUME NEW input \in Inputs, Call(input) PROVE [Contract!Next]_(Contract!cvars)
      BY <2>1, MapsCall DEF Contract!Next
    <2>2. CASE EndDocuments \/ ResolveIssuerKey \/ Return \/ Tick
      BY <2>2, MapsEndDocuments, MapsResolveIssuerKey, MapsReturn, MapsTick DEF Contract!Next
    <2>3. CASE UNCHANGED vars
      BY <2>3 DEF vars, Contract!cvars
    <2> QED
      BY <2>1, <2>2, <2>3, MapsVerify, MapsNextDocument, MapsVerifyIssuerAuth,
         MapsRangeNamespace, MapsRangeItem, MapsDeviceAuth, MapsAppendVerified, MapsEndNamespace
      DEF Next, Step
  <1> QED
    BY Invariance, <1>1, <1>2, PTL DEF Spec, KeepsContract, Contract!Spec

-----------------------------------------------------------------------------
(* The sentinels name faults the response has. *)

\* A call that fails with a true reason leaves a true reason.
LEMMA FailsTruly ==
    ASSUME IInv, Busy \/ pc = "called", NEW e, Fail(e), TrustRefused \/ TrueReason(e)
    PROVE  ReasonIsTrue'
  <1>1. documents' = documents /\ doc' = doc /\ mso' = mso
    BY DEF Fail, documents, doc, mso
  <1>2. \A j \in 1 .. i - 1 : Acceptable(documents[j], in, at, asked[j])
    <2>1. CASE Busy
      BY <2>1, BeforeThis
    <2>2. CASE pc = "called"
      BY <2>2 DEF IInv, Idle
    <2> QED
      BY <2>1, <2>2
  <1>3. (\A j \in 1 .. i - 1 : Acceptable(documents[j], in, at, asked[j]))'
    BY <1>1, <1>2 DEF Fail
  <1>4. TrustRefused => TrustRefused'
    BY DEF Fail, TrustRefused
  <1>5. TrueReason(e) => TrueReason(err)'
    BY <1>1 DEF Fail, TrueReason
  <1> QED
    BY <1>3, <1>4, <1>5 DEF ReasonIsTrue

\* x5chainFrom refuses a chain that is missing, empty or undecodable, and says which.
LEMMA ChainRefused ==
    ASSUME NEW raw, NEW p, p.unprotected = raw.unprotected, p.protected = raw.protected,
           NEW e, e = x5chainFrom(p).err, e # {}
    PROVE  \/ e = {"ErrIssuerAuth"} /\ \A chain \in Carried(raw) : chain = <<>>
           \/ /\ e = {"ErrMalformed"}
              /\ \/ Malformed \in Carried(raw)
                 \/ Carried(raw) = {} /\ raw.protected = Malformed
  <1> DEFINE InHeader(h) == h \notin {Absent, Malformed} /\ h.x5chain # Absent
             unprot == x5chainFromMap(p.unprotected)
             prot == x5chainFromMap(p.protected)
  <1>1. ASSUME NEW h, InHeader(h)
        PROVE  \/ h.x5chain = Malformed /\ x5chainFromMap(h).err = {"ErrMalformed"}
               \/ h.x5chain = <<>> /\ x5chainFromMap(h).err = {"ErrIssuerAuth"}
               \/ x5chainFromMap(h).err = {} /\ x5chainFromMap(h).val # Absent
    BY <1>1 DEF x5chainFromMap, Ok, Err
  <1>2. ASSUME NEW h, ~InHeader(h) PROVE x5chainFromMap(h).err = {} /\ x5chainFromMap(h).val = Absent
    BY <1>2, AbsentIsNoChain DEF x5chainFromMap, Ok
  <1>3. CASE InHeader(raw.unprotected)
    <2>1. Carried(raw) = {raw.unprotected.x5chain}
      BY <1>3 DEF Carried
    <2>2. unprot.err # {} \/ unprot.val # Absent
      BY <1>1, <1>3
    <2>3. e = unprot.err
      <3> HIDE DEF unprot
      <3> QED
        BY <2>2 DEF x5chainFrom, unprot
    <2> QED
      BY <1>1, <1>3, <2>1, <2>3
  <1>4. CASE ~InHeader(raw.unprotected)
    <2>1. unprot.err = {} /\ unprot.val = Absent
      BY <1>2, <1>4
    <2>2. CASE raw.protected = Malformed
      <3>1. Carried(raw) = {}
        BY <1>4, <2>2 DEF Carried
      <3>2. e = {"ErrMalformed"}
        <4> HIDE DEF unprot
        <4> QED
          BY <2>1, <2>2 DEF x5chainFrom, Err, unprot
      <3> QED
        BY <2>2, <3>1, <3>2
    <2>3. CASE InHeader(raw.protected)
      <3>1. Carried(raw) = {raw.protected.x5chain} /\ raw.protected # Malformed
        BY <1>4, <2>3 DEF Carried
      <3>2. prot.err # {} \/ prot.val # Absent
        BY <1>1, <2>3
      <3>3. e = prot.err
        <4> HIDE DEF unprot, prot
        <4> QED
          BY <2>1, <3>1, <3>2 DEF x5chainFrom, unprot, prot
      <3> QED
        BY <1>1, <2>3, <3>1, <3>3
    <2>4. CASE ~InHeader(raw.protected) /\ raw.protected # Malformed
      <3>1. Carried(raw) = {}
        BY <1>4, <2>4 DEF Carried
      <3>2. prot.err = {} /\ prot.val = Absent
        BY <1>2, <2>4
      <3>3. e = {"ErrIssuerAuth"}
        <4> HIDE DEF unprot, prot
        <4> QED
          BY <2>1, <2>4, <3>2 DEF x5chainFrom, Err, unprot, prot
      <3> QED
        BY <3>1, <3>3
    <2> QED
      BY <2>2, <2>3, <2>4
  <1> QED
    BY <1>3, <1>4

\* What the checks before the trust boundary are refused with.
LEMMA ClaimRefused ==
    ASSUME NEW d \in Document, NEW e, e = issuerClaim(d.issuerAuth).err, e # {}
    PROVE  /\ e \subseteq {"ErrMalformed", "ErrIssuerAuth", "ErrIssuerCertValidity"}
           /\ "ErrIssuerAuth" \in e => LeafUnreadable(d.issuerAuth)
           /\ "ErrMalformed" \in e => ClaimUnreadable(d.issuerAuth)
           /\ "ErrIssuerCertValidity" \in e =>
                /\ ~LeafUnreadable(d.issuerAuth) /\ ~ClaimUnreadable(d.issuerAuth)
                /\ \A chain \in Carried(d.issuerAuth) :
                        ~InLeafWindow(chain, d.issuerAuth.payload.validityInfo.signed)
  <1> DEFINE raw == d.issuerAuth
             parts == coseParts(raw)
             chain == x5chainFrom(parts.val)
             claimed == claimedSigningTime(parts.val.payload)
             window == checkSignerWindow(chain.val, claimed.val)
  <1>1. CASE parts.err # {}
    <2>1. raw = Malformed \/ raw.len # 4
      BY <1>1 DEF coseParts, Ok
    <2>2. LeafUnreadable(raw) /\ ClaimUnreadable(raw)
      BY <2>1 DEF LeafUnreadable, ClaimUnreadable
    <2>3. parts.err = {"ErrMalformed"}
      BY <1>1 DEF coseParts, Ok, Err
    <2>4. e = {"ErrIssuerAuth", "ErrMalformed"}
      <3> HIDE DEF parts
      <3> QED
        BY <1>1, <2>3 DEF issuerClaim, Err, parts
    <2> QED
      BY <2>2, <2>4
  <1>2. CASE parts.err = {} /\ chain.err # {}
    <2>1. parts.val.unprotected = raw.unprotected /\ parts.val.protected = raw.protected
      BY <1>2, PartsOf
    <2>2. \/ chain.err = {"ErrIssuerAuth"} /\ \A c \in Carried(raw) : c = <<>>
          \/ /\ chain.err = {"ErrMalformed"}
             /\ \/ Malformed \in Carried(raw)
                \/ Carried(raw) = {} /\ raw.protected = Malformed
      <3> HIDE DEF parts
      <3> QED
        BY <2>1, <1>2, ChainRefused
    <2>3. e = chain.err
      <3> HIDE DEF parts, chain
      <3> QED
        BY <1>2 DEF issuerClaim, parts, chain
    <2> HIDE DEF chain
    <2> QED
      BY <2>2, <2>3 DEF LeafUnreadable, ClaimUnreadable
  <1>3. CASE parts.err = {} /\ chain.err = {} /\ claimed.err # {}
    <2>1. parts.val.payload = raw.payload
      BY <1>3, PartsOf
    <2>2. /\ claimed.err = {"ErrMalformed"}
          /\ raw.payload \in {Absent, Malformed} \/ raw.payload.validityInfo.signed = 0
      BY <1>3, <2>1 DEF claimedSigningTime, Ok, Err
    <2>3. e = claimed.err
      <3> HIDE DEF parts, chain, claimed
      <3> QED
        BY <1>3 DEF issuerClaim, parts, chain, claimed
    <2> QED
      BY <2>2, <2>3 DEF ClaimUnreadable
  <1>4. CASE parts.err = {} /\ chain.err = {} /\ claimed.err = {}
    <2>1. /\ raw # Malformed /\ raw.len = 4 /\ parts.val.payload = raw.payload
      BY <1>4, PartsOf
    <2>2. /\ raw.payload \notin {Absent, Malformed} /\ raw.payload.validityInfo.signed # 0
          /\ claimed.val = raw.payload.validityInfo.signed
      BY <1>4, <2>1 DEF claimedSigningTime, Ok, Err
    <2>3. chain.val \in Carried(raw) /\ chain.val \notin {Absent, Malformed, <<>>}
      BY <1>4, ChainOf
    <2>4. Carried(raw) = {chain.val}
      BY <2>3 DEF Carried
    <2>5. e = window /\ window # {}
      <3> HIDE DEF parts, chain, claimed, window
      <3> QED
        BY <1>4 DEF issuerClaim, Ok, Err, parts, chain, claimed, window
    <2>6. ~ClaimUnreadable(raw)
      BY <2>1, <2>2, <2>3, <2>4 DEF ClaimUnreadable
    <2>7. CASE chain.val[1] = Malformed
      <3>1. LeafUnreadable(raw)
        BY <2>4, <2>7 DEF LeafUnreadable
      <3>2. window = {"ErrIssuerAuth"}
        <4> HIDE DEF chain, claimed
        <4> QED
          BY <2>7 DEF checkSignerWindow
      <3> QED
        BY <2>5, <3>1, <3>2
    <2>8. CASE chain.val[1] # Malformed
      <3>1. ~LeafUnreadable(raw)
        BY <2>1, <2>3, <2>4, <2>8 DEF LeafUnreadable
      <3> HIDE DEF chain, claimed
      <3>2. window = {"ErrIssuerCertValidity"}
        BY <2>3, <2>5, <2>8 DEF checkSignerWindow
      <3>3. ~InLeafWindow(chain.val, claimed.val)
        BY <2>1, <2>2, <2>3, <3>2, WindowPasses
      <3> QED
        BY <2>2, <2>4, <2>5, <2>6, <3>1, <3>2, <3>3
    <2> QED
      BY <2>7, <2>8
  <1> QED
    BY <1>1, <1>2, <1>3, <1>4
\* e names the first thing wrong with what the key in answer a signed.
AuthFault(d, a, t, e) ==
    LET m == d.issuerAuth.payload
        signed == a.val \in Keys /\ SignedBy(d.issuerAuth, a.val, m)
        strong == signed /\ m.digestAlgorithm # "SHA-1"
        valid == strong /\ ValidAt(m.validityInfo, t)
    IN  \/ /\ ~signed /\ "ErrIssuerAuth" \in e
           /\ e \subseteq {"ErrIssuerAuth"} \cup CryptoSentinels
        \/ signed /\ ~strong /\ e = {"ErrDigestAlg"}
        \/ strong /\ ~Coherent(m.validityInfo) /\ e = {"ErrMalformed"}
        \/ /\ strong /\ Coherent(m.validityInfo) /\ ~ValidAt(m.validityInfo, t)
           /\ e = {"ErrValidity"}
        \/ /\ valid /\ ~SealedKey(m, m.deviceKey.pt)
           /\ \/ e = {"ErrMalformed"}
              \/ /\ e = {"ErrMalformed", "ErrUnsupported"} /\ m.deviceKey # Malformed
                 /\ m.deviceKey.kty # "EC2" \/ m.deviceKey.crv \notin {1, 2, 3}

\* What verifyIssuerAuth is refused with once the trust layer returned without an error.
LEMMA AuthRefused ==
    ASSUME NEW d \in Document, issuerClaim(d.issuerAuth).err = {},
           NEW a \in Answer, a.err = {}, NEW t \in Nat,
           NEW e, e = authenticateMSO(d.issuerAuth, a, t), e # {}
    PROVE  AuthFault(d, a, t, e)
  <1> DEFINE raw == d.issuerAuth
             parts == coseParts(raw)
             payload == VerifyCOSESign1(coseAssemble(parts.val), a.val)
             m == raw.payload
             signed == a.val \in Keys /\ SignedBy(raw, a.val, m)
  <1>1. /\ m \in MobileSecurityObject /\ m \notin {Absent, Malformed} /\ parts.err = {}
        /\ issuerClaim(raw).val.signed = m.validityInfo.signed
    BY ClaimPoses DEF issuerClaim, Err, Poses
  <1>2. a.val \in Opt(Keys)
    BY DEF Answer
  <1>3. parts.val = [parts.val EXCEPT !.payload = m]
    BY <1>1 DEF coseParts, Ok, Err
  <1>4. CASE a.val = Absent
    <2>1. ~signed
      BY <1>4, SentinelValues
    <2>2. e = {"ErrIssuerAuth"}
      BY <1>4 DEF authenticateMSO, resolution
    <2> QED
      BY <2>1, <2>2 DEF AuthFault
  <1>5. CASE a.val # Absent /\ payload.err # {}
    <2>1. a.val \in Keys /\ resolution(a) = {}
      BY <1>2, <1>5 DEF resolution, Opt
    <2>2. ~signed
      <3> SUFFICES ASSUME SignedBy(raw, a.val, m) PROVE FALSE
        OBVIOUS
      <3>1. payload = Ok(m)
        <4>1. VerifyCOSESign1(coseAssemble([parts.val EXCEPT !.payload = m]), a.val) = Ok(m)
          <5> HIDE DEF m, raw
          <5> QED
            BY <1>1, SignedIsVerified
        <4> QED
          BY <1>3, <4>1
      <3> QED
        BY <1>5, <3>1 DEF Ok
    <2>3. e = {"ErrIssuerAuth"} \cup payload.err
      <3> HIDE DEF payload
      <3> QED
        BY <1>5, <2>1 DEF authenticateMSO, payload
    <2>4. payload.err \subseteq CryptoSentinels
      <3> HIDE DEF parts
      <3> QED
        BY DEF VerifyCOSESign1, Ok, Err, CryptoSentinels
    <2> QED
      BY <2>2, <2>3, <2>4 DEF AuthFault
  <1>6. CASE a.val # Absent /\ payload.err = {}
    <2>1. a.val \in Keys /\ resolution(a) = {}
      BY <1>2, <1>6 DEF resolution, Opt
    <2>2. SignedBy(raw, a.val, m) /\ payload.val = m
      <3>1. payload = VerifyCOSESign1(coseAssemble([parts.val EXCEPT !.payload = m]), a.val)
        BY <1>3
      <3> HIDE DEF payload, m, raw
      <3> QED
        BY <1>1, <1>6, <3>1, VerifiedIsSigned
    <2> DEFINE alg == hashForMSODigestAlg(m.digestAlgorithm)
               window == checkValidity(m.validityInfo, t)
               key == parseCOSEKey(m.deviceKey).err
    <2>3. \/ alg # {} /\ e = alg
          \/ alg = {} /\ window # {} /\ e = window
          \/ alg = {} /\ window = {} /\ key # {} /\ e = {"ErrMalformed"} \cup key
      <3> HIDE DEF payload, m, alg, window, key
      <3> QED
        BY <1>1, <1>6, <2>1, <2>2 DEF authenticateMSO, payload, alg, window, key
    <2>4. \/ alg = {} /\ m.digestAlgorithm # "SHA-1"
          \/ alg = {"ErrDigestAlg"} /\ m.digestAlgorithm = "SHA-1"
      BY <1>1 DEF hashForMSODigestAlg, MobileSecurityObject, DigestAlgs
    <2>5. \/ window = {} /\ ValidAt(m.validityInfo, t)
          \/ window = {"ErrMalformed"} /\ ~Coherent(m.validityInfo)
          \/ window = {"ErrValidity"} /\ Coherent(m.validityInfo) /\ ~ValidAt(m.validityInfo, t)
      <3>1. m.validityInfo.validFrom \in Nat /\ m.validityInfo.validUntil \in Nat
        BY <1>1 DEF MobileSecurityObject, ValidityInfo, Time
      <3> HIDE DEF m
      <3> QED
        BY <3>1 DEF checkValidity, ValidAt, Coherent
    <2>6. key # {} => ~SealedKey(m, m.deviceKey.pt)
      BY SealedKeyParses
    <2>7. \/ key \subseteq {"ErrMalformed"}
          \/ /\ key = {"ErrUnsupported"} /\ m.deviceKey # Malformed
             /\ m.deviceKey.kty # "EC2" \/ m.deviceKey.crv \notin {1, 2, 3}
      <3> HIDE DEF m
      <3> QED
        BY DEF parseCOSEKey, curveForCOSELabel, Ok, Err
    <2> HIDE DEF alg, window, key, m, raw
    <2>8. CASE alg # {}
      BY <2>1, <2>2, <2>3, <2>4, <2>8 DEF m, raw, AuthFault
    <2>9. CASE alg = {} /\ window # {}
      BY <2>1, <2>2, <2>3, <2>4, <2>5, <2>9 DEF m, raw, AuthFault
    <2>10. CASE alg = {} /\ window = {}
      BY <2>1, <2>2, <2>3, <2>4, <2>5, <2>6, <2>7, <2>10 DEF m, raw, AuthFault
    <2> QED
      BY <2>8, <2>9, <2>10
  <1> QED
    BY <1>4, <1>5, <1>6

\* What the later checks are refused with.
LEMMA ItemRefused ==
    ASSUME NEW item, NEW digests, NEW alg, NEW e, e = checkItem(item, digests, alg)
    PROVE  /\ e \subseteq {"ErrMalformed", "ErrIntegrity"}
           /\ "ErrMalformed" \in e => item = Malformed \/ item.elementValue = Malformed
BY DEF checkItem

LEMMA DeviceRefused ==
    ASSUME NEW d, NEW key, NEW st, NEW e, e = verifyDeviceAuth(d, key, st)
    PROVE  /\ e \subseteq {"ErrMalformed", "ErrDeviceAuth", "ErrDeviceMacUnsupported"}
                            \cup CryptoSentinels
           /\ e \cap CryptoSentinels # {} => "ErrDeviceAuth" \in e
           /\ "ErrDeviceMacUnsupported" \in e => d.deviceMac
           /\ "ErrDeviceAuth" \in e => ~d.deviceMac
           /\ "ErrMalformed" \in e => d.deviceSignature = Malformed \/ d.deviceSignature.len # 4
  <1> DEFINE spliced == spliceCOSEPayload(d.deviceSignature,
                            DeviceAuthentication(st, d.docType, d.deviceNameSpaces))
             verified == VerifyCOSESign1(spliced.val, key).err
  <1>1. \/ spliced.err = {}
        \/ /\ spliced.err = {"ErrMalformed"}
           /\ d.deviceSignature = Malformed \/ d.deviceSignature.len # 4
    BY DEF spliceCOSEPayload, coseParts, Ok, Err
  <1> HIDE DEF spliced
  <1>2. verified \subseteq CryptoSentinels
    BY DEF VerifyCOSESign1, Ok, Err, CryptoSentinels
  <1>3. CryptoSentinels \cap {"ErrMalformed", "ErrDeviceAuth", "ErrDeviceMacUnsupported"} = {}
    BY DEF CryptoSentinels
  <1> HIDE DEF verified
  <1>4. \/ e = {"ErrDeviceMacUnsupported"} /\ d.deviceMac
        \/ ~d.deviceMac /\ \/ e = {"ErrDeviceAuth"}
                           \/ spliced.err # {} /\ e = {"ErrDeviceAuth"} \cup spliced.err
                           \/ e = {"ErrDeviceAuth"} \cup verified
                           \/ e = {}
    BY DEF verifyDeviceAuth, spliced, verified
  <1> QED
    BY <1>1, <1>2, <1>3, <1>4

LEMMA StatusRefused ==
    ASSUME NEW raw, NEW e, e = parseMSOStatus(raw).err
    PROVE  /\ e \subseteq {"ErrMalformed", "ErrStatus"}
           /\ "ErrMalformed" \in e => raw = Malformed
           /\ e # {} => "ErrStatus" \in e
BY DEF parseMSOStatus, Ok, Err

\* What is known of a document past verifyIssuerAuth.
LEMMA GenuineFacts ==
    ASSUME IInv, Genuine
    PROVE  /\ i > 0 /\ Len(asked) = i /\ asked[i].answer.val \in Keys
           /\ SignedBy(doc.issuerAuth, asked[i].answer.val, mso)
           /\ mso.digestAlgorithm # "SHA-1" /\ ValidAt(mso.validityInfo, at)
           /\ SealedKey(mso, mso.deviceKey.pt) /\ mso.docType = doc.docType
  <1>1. Answered
    BY DEF Genuine, Answered
  <1>2. i \in 1 .. Len(documents) /\ Len(asked) = i
    BY <1>1, LastAnswer
  <1>3. IssuerAuthentic(doc, asked[i].answer)
    BY GenuineDocument
  <1> QED
    BY <1>2, <1>3, GenuineDocument DEF IssuerAuthentic, mso

\* The head of Verify names what is wrong with the arguments or the whole response.
LEMMA ReasonVerify == IInv /\ Verify => ReasonIsTrue'
  <1> SUFFICES ASSUME IInv, Verify PROVE ReasonIsTrue'
    OBVIOUS
  <1> DEFINE e == IF ~in.IssuerTrust THEN {"ErrUnsupported"}
                  ELSE DecodeDeviceResponse(in.DeviceResponse)
  <1>1. CASE e # {}
    <2>1. Fail(e) /\ pc = "called" /\ i = 0
      BY <1>1 DEF Verify, IInv, Idle
    <2>2. \/ e = {"ErrUnsupported"} /\ ~in.IssuerTrust
          \/ /\ e = {"ErrMalformed"}
             /\ in.DeviceResponse = Malformed \/ in.DeviceResponse.version = Absent
          \/ /\ e = {"ErrDeviceResponseStatus"} /\ in.DeviceResponse # Malformed
             /\ in.DeviceResponse.status # 0 \/ in.DeviceResponse.documentErrors
      BY <1>1 DEF DecodeDeviceResponse
    <2> HIDE DEF e
    <2>3. TrueReason(e)
      BY <2>1, <2>2 DEF TrueReason, CryptoSentinels
    <2> QED
      BY <2>1, <2>3, FailsTruly
  <1>2. CASE e = {}
    BY <1>2 DEF Verify, ReasonIsTrue, Rejected
  <1> QED
    BY <1>1, <1>2

\* The head of the document loop names what is wrong with a document the trust layer has
\* not been asked about.
LEMMA ReasonNextDocument == IInv /\ NextDocument => ReasonIsTrue'
  <1> SUFFICES ASSUME IInv, NextDocument PROVE ReasonIsTrue'
    OBVIOUS
  <1> DEFINE claim == issuerClaim(doc.issuerAuth).err
             expected == in.ExpectedDocType \in {Absent, doc.docType}
             e == IF in.ExpectedDocType # Absent /\ doc.docType # in.ExpectedDocType
                  THEN {"ErrDocTypeMismatch"} ELSE claim
  <1>1. pc = "document" /\ Busy /\ ~Answered /\ i <= Len(documents)
    BY DEF NextDocument, Busy, Answered
  <1>2. doc \in Document /\ i \in 1 .. Len(documents) /\ Len(asked) = i - 1
    <2>1. documents \in Seq(Document) /\ i \in Nat /\ i >= 1 /\ Len(asked) = i - 1
      BY <1>1, BeforeThis
    <2> QED
      BY <1>1, <2>1 DEF doc
  <1>3. CASE e # {}
    <2>1. Fail(e)
      BY <1>3 DEF NextDocument
    <2>2. CASE ~expected
      <3>1. e = {"ErrDocTypeMismatch"}
        BY <2>2
      <3> HIDE DEF e
      <3>2. TrueReason(e)
        BY <1>2, <2>2, <3>1 DEF TrueReason, CryptoSentinels
      <3> QED
        BY <1>1, <2>1, <3>2, FailsTruly
    <2>3. CASE expected
      <3>1. e = claim
        BY <2>3
      <3>2. /\ e \subseteq {"ErrMalformed", "ErrIssuerAuth", "ErrIssuerCertValidity"}
            /\ "ErrIssuerAuth" \in e => LeafUnreadable(doc.issuerAuth)
            /\ "ErrMalformed" \in e => ClaimUnreadable(doc.issuerAuth)
            /\ "ErrIssuerCertValidity" \in e =>
                /\ ~LeafUnreadable(doc.issuerAuth) /\ ~ClaimUnreadable(doc.issuerAuth)
                /\ \A chain \in Carried(doc.issuerAuth) :
                        ~InLeafWindow(chain, mso.validityInfo.signed)
        <4> HIDE DEF e
        <4> QED
          BY <1>2, <1>3, <3>1, ClaimRefused DEF mso
      <3> HIDE DEF e, claim
      <3>3. TrueReason(e)
        BY <1>2, <2>3, <3>2 DEF TrueReason, CryptoSentinels
      <3> QED
        BY <1>1, <2>1, <3>3, FailsTruly
    <2> QED
      BY <2>2, <2>3
  <1>4. CASE e = {}
    BY <1>4 DEF NextDocument, ReasonIsTrue, Rejected
  <1> QED
    BY <1>3, <1>4

\* verifyIssuerAuth names the first thing wrong with what the trust layer's key signed.
LEMMA ReasonVerifyIssuerAuth == IInv /\ verifyIssuerAuth => ReasonIsTrue'
  <1> SUFFICES ASSUME IInv, verifyIssuerAuth PROVE ReasonIsTrue'
    OBVIOUS
  <1> DEFINE auth == authenticateMSO(doc.issuerAuth, answer, at)
             e == IF auth # {} THEN auth ELSE checkDocType(mso.docType, doc.docType)
  <1>1. pc = "answered" /\ Busy /\ Answered
    BY DEF verifyIssuerAuth, Busy, Answered
  <1>2. /\ doc \in Document /\ issuerClaim(doc.issuerAuth).err = {}
        /\ answer \in Answer /\ at \in Nat /\ i > 0 /\ Len(asked) = i
        /\ asked # <<>> /\ asked[i].answer = answer
    BY <1>1, LastAnswer
  <1>3. CASE e # {}
    <2>1. Fail(e)
      BY <1>3 DEF verifyIssuerAuth
    <2>2. CASE answer.err # {}
      <3>1. TrustRefused
        BY <1>2, <2>2 DEF TrustRefused
      <3> HIDE DEF e
      <3> QED
        BY <1>1, <2>1, <3>1, FailsTruly
    <2>3. CASE answer.err = {} /\ auth # {}
      <3> DEFINE signed == asked[i].answer.val \in Keys
                            /\ SignedBy(doc.issuerAuth, asked[i].answer.val, mso)
                 strong == signed /\ mso.digestAlgorithm # "SHA-1"
                 valid == strong /\ ValidAt(mso.validityInfo, at)
      <3>1. \/ /\ ~signed /\ "ErrIssuerAuth" \in auth
               /\ auth \subseteq {"ErrIssuerAuth"} \cup CryptoSentinels
            \/ signed /\ ~strong /\ auth = {"ErrDigestAlg"}
            \/ strong /\ ~Coherent(mso.validityInfo) /\ auth = {"ErrMalformed"}
            \/ /\ strong /\ Coherent(mso.validityInfo) /\ ~ValidAt(mso.validityInfo, at)
               /\ auth = {"ErrValidity"}
            \/ /\ valid /\ ~SealedKey(mso, mso.deviceKey.pt)
               /\ \/ auth = {"ErrMalformed"}
                  \/ /\ auth = {"ErrMalformed", "ErrUnsupported"} /\ mso.deviceKey # Malformed
                     /\ mso.deviceKey.kty # "EC2" \/ mso.deviceKey.crv \notin {1, 2, 3}
        <4>1. AuthFault(doc, answer, at, auth)
          BY <1>2, <2>3, AuthRefused
        <4> HIDE DEF auth
        <4> QED
          BY <1>2, <4>1 DEF AuthFault, mso
      <3>2. e = auth
        BY <2>3
      <3> HIDE DEF e, auth
      <3>3. TrueReason(e)
        BY <1>2, <3>1, <3>2 DEF TrueReason, CryptoSentinels
      <3> QED
        BY <1>1, <2>1, <3>3, FailsTruly
    <2>4. CASE answer.err = {} /\ auth = {}
      <3>1. /\ answer.val \in Keys /\ SignedBy(doc.issuerAuth, answer.val, mso)
            /\ mso.digestAlgorithm # "SHA-1" /\ ValidAt(mso.validityInfo, at)
            /\ SealedKey(mso, mso.deviceKey.pt)
        BY <1>2, <2>4, AuthenticatedMSO DEF mso
      <3>2. e = {"ErrDocTypeMismatch"} /\ mso.docType # doc.docType
        BY <1>3, <2>4 DEF checkDocType
      <3> HIDE DEF e
      <3>3. TrueReason(e)
        BY <1>2, <3>1, <3>2 DEF TrueReason, CryptoSentinels
      <3> QED
        BY <1>1, <2>1, <3>3, FailsTruly
    <2> QED
      BY <2>2, <2>3, <2>4
  <1>4. CASE e = {}
    BY <1>4 DEF verifyIssuerAuth, ReasonIsTrue, Rejected
  <1> QED
    BY <1>3, <1>4

\* A namespace the MSO has no digests for is an integrity failure of a genuine document.
LEMMA ReasonRangeNamespace == IInv /\ RangeNamespace => ReasonIsTrue'
  <1> SUFFICES ASSUME IInv, RangeNamespace PROVE ReasonIsTrue'
    OBVIOUS
  <1>1. pc = "integrity" /\ Busy /\ Genuine
    BY DEF RangeNamespace, Busy, Genuine
  <1>2. PICK n \in todo :
            \/ mso.valueDigests[n] = Absent /\ Fail({"ErrIntegrity"})
            \/ pc' = "items"
    BY DEF RangeNamespace
  <1>3. CASE mso.valueDigests[n] = Absent /\ Fail({"ErrIntegrity"})
    <2>1. ~ItemsSealed(doc)
      BY <1>1, <1>3, UndeservedNamespace
    <2>2. TrueReason({"ErrIntegrity"})
      BY <1>1, <2>1, GenuineFacts DEF TrueReason, CryptoSentinels
    <2> QED
      BY <1>1, <1>3, <2>2, FailsTruly
  <1>4. CASE pc' = "items"
    BY <1>4 DEF ReasonIsTrue, Rejected
  <1> QED
    BY <1>2, <1>3, <1>4

\* So is an item whose digest does not match; one that does not decode is malformed.
LEMMA ReasonRangeItem == IInv /\ RangeItem => ReasonIsTrue'
  <1> SUFFICES ASSUME IInv, RangeItem PROVE ReasonIsTrue'
    OBVIOUS
  <1> DEFINE item == items[k]
             e == checkItem(item, mso.valueDigests[cur], mso.digestAlgorithm)
  <1>1. pc = "items" /\ Busy /\ Genuine /\ Answered /\ k <= Len(items)
    BY DEF RangeItem, Busy, Genuine, Answered
  <1>2. CASE e # {}
    <2>1. Fail(e)
      BY <1>2 DEF RangeItem
    <2>2. ~ItemsSealed(doc)
      BY <1>1, <1>2, UndeservedItem
    <2>3. cur \in KeysOf(doc.nameSpaces) /\ k \in 1 .. Len(doc.nameSpaces[cur])
      <3>1. cur \in todo /\ k \in 1 .. Len(items) + 1 /\ todo \subseteq KeysOf(doc.nameSpaces)
        BY <1>1 DEF IInv, ItemsDone, DocumentGenuine
      <3>2. items \in Seq(ItemBytes)
        BY <1>1, <3>1, NamespaceTyped DEF items
      <3> QED
        BY <1>1, <3>1, <3>2 DEF items
    <2>4. e \subseteq {"ErrMalformed", "ErrIntegrity"}
          /\ ("ErrMalformed" \in e => item = Malformed \/ item.elementValue = Malformed)
      <3> HIDE DEF e, item
      <3> QED
        BY ItemRefused DEF e
    <2>5. "ErrMalformed" \in e => ItemUnreadable(doc)
      <3> HIDE DEF e
      <3> QED
        BY <2>3, <2>4 DEF ItemUnreadable, items
    <2> HIDE DEF e, item
    <2>6. TrueReason(e)
      BY <1>1, <2>2, <2>4, <2>5, GenuineFacts DEF TrueReason, CryptoSentinels
    <2> QED
      BY <1>1, <2>1, <2>6, FailsTruly DEF e
  <1>3. CASE e = {}
    BY <1>1, <1>3 DEF RangeItem, ReasonIsTrue, Rejected
  <1> QED
    BY <1>2, <1>3

\* Device authentication is blamed only when everything before it holds.
LEMMA ReasonDeviceAuth == IInv /\ DeviceAuth => ReasonIsTrue'
  <1> SUFFICES ASSUME IInv, DeviceAuth PROVE ReasonIsTrue'
    OBVIOUS
  <1> DEFINE e == verifyDeviceAuth(doc, parseCOSEKey(mso.deviceKey).val, in.SessionTranscript)
  <1>1. pc = "integrity" /\ Busy /\ Genuine /\ todo = {}
    BY DEF DeviceAuth, Busy, Genuine
  <1>2. CASE e # {}
    <2>1. Fail(e)
      BY <1>2 DEF DeviceAuth
    <2>2. ~BoundToSession(doc, mso.deviceKey.pt, in.SessionTranscript)
      BY <1>1, <1>2, UndeservedDevice
    <2>3. ItemsSealed(doc)
      BY <1>1, AllSealed
    <2> HIDE DEF e
    <2>4. /\ e \subseteq {"ErrMalformed", "ErrDeviceAuth", "ErrDeviceMacUnsupported"}
                            \cup CryptoSentinels
          /\ e \cap CryptoSentinels # {} => "ErrDeviceAuth" \in e
          /\ "ErrDeviceMacUnsupported" \in e => doc.deviceMac
          /\ "ErrDeviceAuth" \in e => ~doc.deviceMac
          /\ "ErrMalformed" \in e =>
                doc.deviceSignature = Malformed \/ doc.deviceSignature.len # 4
      BY DeviceRefused DEF e
    <2>5. TrueReason(e)
      BY <1>1, <2>2, <2>3, <2>4, GenuineFacts DEF TrueReason, CryptoSentinels
    <2> QED
      BY <1>1, <2>1, <2>5, FailsTruly
  <1>3. CASE e = {}
    BY <1>3 DEF DeviceAuth, ReasonIsTrue, Rejected
  <1> QED
    BY <1>2, <1>3

\* The status is blamed only when everything else holds.
LEMMA ReasonAppendVerified == IInv /\ AppendVerified => ReasonIsTrue'
  <1> SUFFICES ASSUME IInv, AppendVerified PROVE ReasonIsTrue'
    OBVIOUS
  <1> DEFINE e == parseMSOStatus(mso.status).err
  <1>1. pc = "status" /\ Busy
    BY DEF AppendVerified, Busy
  <1>2. CASE e # {}
    <2>1. Fail(e)
      BY <1>2 DEF AppendVerified
    <2>2. ~StatusReadable(mso)
      BY <1>2, ReadablePasses
    <2>3. Genuine /\ BoundToSession(doc, mso.deviceKey.pt, in.SessionTranscript) /\ ItemsSealed(doc)
      BY <1>1, BoundBefore, AllSealed
    <2> HIDE DEF e
    <2>4. e \subseteq {"ErrMalformed", "ErrStatus"} /\ ("ErrMalformed" \in e => mso.status = Malformed)
      BY StatusRefused DEF e
    <2>5. TrueReason(e)
      BY <2>2, <2>3, <2>4, GenuineFacts DEF TrueReason, CryptoSentinels
    <2> QED
      BY <1>1, <2>1, <2>5, FailsTruly
  <1>3. CASE e = {}
    BY <1>3 DEF AppendVerified, ReasonIsTrue, Rejected
  <1> QED
    BY <1>2, <1>3

\* An empty response is malformed.
LEMMA ReasonEndDocuments == IInv /\ EndDocuments => ReasonIsTrue'
  <1> SUFFICES ASSUME IInv, EndDocuments PROVE ReasonIsTrue'
    OBVIOUS
  <1>1. pc = "document" /\ Busy /\ ~Answered /\ i > Len(documents)
    BY DEF EndDocuments, Busy, Answered
  <1>2. CASE Len(out) = 0 /\ Fail({"ErrMalformed"})
    <2>1. documents = <<>> /\ i = 1
      BY <1>1, <1>2, UndeservedEmpty, BeforeThis DEF IInv, DocumentsDone
    <2>2. TrueReason({"ErrMalformed"})
      BY <2>1 DEF TrueReason, CryptoSentinels
    <2> QED
      BY <1>1, <1>2, <2>2, FailsTruly
  <1>3. CASE pc' = "done" /\ UNCHANGED err
    BY <1>1, <1>3 DEF IInv, NoErrorYet, ReasonIsTrue, Rejected
  <1> QED
    BY <1>2, <1>3 DEF EndDocuments

\* A true reason stays true.
LEMMA ReasonTick == ReasonIsTrue /\ (Tick \/ UNCHANGED vars) => ReasonIsTrue'
  <1> SUFFICES ASSUME ReasonIsTrue, Tick \/ UNCHANGED vars PROVE ReasonIsTrue'
    OBVIOUS
  <1>1. UNCHANGED <<pc, in, at, i, err, asked>>
    BY DEF Tick, vars
  <1>2. documents' = documents /\ doc' = doc /\ mso' = mso /\ Rejected' = Rejected
    BY <1>1 DEF documents, doc, mso, Rejected
  <1>3. TrustRefused' = TrustRefused /\ TrueReason(err)' = TrueReason(err)
    BY <1>1, <1>2 DEF TrustRefused, TrueReason
  <1> QED
    BY <1>1, <1>2, <1>3 DEF ReasonIsTrue

\* Every sentinel a caller finds in the error of a call, unless the trust layer refused,
\* names a fault the response really has, found in the documented order and after
\* documents that were all acceptable.
THEOREM TrueReasons == Spec => []ReasonIsTrue
  <1>1. Init => ReasonIsTrue
    BY DEF Init, ReasonIsTrue, Rejected
  <1>2. IInv /\ ReasonIsTrue /\ [Next]_vars => ReasonIsTrue'
    <2> SUFFICES ASSUME IInv, ReasonIsTrue, [Next]_vars PROVE ReasonIsTrue'
      OBVIOUS
    <2>1. ASSUME NEW input \in Inputs, Call(input) PROVE ReasonIsTrue'
      BY <2>1 DEF Call, ReasonIsTrue, Rejected
    <2>2. CASE ResolveIssuerKey \/ EndNamespace \/ Return
      BY <2>2 DEF ResolveIssuerKey, EndNamespace, Return, ReasonIsTrue, Rejected
    <2> QED
      BY <2>1, <2>2, ReasonVerify, ReasonNextDocument, ReasonVerifyIssuerAuth,
         ReasonRangeNamespace, ReasonRangeItem, ReasonDeviceAuth, ReasonAppendVerified,
         ReasonEndDocuments, ReasonTick
      DEF Next, Step
  <1> QED
    BY Invariance, <1>1, <1>2, PTL DEF Spec
=============================================================================
