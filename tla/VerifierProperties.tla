------------------------- MODULE VerifierProperties -------------------------
(***************************************************************************)
(* The properties of Verifier.Verify, stated with the predicates of        *)
(* Acceptance and not with the checks the code makes.                      *)
(***************************************************************************)
EXTENDS Verifier, Acceptance

PCs == {"idle", "called", "document", "trust", "answered", "integrity", "items",
        "status", "done"}
Answer == [val: Opt(Keys), err: SUBSET TrustErrors]
Question == [x5chain: Seq(Cert), signed: Time]

\* Every variable holds a value of the Go type it stands for.
TypeOK ==
    /\ clock \in Time /\ at \in Time /\ began \in Time
    /\ pc \in PCs
    /\ in \in Opt(VerifyInput)
    /\ i \in Nat /\ k \in Nat
    /\ answer \in Opt(Answer)
    /\ todo \subseteq Namespaces /\ cur \in Opt(Namespaces)
    /\ nsOut \in MapOf(Elements, Values)
    /\ namespaces \in MapOf(Namespaces, MapOf(Elements, Values))
    /\ out \in Seq(VerifiedDocument)
    /\ err \subseteq Sentinels \cup CryptoSentinels \cup TrustErrors
    /\ asked \in Seq([question: Question, answer: Answer])

Accepted == pc = "done" /\ err = {}
Rejected == pc = "done" /\ err # {}
MSOOf(j) == documents[j].issuerAuth.payload

\* verifyIssuerAuth, verify.go:128: every document of an accepted response has an
\* MSO signed by a key the trust layer vouched for when it was asked about that
\* very document, and the MSO is for the document's own docType.
AcceptedAuthentic ==
    Accepted =>
        /\ Len(asked) = Len(documents) /\ Len(out) = Len(documents)
        /\ \A j \in 1 .. Len(documents) :
            /\ Poses(documents[j], asked[j].question)
            /\ IssuerAuthentic(documents[j], asked[j].answer)

\* verifyIssuerIntegrity: every disclosed value was sealed, in its own namespace,
\* by the digest of the bytes it arrived in; and what the caller gets is the
\* disclosed elements, all of them and no others.
DisclosedIsSealed ==
    Accepted => \A j \in 1 .. Len(documents) :
        ItemsSealed(documents[j]) /\ Reports(out[j], documents[j])

\* verifyDeviceAuth: the holder of the device key sealed in each MSO signed for
\* the caller's own transcript and for this docType and these device namespaces.
AcceptedBoundToSession ==
    Accepted => \A j \in 1 .. Len(documents) :
        /\ SealedKey(MSOOf(j), out[j].deviceKey)
        /\ BoundToSession(documents[j], out[j].deviceKey, in.SessionTranscript)

\* Verify reads its clock once (verify.go:97): there is one instant within the
\* call at which all documents of an accepted response were valid together, however
\* long the trust calls between the documents took.
OneInstant ==
    Accepted => \E t \in began .. clock :
        \A j \in 1 .. Len(documents) : ValidAt(MSOOf(j).validityInfo, t)

\* mso.go:38-45: the trust layer is asked at most once per document, in document
\* order, about the chain and the time that document carries, never about a
\* signing time outside the leaf's window, and never again once it declined.
TrustAskedInOrder ==
    /\ Len(asked) <= i
    /\ \A j \in 1 .. Len(asked) :
        /\ Poses(documents[j], asked[j].question)
        /\ j < Len(asked) => asked[j].answer.val \in Keys

\* The trust layer's last answer is a refusal.
TrustRefused == asked # <<>> /\ asked[Len(asked)].answer.err # {}

\* mso.go:46-51 "must stay tellable apart by the caller": a refusal of the trust
\* layer reaches the caller with its cause, as an issuer-authentication failure.
RefusalKeepsCause ==
    pc = "done" /\ TrustRefused => err = {"ErrIssuerAuth"} \cup asked[Len(asked)].answer.err

\* No leaf certificate can be read from a COSE_Sign1.
LeafUnreadable(cose) ==
    \/ cose = Malformed \/ cose.len # 4
    \/ \A chain \in Carried(cose) : chain \in {Malformed, <<>>} \/ chain[1] = Malformed

\* Part of what the question to the trust layer is made of does not decode.
ClaimUnreadable(cose) ==
    \/ cose = Malformed \/ cose.len # 4
    \/ Malformed \in Carried(cose)
    \/ Carried(cose) = {} /\ cose.protected = Malformed
    \/ cose.payload \in {Absent, Malformed} \/ cose.payload.validityInfo.signed = 0

Coherent(vi) == vi.validFrom # 0 /\ vi.validFrom < vi.validUntil

\* Some disclosed item of d, or the value in it, does not decode.
ItemUnreadable(d) ==
    \E n \in KeysOf(d.nameSpaces) : \E j \in 1 .. Len(d.nameSpaces[n]) :
        d.nameSpaces[n][j] = Malformed \/ d.nameSpaces[n][j].elementValue = Malformed

\* The sentinels in e name faults that the call under way really has, each found only
\* after what is checked before it turned out to be in order. A document is unasked
\* while the trust layer knows nothing of it; the stages after its answer each include
\* the one before.
TrueReason(e) ==
    LET unasked == i \in 1 .. Len(documents) /\ Len(asked) = i - 1
        expected == in.ExpectedDocType \in {Absent, doc.docType}
        answered == i > 0 /\ Len(asked) = i
        signed == /\ answered /\ asked[i].answer.val \in Keys
                  /\ SignedBy(doc.issuerAuth, asked[i].answer.val, mso)
        strong == signed /\ mso.digestAlgorithm # "SHA-1"
        valid == strong /\ ValidAt(mso.validityInfo, at)
        usable == valid /\ SealedKey(mso, mso.deviceKey.pt)
        genuine == usable /\ mso.docType = doc.docType
        sealed == genuine /\ ItemsSealed(doc)
        bound == sealed /\ BoundToSession(doc, mso.deviceKey.pt, in.SessionTranscript)
    IN  /\ "ErrUnsupported" \in e =>
            \/ i = 0 /\ ~in.IssuerTrust
            \/ valid /\ mso.deviceKey # Malformed
                     /\ (mso.deviceKey.kty # "EC2" \/ mso.deviceKey.crv \notin {1, 2, 3})
        /\ "ErrDeviceResponseStatus" \in e =>
            /\ i = 0 /\ in.DeviceResponse # Malformed
            /\ in.DeviceResponse.status # 0 \/ in.DeviceResponse.documentErrors
        /\ "ErrDocTypeMismatch" \in e =>
            (unasked /\ ~expected) \/ (usable /\ mso.docType # doc.docType)
        /\ "ErrIssuerCertValidity" \in e =>
            /\ unasked /\ expected
            /\ ~LeafUnreadable(doc.issuerAuth) /\ ~ClaimUnreadable(doc.issuerAuth)
            /\ \A chain \in Carried(doc.issuerAuth) : ~InLeafWindow(chain, mso.validityInfo.signed)
        /\ "ErrIssuerAuth" \in e =>
            (unasked /\ expected /\ LeafUnreadable(doc.issuerAuth)) \/ (answered /\ ~signed)
        /\ "ErrDigestAlg" \in e => signed /\ ~strong
        /\ "ErrValidity" \in e =>
            strong /\ Coherent(mso.validityInfo) /\ ~ValidAt(mso.validityInfo, at)
        /\ "ErrIntegrity" \in e => genuine /\ ~ItemsSealed(doc)
        /\ "ErrDeviceMacUnsupported" \in e => sealed /\ doc.deviceMac
        /\ "ErrDeviceAuth" \in e => sealed /\ ~doc.deviceMac /\ ~bound
        /\ "ErrStatus" \in e => bound /\ ~StatusReadable(mso)
        /\ "ErrMalformed" \in e =>
            \/ i = 0 /\ (in.DeviceResponse = Malformed \/ in.DeviceResponse.version = Absent)
            \/ i = 1 /\ documents = <<>>
            \/ unasked /\ expected /\ ClaimUnreadable(doc.issuerAuth)
            \/ strong /\ ~Coherent(mso.validityInfo)
            \/ valid /\ ~SealedKey(mso, mso.deviceKey.pt)
            \/ genuine /\ ItemUnreadable(doc)
            \/ sealed /\ (doc.deviceSignature = Malformed \/ doc.deviceSignature.len # 4)
            \/ bound /\ mso.status = Malformed
        /\ e \cap CryptoSentinels # {} => "ErrIssuerAuth" \in e \/ "ErrDeviceAuth" \in e

\* errors.go: each sentinel becomes a reason code, so it must name the fault that
\* document i really has, found in the documented order, after documents that were all
\* acceptable: an issuer-certificate window problem is never an unknown issuer, and an
\* expired, altered or unbound document is reported as such only when it was signed
\* under a key that was vouched for. Of a refusal by the trust layer, whose cause may be
\* any error, RefusalKeepsCause says what the caller is told.
ReasonIsTrue ==
    Rejected =>
        /\ \A j \in 1 .. i - 1 : Acceptable(documents[j], in, at, asked[j])
        /\ TrustRefused \/ TrueReason(err)

-----------------------------------------------------------------------------
(* The inductive invariant behind these properties: what has been           *)
(* established about the documents done, and about the one under way, at     *)
(* each stage of the call.                                                   *)

Busy == pc \notin {"idle", "called", "done"}
Reading == pc \in {"trust", "answered", "integrity", "items", "status"}
Answered == pc \in {"answered", "integrity", "items", "status"}
Genuine == pc \in {"integrity", "items", "status"}

NamespaceDone(n) ==
    /\ mso.valueDigests[n] # Absent
    /\ \A j \in 1 .. Len(doc.nameSpaces[n]) : ItemSealed(doc.nameSpaces[n][j], mso, n)
    /\ Discloses(namespaces[n], doc.nameSpaces[n], Len(doc.nameSpaces[n]))

Idle == pc \in {"idle", "called"} => asked = <<>> /\ i = 0 /\ out = <<>>
NoErrorYet == pc # "done" => err = {}
InputRead == began <= clock /\ (pc # "idle" => in \in VerifyInput)
ResponseRead ==
    Busy \/ Accepted =>
        /\ in.IssuerTrust /\ in.DeviceResponse \in DeviceResponse
        /\ DecodeDeviceResponse(in.DeviceResponse) = {}
        /\ began <= at /\ at <= clock /\ i >= 1
DocumentsDone ==
    Busy \/ Accepted =>
        /\ Len(out) = i - 1 /\ i - 1 <= Len(documents)
        /\ Len(asked) = IF Answered THEN i ELSE i - 1
        /\ \A j \in 1 .. i - 1 :
            Acceptable(documents[j], in, at, asked[j]) /\ Reports(out[j], documents[j])
DocumentRead ==
    Reading =>
        /\ i <= Len(documents)
        /\ in.ExpectedDocType \in {Absent, doc.docType}
        /\ issuerClaim(doc.issuerAuth).err = {}
DocumentAnswered ==
    Answered => /\ answer \in Answer
                /\ asked[i] = [question |-> issuerClaim(doc.issuerAuth).val, answer |-> answer]
DocumentGenuine ==
    Genuine =>
        /\ authenticateMSO(doc.issuerAuth, answer, at) = {}
        /\ mso.docType = doc.docType
        /\ todo \subseteq KeysOf(doc.nameSpaces)
        /\ KeysOf(namespaces) = KeysOf(doc.nameSpaces) \ todo
        /\ \A n \in KeysOf(namespaces) : NamespaceDone(n)
ItemsDone ==
    pc = "items" =>
        /\ cur \in todo /\ mso.valueDigests[cur] # Absent
        /\ k \in 1 .. Len(items) + 1
        /\ \A j \in 1 .. k - 1 : ItemSealed(items[j], mso, cur)
        /\ Discloses(nsOut, items, k - 1)
DeviceDone ==
    pc = "status" =>
        /\ todo = {}
        /\ verifyDeviceAuth(doc, parseCOSEKey(mso.deviceKey).val, in.SessionTranscript) = {}
AllDone == Accepted => i = Len(documents) + 1 /\ out # <<>>

\* What Verify has established about the response at every point of the call; it
\* implies the safety properties above and is preserved by every step.
IInv ==
    /\ TypeOK /\ Idle /\ NoErrorYet /\ InputRead /\ ResponseRead /\ DocumentsDone
    /\ DocumentRead /\ DocumentAnswered /\ DocumentGenuine /\ ItemsDone /\ DeviceDone
    /\ AllDone /\ TrustAskedInOrder /\ RefusalKeepsCause

-----------------------------------------------------------------------------
\* status.go:24-29 describes status as {"status_list": {"idx": uint, "uri": tstr}} and
\* says that anything else fails closed; so an accepted document whose MSO has a
\* status names its index.
StatusFailsClosed ==
    Accepted => \A j \in 1 .. Len(documents) :
        MSOOf(j).status # Absent => MSOOf(j).status.statusList.idx # Absent

\* errors.go:12 gives "version" as its example of an unsupported construct; so an
\* accepted response is of a supported version, the one Issue and DevicePresent write.
UnsupportedVersionRefused ==
    Accepted => in.DeviceResponse.version = "1.0"

\* Every call of Verify returns.
Termination == pc = "called" ~> pc = "done"

\* What a call under way has still to do: documents, stages of this document, turns of
\* its namespace loop and of the item loop inside it.
Work ==
    LET left == IF in.DeviceResponse = Malformed THEN 0 ELSE Len(documents)
    IN  IF pc \in {"idle", "done"} THEN <<0, 0, 0, 0>>
        ELSE <<IF pc = "called" THEN left + 2 ELSE left + 2 - i,
               CASE pc = "document" -> 3 [] pc = "trust" -> 2 [] pc = "answered" -> 1 [] OTHER -> 0,
               CASE pc = "integrity" -> 2 * Cardinality(todo) + 1
                 [] pc = "items" -> 2 * Cardinality(todo)
                 [] OTHER -> 0,
               IF pc = "items" THEN Len(items) + 1 - k ELSE 0>>

LexLess(a, b) ==
    \E n \in 1 .. 4 : a[n] < b[n] /\ \A m \in 1 .. n - 1 : a[m] = b[m]

\* The loops of verify.go and integrity.go run down, in whatever order Go ranges over
\* the maps: every step of a call leaves less to do, or is only time passing.
EveryStepAdvances ==
    [][pc \notin {"idle", "done"} => clock' # clock \/ LexLess(Work', Work)]_vars

\* Verify keeps the contract: the early-return chain over bytes, maps and callbacks asks
\* the trust layer and decides as the order-free predicates of Acceptance say, as of one
\* instant. It refuses nothing without a fault, also before the trust layer is asked.
Contract == INSTANCE VerifierContract WITH
    phase <- IF pc \in {"idle", "done"} THEN pc ELSE "busy",
    out <- IF pc = "done" THEN out ELSE <<>>

KeepsContract == Contract!Spec
=============================================================================
