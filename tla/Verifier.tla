------------------------------ MODULE Verifier ------------------------------
(***************************************************************************)
(* Verifier.Verify (verify.go) as a state machine: one call at a time, a   *)
(* clock that runs on by itself, and the trust boundary as a step of the   *)
(* environment that may answer anything. The pure checks are operators     *)
(* returning the error of the Go function; the steps between which time    *)
(* passes or an order is chosen (the injected clock, the IssuerTrust call, *)
(* Go's map iteration) are actions.                                        *)
(***************************************************************************)
EXTENDS Cose, FiniteSets

CONSTANTS
    Inputs,         \* the VerifyInputs callers pass
    TrustErrors,    \* causes an IssuerTrust implementation may report, sentinels of
                    \*   the package among them if it likes
    MaxTime         \* bound on the clock

ASSUME InputsAssumption == Inputs \subseteq VerifyInput
\* A Go map has finitely many keys, however many names of namespaces there are.
ASSUME FiniteMapsAssumption ==
    \A input \in Inputs : input.DeviceResponse # Malformed =>
        \A j \in 1 .. Len(input.DeviceResponse.documents) :
            IsFiniteSet(KeysOf(input.DeviceResponse.documents[j].nameSpaces))
ASSUME MaxTimeAssumption == MaxTime \in Nat

VARIABLES
    clock,      \* what v.now() would return
    pc,         \* where the call stands
    in,         \* its VerifyInput
    at,         \* the instant read at the start of the call
    i,          \* index of the document under verification
    answer,     \* what ResolveIssuerKey returned for it
    todo,       \* namespaces of the document not yet ranged over
    cur, k,     \* namespace and item index of the integrity loops
    nsOut,      \* verifyIssuerIntegrity's map for the current namespace
    namespaces, \* its result map
    out,        \* verified documents so far; the result once pc = "done"
    err,        \* the error returned
    began,      \* history: the clock when the call began
    asked       \* history: the questions put to IssuerTrust, with their answers

loop == <<todo, cur, k, nsOut, namespaces>>
vars == <<clock, pc, in, at, i, answer, todo, cur, k, nsOut, namespaces,
          out, err, began, asked>>

documents == in.DeviceResponse.documents
doc == documents[i]
mso == doc.issuerAuth.payload
items == doc.nameSpaces[cur]

-----------------------------------------------------------------------------
(* The checks. *)

DecodeDeviceResponse(raw) ==
    IF raw = Malformed \/ raw.version = Absent THEN {"ErrMalformed"}
    ELSE IF raw.status # 0 \/ raw.documentErrors THEN {"ErrDeviceResponseStatus"}
    ELSE {}

\* The signing time of an MSO whose signature is not verified yet.
claimedSigningTime(payload) ==
    IF payload \in {Absent, Malformed} \/ payload.validityInfo.signed = 0
    THEN Err({"ErrMalformed"})
    ELSE Ok(payload.validityInfo.signed)

\* Mutant of checkSignerWindow: the end of the window is not looked at.
checkSignerWindow_NoEnd(x5chain, signed) ==
    IF x5chain = <<>> \/ x5chain[1] = Malformed THEN {"ErrIssuerAuth"}
    ELSE IF signed < x5chain[1].notBefore THEN {"ErrIssuerCertValidity"} ELSE {}

\* Mutant of checkSignerWindow: its failure is reported as that of an unknown issuer.
checkSignerWindow_IssuerAuth(x5chain, signed) ==
    IF x5chain = <<>> \/ x5chain[1] = Malformed THEN {"ErrIssuerAuth"}
    ELSE IF signed < x5chain[1].notBefore \/ signed > x5chain[1].notAfter
    THEN {"ErrIssuerAuth"}
    ELSE {}

\* Mutant of checkSignerWindow: the window excludes its first instant.
checkSignerWindow_Exclusive(x5chain, signed) ==
    IF x5chain = <<>> \/ x5chain[1] = Malformed THEN {"ErrIssuerAuth"}
    ELSE IF signed <= x5chain[1].notBefore \/ signed > x5chain[1].notAfter
    THEN {"ErrIssuerCertValidity"}
    ELSE {}

\* The signing time lies in the leaf certificate's window, bounds included.
checkSignerWindow(x5chain, signed) ==
    IF x5chain = <<>> \/ x5chain[1] = Malformed THEN {"ErrIssuerAuth"}
    ELSE IF signed < x5chain[1].notBefore \/ signed > x5chain[1].notAfter
    THEN {"ErrIssuerCertValidity"}
    ELSE {}

\* Mutant of checkValidity: each document is held against the clock of its own turn.
checkValidity_Now(vi, t) ==
    IF vi.validFrom = 0 \/ vi.validUntil = 0 \/ ~(vi.validFrom < vi.validUntil)
    THEN {"ErrMalformed"}
    ELSE IF clock < vi.validFrom \/ clock > vi.validUntil THEN {"ErrValidity"}
    ELSE {}

\* The validity window is coherent and holds the instant t, bounds included.
checkValidity(vi, t) ==
    IF vi.validFrom = 0 \/ vi.validUntil = 0 \/ ~(vi.validFrom < vi.validUntil)
    THEN {"ErrMalformed"}
    ELSE IF t < vi.validFrom \/ t > vi.validUntil THEN {"ErrValidity"}
    ELSE {}

\* verifyIssuerAuth up to the trust boundary: the chain and the claimed time it
\* will be asked about.
issuerClaim(issuerAuth) ==
    LET parts == coseParts(issuerAuth) IN
    IF parts.err # {} THEN Err({"ErrIssuerAuth"} \cup parts.err)
    ELSE LET chain == x5chainFrom(parts.val)
             claimed == claimedSigningTime(parts.val.payload) IN
         IF chain.err # {} THEN chain
         ELSE IF claimed.err # {} THEN claimed
         ELSE IF checkSignerWindow(chain.val, claimed.val) # {}
         THEN Err(checkSignerWindow(chain.val, claimed.val))
         ELSE Ok([x5chain |-> chain.val, signed |-> claimed.val])

\* Mutant of resolution: only the text of the trust layer's cause is kept.
resolution_NoCause(ans) ==
    IF ans.err # {} \/ ans.val = Absent THEN {"ErrIssuerAuth"} ELSE {}

\* What verifyIssuerAuth makes of the trust layer's answer.
resolution(ans) ==
    IF ans.err # {} THEN {"ErrIssuerAuth"} \cup ans.err
    ELSE IF ans.val = Absent THEN {"ErrIssuerAuth"}
    ELSE {}

\* verifyIssuerAuth from the trust layer's answer on.
authenticateMSO(issuerAuth, ans, t) ==
    IF resolution(ans) # {} THEN resolution(ans)
    ELSE LET payload == VerifyCOSESign1(coseAssemble(coseParts(issuerAuth).val), ans.val) IN
         IF payload.err # {} THEN {"ErrIssuerAuth"} \cup payload.err
         ELSE IF payload.val.validityInfo.signed # issuerClaim(issuerAuth).val.signed
         THEN {"ErrIssuerAuth"}
         ELSE IF hashForMSODigestAlg(payload.val.digestAlgorithm) # {}
         THEN hashForMSODigestAlg(payload.val.digestAlgorithm)
         ELSE IF checkValidity(payload.val.validityInfo, t) # {}
         THEN checkValidity(payload.val.validityInfo, t)
         ELSE IF parseCOSEKey(payload.val.deviceKey).err # {}
         THEN {"ErrMalformed"} \cup parseCOSEKey(payload.val.deviceKey).err
         ELSE {}

\* Mutant of checkDocType: the check is missing.
checkDocType_Skipped(sealed, claimed) == {}

\* The docType sealed in the MSO is the one the Document claims.
checkDocType(sealed, claimed) ==
    IF sealed # claimed THEN {"ErrDocTypeMismatch"} ELSE {}

\* Mutant of checkItem: the digest is taken over a re-encoding of the item.
checkItem_Reencoded(item, digests, alg) ==
    IF item = Malformed THEN {"ErrMalformed"}
    ELSE IF digests[item.digestID] = Absent THEN {"ErrIntegrity"}
    ELSE LET canonical == [item EXCEPT !.wire = digests[item.digestID].over.wire]
         IN  IF digests[item.digestID] # Hash(alg, canonical) THEN {"ErrIntegrity"}
             ELSE IF item.elementValue = Malformed THEN {"ErrMalformed"}
             ELSE {}

\* One IssuerSignedItem against the digests of its namespace: the digest is taken
\* over the item's wire bytes, and the value is decoded only after it matched.
checkItem(item, digests, alg) ==
    IF item = Malformed THEN {"ErrMalformed"}
    ELSE IF digests[item.digestID] = Absent THEN {"ErrIntegrity"}
    ELSE IF digests[item.digestID] # Hash(alg, item) THEN {"ErrIntegrity"}
    ELSE IF item.elementValue = Malformed THEN {"ErrMalformed"}
    ELSE {}

\* The device signature over this transcript, this docType and these device
\* namespaces, by the key sealed in the MSO.
verifyDeviceAuth(d, deviceKey, st) ==
    IF d.deviceMac THEN {"ErrDeviceMacUnsupported"}
    ELSE IF d.deviceSignature = Absent \/ st = Absent THEN {"ErrDeviceAuth"}
    ELSE LET spliced == spliceCOSEPayload(d.deviceSignature,
                            DeviceAuthentication(st, d.docType, d.deviceNameSpaces)) IN
         IF spliced.err # {} THEN {"ErrDeviceAuth"} \cup spliced.err
         ELSE IF VerifyCOSESign1(spliced.val, deviceKey).err # {}
         THEN {"ErrDeviceAuth"} \cup VerifyCOSESign1(spliced.val, deviceKey).err
         ELSE {}

\* Mutant of parseMSOStatus: an empty uri goes unnoticed.
parseMSOStatus_NoURI(raw) ==
    IF raw = Absent THEN Ok(Absent)
    ELSE IF raw = Malformed THEN Err({"ErrStatus", "ErrMalformed"})
    ELSE IF raw.statusList = Absent THEN Err({"ErrStatus"})
    ELSE Ok([uri |-> raw.statusList.uri,
             idx |-> IF raw.statusList.idx = Absent THEN 0 ELSE raw.statusList.idx,
             raw |-> raw])

\* The status reference of an MSO; an omitted idx decodes to 0.
parseMSOStatus(raw) ==
    IF raw = Absent THEN Ok(Absent)
    ELSE IF raw = Malformed THEN Err({"ErrStatus", "ErrMalformed"})
    ELSE IF raw.statusList = Absent \/ raw.statusList.uri = Absent THEN Err({"ErrStatus"})
    ELSE Ok([uri |-> raw.statusList.uri,
             idx |-> IF raw.statusList.idx = Absent THEN 0 ELSE raw.statusList.idx,
             raw |-> raw])

-----------------------------------------------------------------------------
(* The steps of a call. *)

Init ==
    /\ clock = 1 /\ began = 1 /\ at = 0
    /\ pc = "idle" /\ in = Absent /\ i = 0 /\ answer = Absent
    /\ todo = {} /\ cur = Absent /\ k = 0
    /\ nsOut = EmptyMap(Elements) /\ namespaces = EmptyMap(Namespaces)
    /\ out = <<>> /\ err = {} /\ asked = <<>>

\* The loops of verifyIssuerIntegrity before their first turn.
StartLoops(ns) ==
    /\ todo' = ns /\ cur' = Absent /\ k' = 0
    /\ nsOut' = EmptyMap(Elements) /\ namespaces' = EmptyMap(Namespaces)

\* Mutant of Fail: the documents verified before the failure are returned too.
Fail_Partial(e) ==
    /\ pc' = "done" /\ err' = e
    /\ UNCHANGED <<clock, in, at, i, answer, loop, out, began, asked>>

\* return nil, err
Fail(e) ==
    /\ pc' = "done" /\ err' = e /\ out' = <<>>
    /\ UNCHANGED <<clock, in, at, i, answer, loop, began, asked>>

\* A caller calls Verify with this input.
Call(input) ==
    /\ pc = "idle"
    /\ in' = input
    /\ pc' = "called" /\ began' = clock
    /\ UNCHANGED <<clock, at, i, answer, loop, out, err, asked>>

\* The head of Verify: the argument checks, and the one reading of the clock.
Verify ==
    LET e == IF ~in.IssuerTrust THEN {"ErrUnsupported"}
             ELSE DecodeDeviceResponse(in.DeviceResponse)
    IN  /\ pc = "called"
        /\ \/ e # {} /\ Fail(e)
           \/ /\ e = {}
              /\ at' = clock /\ i' = 1 /\ pc' = "document"
              /\ UNCHANGED <<clock, in, answer, loop, out, err, began, asked>>

\* The head of the document loop and verifyIssuerAuth up to the trust boundary.
\* What it computed is computed again from the same bytes when it is needed.
NextDocument ==
    LET e == IF in.ExpectedDocType # Absent /\ doc.docType # in.ExpectedDocType
             THEN {"ErrDocTypeMismatch"}
             ELSE issuerClaim(doc.issuerAuth).err
    IN  /\ pc = "document" /\ i <= Len(documents)
        /\ \/ e # {} /\ Fail(e)
           \/ /\ e = {} /\ pc' = "trust"
              /\ UNCHANGED <<clock, in, at, i, answer, loop, out, err, began, asked>>

\* What an IssuerTrust implementation may return: any key, no key, any cause.
Answers == {Ok(key) : key \in Opt(Keys)} \cup {Err({cause}) : cause \in TrustErrors}

\* IssuerTrust.ResolveIssuerKey returns.
ResolveIssuerKey ==
    /\ pc = "trust"
    /\ \E a \in Answers :
        /\ answer' = a
        /\ asked' = Append(asked, [question |-> issuerClaim(doc.issuerAuth).val, answer |-> a])
    /\ pc' = "answered"
    /\ UNCHANGED <<clock, in, at, i, loop, out, err, began>>

\* The rest of verifyIssuerAuth, the docType binding, and the start of
\* verifyIssuerIntegrity.
verifyIssuerAuth ==
    LET auth == authenticateMSO(doc.issuerAuth, answer, at)
        e == IF auth # {} THEN auth ELSE checkDocType(mso.docType, doc.docType)
    IN  /\ pc = "answered"
        /\ \/ e # {} /\ Fail(e)
           \/ /\ e = {} /\ pc' = "integrity"
              /\ StartLoops(KeysOf(doc.nameSpaces))
              /\ UNCHANGED <<clock, in, at, i, answer, out, err, began, asked>>

\* Go ranges over the namespaces of the document in any order.
RangeNamespace ==
    /\ pc = "integrity"
    /\ \E n \in todo :
        \/ mso.valueDigests[n] = Absent /\ Fail({"ErrIntegrity"})
        \/ /\ mso.valueDigests[n] # Absent
           /\ cur' = n /\ k' = 1 /\ nsOut' = EmptyMap(Elements) /\ pc' = "items"
           /\ UNCHANGED <<clock, in, at, i, answer, todo, namespaces, out, err, began, asked>>

\* Mutant of RangeItem: of items that repeat an identifier the first one stays.
RangeItem_FirstStays ==
    LET e == checkItem(items[k], mso.valueDigests[cur], mso.digestAlgorithm)
    IN  /\ pc = "items" /\ k <= Len(items)
        /\ \/ e # {} /\ Fail(e)
           \/ /\ e = {}
              /\ nsOut' = [nsOut EXCEPT ![items[k].elementIdentifier] =
                                IF @ = Absent THEN items[k].elementValue ELSE @]
              /\ k' = k + 1
              /\ UNCHANGED <<clock, pc, in, at, i, answer, todo, cur, namespaces, out, err,
                             began, asked>>

\* One turn of the item loop.
RangeItem ==
    LET e == checkItem(items[k], mso.valueDigests[cur], mso.digestAlgorithm)
    IN  /\ pc = "items" /\ k <= Len(items)
        /\ \/ e # {} /\ Fail(e)
           \/ /\ e = {}
              /\ nsOut' = [nsOut EXCEPT ![items[k].elementIdentifier] = items[k].elementValue]
              /\ k' = k + 1
              /\ UNCHANGED <<clock, pc, in, at, i, answer, todo, cur, namespaces, out, err,
                             began, asked>>

\* Mutant of EndNamespace: the namespace stays to be ranged over.
EndNamespace_Again ==
    /\ pc = "items" /\ k > Len(items)
    /\ namespaces' = [namespaces EXCEPT ![cur] = nsOut]
    /\ pc' = "integrity"
    /\ UNCHANGED <<clock, in, at, i, answer, todo, cur, k, nsOut, out, err, began, asked>>

\* The end of the item loop: out[namespace] = nsOut.
EndNamespace ==
    /\ pc = "items" /\ k > Len(items)
    /\ namespaces' = [namespaces EXCEPT ![cur] = nsOut]
    /\ todo' = todo \ {cur}
    /\ pc' = "integrity"
    /\ UNCHANGED <<clock, in, at, i, answer, cur, k, nsOut, out, err, began, asked>>

\* verifyDeviceAuth, once every namespace has been checked.
DeviceAuth ==
    LET e == verifyDeviceAuth(doc, parseCOSEKey(mso.deviceKey).val, in.SessionTranscript)
    IN  /\ pc = "integrity" /\ todo = {}
        /\ \/ e # {} /\ Fail(e)
           \/ /\ e = {} /\ pc' = "status"
              /\ UNCHANGED <<clock, in, at, i, answer, loop, out, err, began, asked>>

\* parseMSOStatus, the end of verifyDocument and append(out, vd).
AppendVerified ==
    LET status == parseMSOStatus(mso.status)
    IN  /\ pc = "status"
        /\ \/ status.err # {} /\ Fail(status.err)
           \/ /\ status.err = {}
              /\ out' = Append(out,
                    [docType |-> doc.docType, namespaces |-> namespaces,
                     validityInfo |-> mso.validityInfo,
                     deviceKey |-> parseCOSEKey(mso.deviceKey).val,
                     status |-> status.val, msoDigestAlg |-> mso.digestAlgorithm])
              /\ i' = i + 1 /\ pc' = "document"
              /\ UNCHANGED <<clock, in, at, answer, loop, err, began, asked>>

\* The end of the document loop: a response without documents is an error.
EndDocuments ==
    /\ pc = "document" /\ i > Len(documents)
    /\ \/ Len(out) = 0 /\ Fail({"ErrMalformed"})
       \/ /\ Len(out) # 0 /\ pc' = "done"
          /\ UNCHANGED <<clock, in, at, i, answer, loop, out, err, began, asked>>

\* The caller takes the result; the Verifier keeps nothing of the call.
Return ==
    /\ pc = "done"
    /\ pc' = "idle" /\ in' = Absent /\ at' = 0 /\ i' = 0 /\ answer' = Absent
    /\ StartLoops({})
    /\ out' = <<>> /\ err' = {} /\ asked' = <<>>
    /\ UNCHANGED <<clock, began>>

\* Time passes, also while a call is under way.
Tick ==
    /\ clock < MaxTime
    /\ clock' = clock + 1
    /\ UNCHANGED <<pc, in, at, i, answer, loop, out, err, began, asked>>

Step == \/ Verify \/ NextDocument \/ verifyIssuerAuth \/ RangeNamespace \/ RangeItem
        \/ EndNamespace \/ DeviceAuth \/ AppendVerified \/ EndDocuments

Next == (\E input \in Inputs : Call(input)) \/ Step \/ ResolveIssuerKey \/ Return \/ Tick

Spec == Init /\ [][Next]_vars

\* A call under way keeps running, and the trust implementation returns.
FairSpec == Spec /\ WF_vars(Step) /\ WF_vars(ResolveIssuerKey)
=============================================================================
