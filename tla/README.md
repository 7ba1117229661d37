# go-mdoc: models, checks and proofs

go-mdoc verifies ISO/IEC 18013-5 mdoc presentations for relying parties: a
wallet's `DeviceResponse` goes in, the disclosed and verified data elements
come out, or an error that names the reason. This directory holds TLA+ models
of that code, TLC configurations that check them on small instances, and TLAPS
proofs of the properties that matter most for every value of the constants.

## 1. The system

| part | code | state | operations | talks to |
|---|---|---|---|---|
| Verifier | `verify.go`, `decode.go` | an injected clock, fixed at construction; per call the list of verified documents | `NewVerifier`, `WithClock`, `Verify`, `DecodeDeviceResponse` | the checks below; `IssuerTrust` |
| Issuer authentication | `mso.go`, `digest.go` | none | `verifyIssuerAuth`, `claimedSigningTime`, `checkSignerWindow`, `checkValidity` | COSE surgery, go-eudi-crypto, and `IssuerTrust` (a callback into the caller) |
| Issuer-data integrity | `integrity.go` | the result maps of the call | `verifyIssuerIntegrity` | the digests sealed in the MSO |
| Device authentication | `deviceauth.go` | none | `verifyDeviceAuth` | the session transcript, the sealed device key |
| Status reference | `status.go` | none | `parseMSOStatus` | |
| COSE surgery | `cose.go` | none | take apart, reassemble, splice, detach, read x5chain, sign | go-eudi-crypto |
| COSE_Key | `key.go` | none | `parseCOSEKey`, `encodeCOSEKey` | go-eudi-crypto's curve policy |
| Session transcript | `sessiontranscript.go` | the bytes behind a `SessionTranscript` | `OID4VPHandover`, `OID4VPDCAPIHandover`, `Bytes` | callers, through shared slices |
| Issuer and holder | `issue.go` | a key handle and a chain | `Issue`, `DevicePresent` | COSE surgery, randomness, map order |
| Hardened CBOR | `cbor.go` | none | `decode`, `encode`, tag 24 | fxamacker/cbor |
| Element registry | `registry.go` | fixed tables | `KnownDocType`, `Report` | the results of `Verify` |
| Data model, errors | `model.go`, `errors.go` | | | everything |

How they interact. A relying party builds a transcript for a session and calls
`Verify` with it. `Verify` reads its clock once and works through the documents
in order. For each it reads a signing time and a chain out of bytes nobody has
authenticated yet, asks the caller's `IssuerTrust` about them, and, once it has a
key, authenticates the MSO, re-checks the time, the docType and the validity
window, compares every disclosed item with the digest the MSO seals, checks the
device signature against the transcript, and parses the status reference. Any
failure ends the call with an error that wraps one or more sentinels, and with
no documents.

What is hard about it, and what each part has to get right:

* **Verifier.** Time passes during a call (the trust layer may go to the
  network), documents fail late, and a result must be all or nothing. Right
  means: a response is accepted if and only if every document in it deserves it
  as of one instant within the call; otherwise nothing of it is returned.
* **Issuer authentication.** An untrusted value is used before it is
  authenticated, and a callback in between may answer anything. Right means: the
  key was vouched for when the trust layer was asked about *this* chain and *this*
  time; the trust layer is never asked about a time outside the leaf's window;
  its cause survives into the error; each sentinel names a fault the document
  really has, because callers turn sentinels into reason codes, and no document is
  refused without one, before the callback either.
* **Integrity.** Two nested loops, the outer in Go's random map order, over data
  of the sender. Right means: the digest is over the wire bytes, in the item's
  own namespace, whatever the order, and the result is exactly what was
  disclosed, repeated identifiers included.
* **Device authentication.** A signature made for another session, docType or
  set of device namespaces, or a message that brings its own payload, must not
  count.
* **Status.** A status that is there but unreadable must stop the document.
* **Transcripts.** Slices are passed in and out; a transcript must not change
  under its owner's feet, and different sessions must never share one.
* **Issuance and presentation.** Digest identifiers depend on map order, times are
  cut to seconds on encoding; what `Issue` and `DevicePresent` make must be
  accepted by `Verify` in that session, disclose no more than was asked for, and
  be refused in any other session.
* **CBOR.** One decoder with limits and an encoder without; an item's value is
  skipped over by the decoding of the item and decoded later by itself; bytes may
  trail at three levels. Right means: a value is disclosed exactly when all the
  bytes that arrived have one reading, and what `Issue` seals is what `Verify`
  reads, up to the limits.
* **COSE_Key.** Slice offsets for coordinates that may be shorter than the curve
  is wide, which one key in a hundred shows. Right means: the key an issuer seals
  is the key a verifier reads.
* **Registry.** Two nested maps in random order, and flags that depend on document type and
  namespace together. Right means: one sorted report per document, every disclosed
  element in it once, and redaction exactly where the tables ask for it.

The package starts no goroutines and a `Verifier` has no mutable state, so
concurrent calls share nothing and one call at a time is the general case. The
concurrency that is left is with the environment: the clock, the trust layer,
Go's map order, and callers that hold slices.

## 2. The modules

| module | models | lines of code it follows |
|---|---|---|
| `MdocData` | the structures of `model.go` and the sentinels of `errors.go` | data |
| `Cose` | `cose.go` as far as verification uses it, `parseCOSEKey` up to the point, and go-eudi-crypto's `VerifyCOSESign1` and policy tables (external) | operators |
| `Verifier` | `Verify` and everything below it | the state machine |
| `Acceptance` | what it means for a document to deserve acceptance, said of the data alone | specification |
| `VerifierContract` | the abstract specification: questions as long as there is no fault, and one decision per call, at one instant | specification |
| `VerifierProperties` | type invariant, properties, inductive invariant, refinement mapping | properties |
| `VerifierProofs` | the inductive invariant and the safety theorems | proofs |
| `VerifierContractProofs` | the refinement, and that reported reasons are true | proofs |
| `VerifierProgressProofs` | that every step of a call leaves less to do | proofs |
| `MCVerifier` | the instance for TLC | inputs |
| `Issuance` | `issue.go`, and the parts of `cose.go` and `key.go` only it uses | operators |
| `Presentation` | issuers, a holder, a network and relying parties: `Issuance` composed with the `Verifier` state machine | the composition |
| `PresentationProofs`, `MCPresentation` | its theorems; its instances | proofs, inputs |
| `SessionTranscript` | `sessiontranscript.go` over a heap of byte arrays | a state machine |
| `SessionTranscriptProofs`, `MCSessionTranscript` | its theorems; its instance | proofs, inputs |
| `CoseKey` | `key.go` down to the bytes of the coordinates | a state machine |
| `CoseKeyProofs`, `MCCoseKey` | its theorems; its instance | proofs, inputs |
| `HardenedCBOR` | `cbor.go` on the way of one data element | a state machine |
| `HardenedCBORProofs`, `MCHardenedCBOR` | its theorems; its instance | proofs, inputs |
| `Registry` | `registry.go`: the tables and `Report` | a state machine |
| `RegistryProofs`, `MCRegistry` | its theorems; its instance | proofs, inputs |

`Presentation` extends `Issuance` and `VerifierProperties`, so it is the same
`Verifier` with its own variables, not a copy. `CoseKey` and `HardenedCBOR`
look inside what the other modules take as decoded or `Malformed`: `CoseKey`
instantiates `Cose` and checks that its parser is the right abstraction, and
`HardenedCBOR` says which bytes are `Malformed`.

### Data

Bytes the code keeps raw (`cbor.RawMessage`) are modelled by what decoding them
yields: a value, `Malformed` when the decoder refuses them, or `Absent` (nil, an
omitted member, an empty string). A Go map is a function on the whole key set
whose missing keys map to `Absent`. An error is the set of sentinels that
`errors.Is` finds in it, because the code wraps several with `%w`; `{}` is nil.
A time is a tick, 0 the zero `time.Time`.

Cryptography is ideal. A digest is a record of the algorithm and the exact
bytes; a signature a record of the key, the protected header and the payload. So
a digest collision or a forged signature cannot happen, and everything else can:
a valid signature over something else, by someone else, in the wrong slot.
An item has a `wire` component for everything in its bytes beyond the members read
here (the salt, the member order, the integer widths), so that the bytes that arrived and
a re-encoding of what they mean are different things.

### Verifier: state and actions

| variable | code |
|---|---|
| `clock`, `at` | what `v.now()` would return; `at`, the local that holds the one reading (`verify.go:97`) |
| `in`, `i`, `out`, `err` | `VerifyInput`; the loop index over `Documents`; `out`; the returned error |
| `answer` | what `ResolveIssuerKey` returned for this document |
| `todo`, `cur`, `k`, `nsOut`, `namespaces` | the two loops of `verifyIssuerIntegrity` |
| `pc` | where the call stands |
| `began`, `asked` | history: the clock at the call; the questions put to the trust layer and its answers |

| action | code |
|---|---|
| `Call`, `Return` | a caller enters and leaves `Verify` |
| `Verify` | its head: nil trust, `DecodeDeviceResponse`, the reading of the clock |
| `NextDocument` | `ExpectedDocType`, then `verifyIssuerAuth` up to the trust call |
| `ResolveIssuerKey` | the caller's `IssuerTrust`: any key, a nil key, any cause |
| `verifyIssuerAuth` | the rest of that function, and the docType binding in `verifyDocument` |
| `RangeNamespace`, `RangeItem`, `EndNamespace` | one turn of each loop; which namespace comes next is open |
| `DeviceAuth`, `AppendVerified`, `EndDocuments` | `verifyDeviceAuth`; `parseMSOStatus` and the append; the end of the loop |
| `Tick` | time passes, at any point of a call |

The pure checks (`claimedSigningTime`, `checkSignerWindow`, `authenticateMSO`,
`checkItem`, `parseMSOStatus`, ...) are operators named for the functions and return
the error of the function, with its early returns in their order. Code is split into two actions
only where something can come in between: the clock, the trust layer, or a
choice of order.

### Issuance and presentation: state and actions

`Issue` and `DevicePresent` keep no state and touch nothing between their first
and last line, so each is an operator, and each call one action. What Go leaves open is a parameter:
`RangeOrders` are the orders in which the elements of each namespace can be
ranged over, which fixes the digest identifiers; salts are any wires;
`selectDisclosed` returns a set of possible results, since it stops at the first
faulty namespace of a random order. (`crypto/rand.Read` is taken to succeed, as it does or ends the program.)
`encodeTime` cuts times to whole seconds, `TicksPerSecond` ticks each.

| variable | stands for |
|---|---|
| `wallet` | the credentials a holder has, with the call of `Issue` behind each |
| `net` | every response ever sent, with the call of `DevicePresent` behind it |
| the others | those of the `Verifier`, whose `Inputs` are empty here: calls come from `Deliver` alone |

`IssueCredential` and `PresentCredential` are the two calls, with their error
paths (an error leaves the state as it was); `ReceiveCredential` brings
credentials of other issuers, also undecodable ones; `Deliver` hands a response
to any session, and since `net` never shrinks it may do so late, again, or never;
`Resolve` is a trust layer that vouches only for the key in the leaf and only
for signers it knows; `Verifying` are the verifier's own steps. `HoldingsOK` is the
type invariant, `ExchangeSpec` the specification.

### Session transcript: state and actions

`heap` maps array addresses to contents; a slice is an address, as a Go slice
header shares its array with its copies. `thumbprint` is the slice the caller
reuses between requests, `session` the transcripts built, with the request each
was built for, `held` the arrays `Bytes()` handed out. Actions: the two
constructors, `Bytes`, a caller that overwrites an array it holds, and one that
reuses its thumbprint. The encoding hashed in a handover is the tuple of its
fields, SHA-256 is injective, and nil and empty thumbprints both become CBOR
null.

### COSE_Key: state and actions

| variable | stands for |
|---|---|
| `pub` | the key an issuer starts from |
| `raw`, `ours` | the COSE_Key's bytes, and whether `encodeCOSEKey` wrote them |
| `key`, `err` | what the last call returned |

A coordinate is a sequence of bytes, a point a curve label and two coordinates
of the curve's width. `encodeCOSEKey` cuts `0x04 || X || Y` behind its prefix
(`ecPointCoordinates`) and `parseCOSEKey` copies the coordinates right-aligned into a
zeroed buffer (`copy`, `uncompressed`) before the curve check (`PointOf`,
external). In between `Trim` drops leading zero bytes, as other encoders do, and
`Receive` brings COSE_Keys written elsewhere, with any member missing, broken, short or long.
The curves are a parameter, so P-256 to P-521 and their policy are instances.

### Hardened CBOR: state and actions

| variable | stands for |
|---|---|
| `value`, `wire`, `whole` | the Go value that was sealed, the IssuerSignedItemBytes, and whether they are as written |
| `kept` | whether the wallet's `selectDisclosed` took the item |
| `got`, `err` | what the verifier disclosed, and the error |

A byte string is the sequence of the CBOR items in it, with `Garbage` where none
begins. Of an item the model keeps what the decoder looks at: nesting, longest
array or map, definite lengths, and whether it is `clear` (no duplicate key, valid
UTF-8, text keys). The first three are looked at over the whole item, `clear` only in the
parts that are decoded, and a raw `elementValue` is not one of them. `Issue` and `Receive` make
the bytes, `Append1` adds some behind the tag or inside it, `selectDisclosed` and
`verifyItem` are the two readers; `decode`, `untag24`, `decodeTagged24` and
`decodeElementValue` follow `cbor.go` line by line.

### Registry: state and actions

| variable | code |
|---|---|
| `vd`, `rep` | the document; the report being built |
| `nss`, `ids` | the sorted keys still to be ranged over in each loop |
| `pc` | where the call stands |

`Report` enters, `RangeNamespaces` and `RangeElements` are one turn of each loop.
`sortedKeys(m)` starts from the keys in any order and returns the sorted ones.
The tables are written out as in the code; `resolveElement` looks by exact name first, then by
pattern. A name is a string of `Names`, which fixes the byte order; `Suffix` says of
an age_over_ name what follows the prefix.

## 3. What TLC checks

| run | asks |
|---|---|
| `verifier_safety` | is what `Verify` accepts authentic, sealed, bound to the session and valid at one instant, does every sentinel of a refusal name a fault that is really there, and do its loops run down? |
| `verifier_contract` | is the chain of checks, loops and callbacks the same as one order-free decision, before the first question to the trust layer as after the last, and does every call return? |
| `status_without_idx` | does an unreadable status always stop a document? (no: see section 6) |
| `unsupported_version` | is a response of an unknown version refused? (no: see section 6) |
| `presentation` | is what a relying party accepts what an issuer issued and a holder presented to it, no more and no less, and does an undisturbed presentation succeed? |
| `presentation_replays` | does that stand with several credentials and responses about, delivered in any order, again, and to the wrong session? |
| `transcripts` | do transcripts keep their bytes, and do different sessions have different ones? |
| `cose_key` | is the key that was sealed the key that is read, and is the parser the verification model uses the right abstraction of the bytes? |
| `hardened_cbor` | is a value disclosed exactly when its bytes have one reading, and is what was sealed read back? |
| `registry` | is a report complete, strictly sorted in every map order, and redacted where it must be? |

**verifier_safety** (about 110 000 states). `AcceptedAuthentic`, `DisclosedIsSealed`,
`AcceptedBoundToSession` and `OneInstant` say what acceptance means, each in terms of
`Acceptance` and of the history of trust calls, not of the checks made.
`TrustAskedInOrder` and `RefusalKeepsCause` are about the boundary itself, and
hold at every point of a call. `ReasonIsTrue` is the converse side. `TrueReason` has a
conjunct for each of the twelve sentinels: an error that carries it is about a fault the
response has, and everything checked before that is in order (unasked, answered, signed,
strong, valid, usable, genuine, sealed, bound: each stage includes the one before). So an
unknown issuer is reported only of a chain without a readable leaf or an MSO the vouched key
did not sign, a certificate-window problem only of a chain and a time that can both be read, and an
expired or altered document only if its issuer is authentic. Of a call the trust layer
refused, `RefusalKeepsCause` fixes the whole error instead: its causes may be any errors,
and `MCTrustErrors` has one of the package's own among them. `IInv` is the
inductive invariant of the proofs. `EveryStepAdvances` gives a call a measure, `Work`:
documents, stages of the document, turns of the namespace loop, turns of the item loop.
Every step of the call makes it smaller in lexicographic order or is a tick of the clock.

**verifier_contract** (same states, `FairSpec`). `KeepsContract` is refinement: `Contract`
instantiates `VerifierContract` with `phase` hiding the program counter and `out`
hidden until the call is done. The contract decides in one step, by `AtFault(t)`: the response
is not well formed, a document the trust layer was asked about is not `Acceptable`, or the
next one is not `Askable` (another type, no readable chain or time, a time outside the leaf's
window). With a fault it rejects, without one it may only go on asking, or accept once every document
has been asked about. So a refusal needs a fault of the response or of a document, on either side of
the trust call; how many questions were put cannot justify one. This checks both directions, that
nothing undeserved is accepted and that nothing deserved is refused, that a map order
cannot change the verdict, and that a late failure returns nothing; its mutants are a window that
excludes its first instant, and a failure that leaks the documents before it. `Termination`: every
call returns.

**presentation** (about 270 000 states). `Agreement` ties the returned values to the
template they were issued from, the wallet that released them and the session
they were meant for. `MinimalDisclosure` is about what leaves the wallet: the
requested elements, each once, and so nothing the issuer's repeated identifiers
could change later. `RoundTrip` is the converse of `Agreement`: it lists every
reason a package-made presentation can be refused, and an order of map iteration
is not among them. `NeverLate` is what cutting times to seconds may do to a window.

**presentation_replays** (about 140 000 states). `Agreement` and `RoundTrip`
again, with two credentials, two responses and the wrong device key, on a reduced
set of templates and requests.

**transcripts** (about 40 000 states). `TranscriptStable`: whatever callers do
with the slices they passed in or were given. `SessionsApart`: two transcripts
with the same bytes were built for the same request, up to a nil or empty thumbprint.

**cose_key** (about 3 100 states). `KeyInside`: what was written still holds the issuer's point,
whatever leading zeros were dropped. `KeyKept`: it is the key that is read. `ParsesNumbers`
compares the padding with a reference definition that reads coordinates as
numbers, through the abstract parser of `Cose`, on any COSE_Key: that
`Verifier` may treat keys as points rests on it.

**hardened_cbor** (about 7 100 states). `OneReading` compares the chain of decoders
with a definition that looks at all the bytes at once. `SealedIsRead` is the round trip of a
value and names the three ways it can fail: the item takes a nesting level of its
own, the encoder has no limits, and it writes map keys that the decoder refuses.
`WalletAgrees`: the wallet's reading is the verifier's, up to the value it does not decode.

**registry** (about 1 300 states). `StrictlySorted` and `EveryElementReported` for every map
order, so that the document alone determines the list of names; `Redacts` against one list for the whole registry (portrait, biometric template and
document number, as the code's comment has it, and the PID's address and personal number),
by document type and namespace; `AgeAttestations`: name and pattern give one answer.

### Instances and bounds

`MCVerifier` starts from one genuine credential (issuer key `kI`, device key
`kD`, session `st1`, signed at 2, leaf valid 2..3, valid 2..3) and gives `Inputs`
every deviation of one part of it that the code tells apart: the
shape of the COSE message, chain in either header, both or none, every boundary
of both windows, zero times, kty, curve and point, digest algorithms, item lists
in two namespaces with altered, swapped, repeated, malformed and unsealed items,
device signatures for another key, session, docType or device namespaces or with a payload
of their own, and every shape of status. `FaultPairs` combines two faults in
parts that are checked one after the other, for which reason is reported;
`BatchInputs` are responses of two documents valid at different times, or
failing late; `RepeatInputs` have two sealed items of one identifier in a namespace, in
either order, and are accepted. Faults of three parts add nothing: the code reports the
first fault it meets and stops, so a third is never reached before the
second.

`MCPresentation` does the same for issuance: every issuer, template, public key,
wallet key, request and foreign credential differs from a usable one in one
respect (no chain, someone else's certificate, no provider key; missing docType, a
weak digest, two namespaces, an un-encodable value, windows that vanish when cut to
seconds, a status with and without uri; a curve without label; a missing
element, an empty request, two faulty namespaces, a repeated identifier). One second is
two ticks, so that every time can lie on and between seconds. `presentation`
has one credential and one response in flight, which is enough for what depends
on one delivery; `presentation_replays` has two of each (`MaxCredentials`, `MaxResponses`).

In `verifier_safety` and `verifier_contract`, `MaxTime = 4` bounds the clock: credentials are valid in windows within 1..4, so
a call can begin before, in, at either bound of and after a window and outlive
it. Two namespaces, two element identifiers and two digest identifiers per namespace are enough for order and for
an item in the wrong place; two documents for a failure after a success. Two trust causes and three keys let
the trust layer be right, wrong and refuse in two ways. In `transcripts`, four
arrays (`Cells`) allow two transcripts and two handed-out copies; the cells are
interchangeable, hence the symmetry.

`MCCoseKey` has curves of 8, 16 and 17 bits: widths of one, two and three bytes,
the last with a partial leading byte as P-521 has; coordinates of the bytes 0, 1
and 255 in every place, so that leading zeros occur in either coordinate, in both
and at any length; foreign coordinates from empty to one byte too long.
`MCHardenedCBOR` has limits of 2 levels and 5 elements for 16 and 65536, since an
item is itself a map of four and only the distance to a limit matters: values,
unknown members, items, tags and trailing bytes are on both sides of each limit and with each fault.
`MCRegistry` has the two registered document types and a custom one, each with its own
and another's namespaces, names that match by name, by pattern, in one namespace only and
nowhere, and all value types; maps have up to three keys, enough for a wrong order.

`cose_key` and `hardened_cbor` say `CHECK_DEADLOCK FALSE`: one key, one item is
handled once, and then there is nothing left to do.

### Fairness

`FairSpec` assumes `WF(Step)`: a call under way keeps running, since it is plain
sequential Go with no locks or waits; and `WF(ResolveIssuerKey)`: the trust
implementation returns. The second is a condition on the caller: `Verify` ignores
its context (`verify.go:89`) and `ResolveIssuerKey` is given none, so a call returns when the
trust layer does and not otherwise. Nothing is assumed of callers or of the
clock.

## 4. What is proved

The theorems hold for every value of the constants: all inputs, keys,
transcripts, namespaces, times, trust causes, issuers, templates, requests,
limits, curves and documents, and responses, chains and item lists of any length. They
rest on the named assumptions of the modules and on nothing else:

| assumptions | say |
|---|---|
| `SentinelValues`, `SentinelRecords`, `SentinelSigned`, `SentinelIssued`, `SentinelBytes`, `SentinelKeys`, `SentinelItems`, `DistinctBytes`, `DistinctStates` | `Malformed`, `Absent` and the like are no values: nil and undecodable bytes differ from decoded ones, and nil from an empty list |
| `InputsAssumption`, `HoldersAssumption`, `IssuancesAssumption`, `GoValuesAssumption`, `ForeignAssumption`, `OnCurveAssumption` | what enters a model is of its type; a point's coordinates are as wide as its curve |
| `DigestIDsAssumption`, `EmptyDeviceNameSpacesAssumption` | there are as many digest identifiers as elements, and an encoding of the empty map |
| `MaxTimeAssumption`, `TicksPerSecondAssumption`, `BitSizeAssumption`, `AllowedAssumption`, `LimitsAssumption` | bounds are numbers; the limit on the length of a map admits the four members of an item |
| `NamesAssumption`, `DocumentsAssumption`, `FiniteMapsAssumption`, `SuffixAssumption` | names are strings, listed once; Go maps are finite; what `Suffix` says of names in the tables is true |

| module | theorem | says |
|---|---|---|
| `VerifierProofs` | `Invariance` | `Spec => []IInv` |
| | `TypeCorrect` | every variable keeps its type |
| | `Authenticity` | an accepted document's MSO is signed by a key vouched for when asked about that document, and is for its docType |
| | `Integrity` | what is returned is sealed, and is exactly what was disclosed |
| | `SessionBinding` | the sealed device key signed for the caller's transcript |
| | `SimultaneousValidity` | all documents were valid at one instant within the call |
| | `TrustBoundary` | once per document, in order, inside the leaf's window, never after a refusal |
| | `CauseKept` | the cause of a refusal is in the returned error |
| `VerifierContractProofs` | `Refinement` | `Spec => KeepsContract`: `Verify` implements `VerifierContract` |
| | `TrueReasons` | unless the trust layer refused, every sentinel of an error names a fault the call has, everything checked before it being in order |
| `VerifierProgressProofs` | `Progress` | `Spec => EveryStepAdvances` |
| | `WorkIsNumbers` | `Work` is always four natural numbers |
| `PresentationProofs` | `WellTyped` | credentials and responses keep their types |
| | `EndToEnd` | `Agreement` |
| | `RoundTrips` | `RoundTrip` |
| | `DisclosureIsMinimal` | `MinimalDisclosure` |
| | `NeverTooLate` | `NeverLate` |
| `SessionTranscriptProofs` | `TranscriptsTyped`, `TranscriptsStable`, `TranscriptsApart` | the three properties of `transcripts` |
| `CoseKeyProofs` | `KeyStaysInside`, `KeyRoundTrip` | sealed and read keys are the same, on every curve |
| | `NumbersParsed` | on any COSE_Key, `parseCOSEKey` answers as the parser of the verification model does (`ParsesNumbers`), if the policy allows the three curves |
| `HardenedCBORProofs` | `ReadInOneWay`, `SealedValueRead`, `WalletHandsOn` | the three properties of `hardened_cbor`, for all limits |
| `RegistryProofs` | `ReportInvariance`, `Sorted`, `Complete`, `RedactionFlags`, `AgeFlags` | `RInv` and the four properties of `registry`, for all documents and orders |

**Verifier: safety.** None of the properties is inductive: they speak of the moment a
call is done, and what makes them true was established steps earlier, about
bytes that are decoded again and again. `IInv` says what has been established
at each point of a call: for the documents done, that each is `Acceptable` as of
`at` with its own answer and that its entry in `out` reports it
(`DocumentsDone`); for the one under way, how far it got (`DocumentRead`,
`DocumentAnswered`, `DocumentGenuine`, `ItemsDone`, `DeviceDone`). The proof has
three layers: lemmas that say what a check establishes when it returns no error
(`ClaimPoses`, `AuthenticatedMSO`, `CheckedItem`, `DeviceBound`, ...); one lemma
per action (`StepVerify`, `StepRangeItem`, ...), with `FailKeepsIInv` and
`InsideDocument` for what they share; and the theorems. The heart of
`Integrity` is `DisclosesNext`: assigning the next item's element keeps the map
equal to the disclosed elements when identifiers repeat.

**Verifier: refinement.** Safety is one half of the contract, that nothing
undeserved is accepted. The other half needs the converse of the checks: what
deserves to pass does pass each of them (`AskablePasses` for all that comes before the trust
call, `AuthenticPasses`, `ValidPasses`, `SealedPasses`, `BoundPasses`, ...), so a check that fails shows that the response
does not deserve acceptance (`UndeservedIssuer`, `UndeservedItem`, ...) and is at fault
(`FaultAt`, the contract's `AtFault` in the verifier's variables), as of
the one reading `at`, which lies between the call's beginning and its end. One lemma
per action maps a step to `Vouch`, `Decide`, `Return`, `Tick` or a stutter. `TrueReasons`
splits the same failures further: `ChainRefused`, `ClaimRefused`, `AuthRefused`, `ItemRefused`,
`DeviceRefused` and `StatusRefused` say for each sentinel of a check which fault of the document
it stands for, and `GenuineFacts` that the stages before were passed.

**Verifier: progress.** `Termination` is fairness and progress; the prover can do the
second. `Progress` has one lemma per kind of step: to the next document
(`DocumentAdvances`), to the next stage of it (`StageAdvances`), a turn of a loop
(`LoopsAdvance`), a failure (`FailAdvances`). It needs that the maps ranged over
are finite, and stay so as namespaces are taken off (`LoopsFinite`).
With `WorkIsNumbers`, `Work` is a descending measure in four natural numbers, whatever the size of the
response. That such a descent ends is arithmetic, and that the steps are taken is fairness, which
stays with TLC.

**Presentation.** `IssueMakes` says what `Issue` returns in every order of iteration
(`IssuedFrom`: signed, sealed item by item, the template's values, times in whole
seconds), `PresentMakes` what `DevicePresent` returns (`PresentedFrom`: a
sub-list with each requested element once, at its first position, and a device
signature for that session). The invariant `XInv` is `IInv`, which carries over because
every verifier step of the composition is one of `Verifier`, and three more facts:
`Holdings` (all in the wallet and on the network was made that way), `Delivered` (the call
under way was made with a sent response) and `Vouched` (what the trust layer
answered). `EndToEnd` follows from `Acceptable` and `Holdings`. `RoundTrips` goes
the other way: a rejection names a fault (`FairlyRejected`), and a response
that was presented undisturbed has none but the ones `RoundTrip` lists (`RoundTripFlawless`).

**The others.** For transcripts, the invariant is that the arrays behind
sessions and the arrays held by callers are disjoint. For keys it is
`KeyInside`; the work is in `JoinsPoint` (three copies at the right offsets give the
point's bytes back) and `HalvesOfPoint`. `NumbersParsed` compares padded bytes with the number
they write, which is defined by recursion along them. The library's induction theorems
cannot be instantiated here, but an induction over a *set* of positions can be had from
the least element of its complement (`Along`); with it, `ValuesOf` gives the number
of a sequence its recursive equations, `AlignedValue` says that leading zero bytes do not change it,
`JoinedBytes` that coordinates of one width are equal when their numbers are, and
`PointsAgree` that the curve check finds the same point either way. `KeyRead` adds to
the invariant that what was read is what these bytes hold. The hypothesis `Allowed = Labels` is
the policy of the verification model, which knows three curves and allows them all;
with a narrower policy the byte parser refuses more, and the comparison is not made.
 For `HardenedCBOR` it is that a call
which ended gave the verdict of the chain of decoders on `wire`, and `TakesOneItem` and
`TakesOneValue` say what that verdict is. For the registry, `RInv` says that what
is reported sorts before what is still to visit (`ReportedFirst`) and that every element is in
one or the other (`NoneForgotten`); the flags follow from the tables, entry by entry.

**Model-checked only.** `Termination` is liveness under fairness, and ENABLED is out of the
prover's reach; `Progress` and `WorkIsNumbers` are as much of it as is proved. Every
other property of a passing run has its theorem. The two properties of section 6 are violated, so
there is nothing to prove there. The `Values` of `Presentation` are those the decoder's
limits let through: that a value beyond them is refused, and nothing else is, is the business of
`HardenedCBOR` (`SealedValueRead`).

## 5. What is not modelled, and why

* The CBOR codec itself, which is fxamacker/cbor: its options are modelled by what they
  refuse, and its reading of bytes by the structure it finds in them.
* Cryptography (go-eudi-crypto, `crypto/*`): ideal, as said in section 2.
* X.509: a certificate is its key and its window, or `Malformed`. Path
  validation is the trust layer's.
* CBOR tags other than 18 around a COSE message: left to the decoder, in whose
  hands they become `Malformed` or nothing.
* CBOR null where a struct is expected: fxamacker/cbor decodes it into the zero value without an
  error. An item `24(h'f6')` is then, to the wallet, one without an identifier, which
  it passes over; the models take the item as `Malformed`, so the wallet refuses it. No
  verdict depends on it: a verifier refuses such an item either way.
* `DevicePresent` with the zero `SessionTranscript`: sessions have transcripts.
  `Verify` without one is modelled.
* Members that are decoded and never read: `keyAuthorizations`, `keyInfo`,
  `expectedUpdate`, a document's own `errors`.
* The wording of errors.

## 6. Where the code and its comments disagree

* `status_without_idx`: `status.go` describes the status as
  `{"status_list": {"idx": uint, "uri": tstr}}` and promises that anything else
  fails closed. `idx` is decoded into a plain `uint`, so a status without one is
  accepted and returned as index 0, some other credential's status.
* `unsupported_version`: `errors.go` gives an unsupported version as its example
  of `ErrUnsupported`; the code requires `version` to be non-empty and compares it with nothing.

## 7. Plan

Every part of the package has its module, and every property the runs check has its
theorem but `Termination`. What could still be added:

* that `HardenedCBOR` and `CoseKey` together implement the `Malformed`-or-value reading of
  `MdocData`, as one refinement instead of two comparisons;
* `DevicePresent` with the zero `SessionTranscript`, which needs sessions without one in `Presentation`;
* a theorem per registered table when document types are added to `registry.go`
  (`MdlTable` and `PidTable` in `RegistryProofs` are the pattern);
* `DeviceMac` and device-signed elements, once the package supports them.
