------------------------- MODULE SessionTranscript -------------------------
(***************************************************************************)
(* sessiontranscript.go: the two handover constructors, and the byte       *)
(* slices around a SessionTranscript. A Go slice shares its array with     *)
(* every copy of its header, so arrays are cells of a heap; a caller may   *)
(* overwrite any array it holds, at any time.                              *)
(***************************************************************************)
EXTENDS Naturals, FiniteSets

CONSTANTS
    Cells,          \* addresses of byte arrays; bounds the allocations
    Sessions,       \* transcripts the caller builds
    Parties,        \* client ids and origins
    Nonces,
    Thumbprints,    \* raw JWK thumbprints, not empty
    ResponseURIs,
    Nil, Empty,     \* the nil and the empty byte slice
    Null,           \* CBOR null
    Scribble,       \* what a caller may write over an array
    Free            \* an array not allocated

ASSUME DistinctBytes ==
    /\ Thumbprints \cap {Nil, Empty, Null} = {}
    /\ Null \notin {Nil, Empty}

VARIABLES
    heap,           \* contents of every array
    thumbprint,     \* the thumbprint slice the caller keeps and reuses
    session,        \* the transcripts built: their array and the request
    held            \* arrays Bytes() has handed to the caller

tvars == <<heap, thumbprint, session, held>>

\* Mutant of nullable: an empty thumbprint is encoded as an empty byte string.
nullable_Empty(t) == IF t = Nil THEN Null ELSE t

\* An absent (nil or empty) thumbprint is CBOR null.
nullable(t) == IF t \in {Nil, Empty} THEN Null ELSE t

\* Mutant of OID4VPHandoverInfo: the nonce is left out.
OID4VPHandoverInfo_NoNonce(clientID, nonce, t, responseURI) ==
    <<clientID, "nonce", nullable(t), responseURI>>

\* What the hash in the handover covers, for each of the two flows.
OID4VPHandoverInfo(clientID, nonce, t, responseURI) == <<clientID, nonce, nullable(t), responseURI>>
OID4VPDCAPIHandoverInfo(origin, nonce, t) == <<origin, nonce, nullable(t)>>

\* SHA-256 of the deterministic encoding: collision resistance as injectivity.
sha256Sum(info) == [sha256 |-> info]

\* The encoded SessionTranscript [null, null, [name, hash]] of a request.
transcript(r) ==
    IF r.flow = "redirect"
    THEN [handover |-> "OpenID4VPHandover",
          hash |-> sha256Sum(OID4VPHandoverInfo(r.party, r.nonce, r.thumbprint, r.responseURI))]
    ELSE [handover |-> "OpenID4VPDCAPIHandover",
          hash |-> sha256Sum(OID4VPDCAPIHandoverInfo(r.party, r.nonce, r.thumbprint))]

Infos == [sha256: (Parties \X Nonces \X (Thumbprints \cup {Null}) \X ResponseURIs)
                  \cup (Parties \X Nonces \X (Thumbprints \cup {Null}))]
Bytestrings == [handover: {"OpenID4VPHandover", "OpenID4VPDCAPIHandover"}, hash: Infos]

ThumbprintArgs == Thumbprints \cup {Nil, Empty}
Requests == [flow: {"redirect"}, party: Parties, nonce: Nonces,
             thumbprint: ThumbprintArgs, responseURI: ResponseURIs]
            \cup [flow: {"dcapi"}, party: Parties, nonce: Nonces,
                  thumbprint: ThumbprintArgs, responseURI: {Nil}]

\* nil is no transcript, and memory that is not allocated holds nothing a caller sees.
ASSUME DistinctStates ==
    /\ Nil \notin [cbor: Cells, request: Requests]
    /\ Free \notin Bytestrings \cup {Scribble}

Init ==
    /\ heap = [c \in Cells |-> Free]
    /\ thumbprint \in ThumbprintArgs
    /\ session = [s \in Sessions |-> Nil]
    /\ held = {}

\* A constructor builds a transcript in an array of its own; sessionTranscriptFromRaw
\* copies the encoding once more before anyone else could see it.
sessionTranscriptFromRaw(s, r) ==
    \E c \in Cells :
        /\ heap[c] = Free /\ session[s] = Nil
        /\ heap' = [heap EXCEPT ![c] = transcript(r)]
        /\ session' = [session EXCEPT ![s] = [cbor |-> c, request |-> r]]
        /\ UNCHANGED <<thumbprint, held>>

OID4VPHandover(s) ==
    \E clientID \in Parties, nonce \in Nonces, responseURI \in ResponseURIs :
        sessionTranscriptFromRaw(s,
            [flow |-> "redirect", party |-> clientID, nonce |-> nonce,
             thumbprint |-> thumbprint, responseURI |-> responseURI])

OID4VPDCAPIHandover(s) ==
    \E origin \in Parties, nonce \in Nonces :
        sessionTranscriptFromRaw(s,
            [flow |-> "dcapi", party |-> origin, nonce |-> nonce,
             thumbprint |-> thumbprint, responseURI |-> Nil])

\* Mutant of Bytes: the internal array itself is returned.
Bytes_Shared(s) ==
    /\ session[s] # Nil
    /\ held' = held \cup {session[s].cbor}
    /\ UNCHANGED <<heap, thumbprint, session>>

\* Bytes returns a fresh array holding the same bytes.
Bytes(s) ==
    /\ session[s] # Nil
    /\ \E c \in Cells :
        /\ heap[c] = Free
        /\ heap' = [heap EXCEPT ![c] = heap[session[s].cbor]]
        /\ held' = held \cup {c}
    /\ UNCHANGED <<thumbprint, session>>

\* The caller writes into an array it was given.
Overwrite ==
    /\ \E c \in held : heap' = [heap EXCEPT ![c] = Scribble]
    /\ UNCHANGED <<thumbprint, session, held>>

\* The caller reuses its thumbprint slice for the next request.
ReuseThumbprint ==
    /\ thumbprint' \in ThumbprintArgs
    /\ UNCHANGED <<heap, session, held>>

Next ==
    \/ \E s \in Sessions : OID4VPHandover(s) \/ OID4VPDCAPIHandover(s) \/ Bytes(s)
    \/ Overwrite
    \/ ReuseThumbprint

Spec == Init /\ [][Next]_tvars

-----------------------------------------------------------------------------
Built == {s \in Sessions : session[s] # Nil}

\* The slices and transcripts are of their types.
TypeOK ==
    /\ heap \in [Cells -> Bytestrings \cup {Scribble, Free}]
    /\ thumbprint \in ThumbprintArgs
    /\ \A s \in Built : session[s].cbor \in Cells /\ session[s].request \in Requests
    /\ held \subseteq Cells

\* A transcript is opaque and its "exact CBOR encoding" (sessiontranscript.go:7-11):
\* whatever callers do with the slices they passed in or were given, Verify binds the
\* device signature to the request the transcript was built for.
TranscriptStable ==
    \A s \in Built : heap[session[s].cbor] = transcript(session[s].request)

\* Sessions that differ in party, nonce, response URI, flow or encryption key have
\* different transcripts, so a device signature for one never verifies for another;
\* only a nil and an empty thumbprint are the same (nullable).
SessionsApart ==
    \A s1, s2 \in Built :
        heap[session[s1].cbor] = heap[session[s2].cbor] =>
            LET r1 == session[s1].request
                r2 == session[s2].request
            IN  /\ [r1 EXCEPT !.thumbprint = Nil] = [r2 EXCEPT !.thumbprint = Nil]
                /\ r1.thumbprint # r2.thumbprint => {r1.thumbprint, r2.thumbprint} = {Nil, Empty}
=============================================================================
