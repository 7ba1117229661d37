----------------------- MODULE SessionTranscriptProofs -----------------------
(***************************************************************************)
(* TLAPS proofs about SessionTranscript: for any number of sessions,       *)
(* arrays and requests, a transcript stays what it was built to be, and    *)
(* two sessions that differ have different ones.                           *)
(***************************************************************************)
EXTENDS SessionTranscript, TLAPS

\* Every transcript lies in an array of its own that no caller holds. What callers hold
\* is allocated, so no later transcript is put there.
Private ==
    /\ \A s \in Built : session[s].cbor \notin held
    /\ \A s1, s2 \in Built : s1 # s2 => session[s1].cbor # session[s2].cbor
    /\ \A c \in held : heap[c] # Free

TInv ==
    /\ TypeOK
    /\ session \in [Sessions -> [cbor: Cells, request: Requests] \cup {Nil}]
    /\ TranscriptStable
    /\ Private

\* A transcript is a byte string, whatever the request.
LEMMA TranscriptTyped ==
    ASSUME NEW r \in Requests
    PROVE  transcript(r) \in Bytestrings
  <1>1. r.party \in Parties /\ r.nonce \in Nonces /\ nullable(r.thumbprint) \in Thumbprints \cup {Null}
    BY DEF Requests, ThumbprintArgs, nullable
  <1>2. CASE r.flow = "redirect"
    <2>1. r.responseURI \in ResponseURIs
      BY <1>2 DEF Requests
    <2>2. OID4VPHandoverInfo(r.party, r.nonce, r.thumbprint, r.responseURI)
            \in Parties \X Nonces \X (Thumbprints \cup {Null}) \X ResponseURIs
      BY <1>1, <2>1 DEF OID4VPHandoverInfo
    <2> QED
      BY <1>2, <2>2 DEF transcript, sha256Sum, Bytestrings, Infos
  <1>3. CASE r.flow # "redirect"
    <2>1. OID4VPDCAPIHandoverInfo(r.party, r.nonce, r.thumbprint)
            \in Parties \X Nonces \X (Thumbprints \cup {Null})
      BY <1>1 DEF OID4VPDCAPIHandoverInfo
    <2> QED
      BY <1>3, <2>1 DEF transcript, sha256Sum, Bytestrings, Infos
  <1> QED
    BY <1>2, <1>3

\* Equal transcripts come from the same request, up to a nil or empty thumbprint.
LEMMA TranscriptInjective ==
    ASSUME NEW r1 \in Requests, NEW r2 \in Requests, transcript(r1) = transcript(r2)
    PROVE  /\ r1.flow = r2.flow /\ r1.party = r2.party /\ r1.nonce = r2.nonce
           /\ r1.responseURI = r2.responseURI
           /\ nullable(r1.thumbprint) = nullable(r2.thumbprint)
  <1>1. /\ transcript(r1).handover = transcript(r2).handover
        /\ transcript(r1).hash.sha256 = transcript(r2).hash.sha256
    OBVIOUS
  <1>2. r1.flow \in {"redirect", "dcapi"} /\ r2.flow \in {"redirect", "dcapi"}
    BY DEF Requests
  <1>3. r1.flow = r2.flow
    BY <1>1, <1>2 DEF transcript
  <1>4. CASE r1.flow = "redirect"
    <2>1. OID4VPHandoverInfo(r1.party, r1.nonce, r1.thumbprint, r1.responseURI)
            = OID4VPHandoverInfo(r2.party, r2.nonce, r2.thumbprint, r2.responseURI)
      BY <1>1, <1>3, <1>4 DEF transcript, sha256Sum
    <2> QED
      BY <1>3, <2>1 DEF OID4VPHandoverInfo
  <1>5. CASE r1.flow = "dcapi"
    <2>1. OID4VPDCAPIHandoverInfo(r1.party, r1.nonce, r1.thumbprint)
            = OID4VPDCAPIHandoverInfo(r2.party, r2.nonce, r2.thumbprint)
      BY <1>1, <1>3, <1>5 DEF transcript, sha256Sum
    <2>2. r1.responseURI = Nil /\ r2.responseURI = Nil
      BY <1>3, <1>5 DEF Requests
    <2> QED
      BY <1>3, <2>1, <2>2 DEF OID4VPDCAPIHandoverInfo
  <1> QED
    BY <1>2, <1>4, <1>5

\* A constructor keeps the invariant.
LEMMA BuildKeepsTInv ==
    ASSUME TInv, NEW s \in Sessions, NEW r \in Requests, sessionTranscriptFromRaw(s, r)
    PROVE  TInv'
  <1>1. PICK c \in Cells :
          /\ heap[c] = Free /\ session[s] = Nil
          /\ heap' = [heap EXCEPT ![c] = transcript(r)]
          /\ session' = [session EXCEPT ![s] = [cbor |-> c, request |-> r]]
          /\ UNCHANGED <<thumbprint, held>>
    BY DEF sessionTranscriptFromRaw
  <1>2. transcript(r) \in Bytestrings /\ transcript(r) # Free
    BY TranscriptTyped, DistinctStates
  <1>3. session' \in [Sessions -> [cbor: Cells, request: Requests] \cup {Nil}]
    BY <1>1 DEF TInv
  <1>4. [cbor |-> c, request |-> r] # Nil /\ Built' = Built \cup {s} /\ s \notin Built
    BY <1>1, DistinctStates DEF TInv, Built
  <1>5. /\ session'[s].cbor = c /\ session'[s].request = r /\ heap'[c] = transcript(r)
        /\ \A t \in Built : session'[t] = session[t] /\ t \in Sessions
        /\ \A d \in Cells : d # c => heap'[d] = heap[d]
    BY <1>1, <1>4 DEF TInv, TypeOK, Built
  <1>6. c \notin held /\ \A t \in Built : session[t].cbor # c /\ session[t].cbor \in Cells
    <2>1. c \notin held
      BY <1>1 DEF TInv, Private
    <2>2. ASSUME NEW t \in Built
          PROVE  session[t].cbor # c /\ session[t].cbor \in Cells
      <3>1. /\ session[t].cbor \in Cells /\ session[t].request \in Requests
            /\ heap[session[t].cbor] = transcript(session[t].request)
        BY DEF TInv, TypeOK, TranscriptStable
      <3>2. heap[session[t].cbor] # Free
        BY <3>1, TranscriptTyped, DistinctStates
      <3> QED
        BY <1>1, <3>1, <3>2
    <2> QED
      BY <2>1, <2>2
  <1>7. TypeOK'
    <2>1. heap' \in [Cells -> Bytestrings \cup {Scribble, Free}]
      BY <1>1, <1>2 DEF TInv, TypeOK
    <2>2. \A t \in Built' : session'[t].cbor \in Cells /\ session'[t].request \in Requests
      BY <1>4, <1>5 DEF TInv, TypeOK
    <2> QED
      BY <1>1, <2>1, <2>2 DEF TInv, TypeOK
  <1>8. TranscriptStable'
    BY <1>4, <1>5, <1>6 DEF TInv, TranscriptStable
  <1>9. Private'
    <2>1. \A t \in Built' : session'[t].cbor \notin held'
      BY <1>1, <1>4, <1>5, <1>6 DEF TInv, Private
    <2>2. \A t, u \in Built' : t # u => session'[t].cbor # session'[u].cbor
      BY <1>4, <1>5, <1>6 DEF TInv, Private
    <2>3. \A d \in held' : heap'[d] # Free
      BY <1>1, <1>5, <1>6 DEF TInv, Private, TypeOK
    <2> QED
      BY <2>1, <2>2, <2>3 DEF Private
  <1> QED
    BY <1>3, <1>7, <1>8, <1>9 DEF TInv

\* Bytes and Overwrite touch one array, and it is not a transcript's.
LEMMA ForeignCellKeepsTInv ==
    ASSUME TInv, NEW c \in Cells, NEW v \in Bytestrings \cup {Scribble},
           heap' = [heap EXCEPT ![c] = v], held' = held \cup {c}, session' = session,
           thumbprint' = thumbprint, \A s \in Built : session[s].cbor # c
    PROVE  TInv'
  <1>1. Built' = Built /\ v # Free
    BY DistinctStates DEF Built
  <1>2. /\ heap' \in [Cells -> Bytestrings \cup {Scribble, Free}] /\ heap'[c] = v
        /\ \A d \in Cells : d # c => heap'[d] = heap[d]
    BY DEF TInv, TypeOK
  <1>3. TypeOK'
    BY <1>1, <1>2 DEF TInv, TypeOK
  <1>4. TranscriptStable'
    BY <1>1, <1>2 DEF TInv, TypeOK, TranscriptStable
  <1>5. Private'
    BY <1>1, <1>2 DEF TInv, TypeOK, Private
  <1> QED
    BY <1>3, <1>4, <1>5 DEF TInv

LEMMA StepTInv == TInv /\ [Next]_tvars => TInv'
  <1> SUFFICES ASSUME TInv, [Next]_tvars
               PROVE  TInv'
    OBVIOUS
  <1>1. ASSUME NEW s \in Sessions, OID4VPHandover(s)
        PROVE  TInv'
    <2>1. PICK clientID \in Parties, nonce \in Nonces, responseURI \in ResponseURIs :
            sessionTranscriptFromRaw(s,
              [flow |-> "redirect", party |-> clientID, nonce |-> nonce,
               thumbprint |-> thumbprint, responseURI |-> responseURI])
      BY <1>1 DEF OID4VPHandover
    <2>2. [flow |-> "redirect", party |-> clientID, nonce |-> nonce,
           thumbprint |-> thumbprint, responseURI |-> responseURI] \in Requests
      BY DEF TInv, TypeOK, Requests
    <2> QED
      BY <2>1, <2>2, BuildKeepsTInv
  <1>2. ASSUME NEW s \in Sessions, OID4VPDCAPIHandover(s)
        PROVE  TInv'
    <2>1. PICK origin \in Parties, nonce \in Nonces :
            sessionTranscriptFromRaw(s,
              [flow |-> "dcapi", party |-> origin, nonce |-> nonce,
               thumbprint |-> thumbprint, responseURI |-> Nil])
      BY <1>2 DEF OID4VPDCAPIHandover
    <2>2. [flow |-> "dcapi", party |-> origin, nonce |-> nonce,
           thumbprint |-> thumbprint, responseURI |-> Nil] \in Requests
      BY DEF TInv, TypeOK, Requests
    <2> QED
      BY <2>1, <2>2, BuildKeepsTInv
  <1>3. ASSUME NEW s \in Sessions, Bytes(s)
        PROVE  TInv'
    <2>1. s \in Built
      BY <1>3 DEF Bytes, Built
    <2>2. PICK c \in Cells :
            /\ heap[c] = Free
            /\ heap' = [heap EXCEPT ![c] = heap[session[s].cbor]]
            /\ held' = held \cup {c}
      BY <1>3 DEF Bytes
    <2>3. ASSUME NEW t \in Built
          PROVE  heap[session[t].cbor] \in Bytestrings /\ session[t].cbor # c
      <3>1. heap[session[t].cbor] \in Bytestrings
        BY TranscriptTyped DEF TInv, TypeOK, TranscriptStable
      <3> QED
        BY <2>2, <3>1, DistinctStates
    <2> QED
      BY <1>3, <2>1, <2>2, <2>3, ForeignCellKeepsTInv DEF Bytes
  <1>4. CASE Overwrite
    <2>1. PICK c \in held : heap' = [heap EXCEPT ![c] = Scribble]
      BY <1>4 DEF Overwrite
    <2>2. c \in Cells /\ held' = held \cup {c} /\ \A s \in Built : session[s].cbor # c
      BY <1>4 DEF Overwrite, TInv, TypeOK, Private
    <2> QED
      BY <1>4, <2>1, <2>2, ForeignCellKeepsTInv DEF Overwrite
  <1>5. CASE ReuseThumbprint
    BY <1>5 DEF ReuseThumbprint, TInv, TypeOK, TranscriptStable, Private, Built
  <1>6. CASE UNCHANGED tvars
    BY <1>6 DEF tvars, TInv, TypeOK, TranscriptStable, Private, Built
  <1> QED
    BY <1>1, <1>2, <1>3, <1>4, <1>5, <1>6 DEF Next

LEMMA Invariance == Spec => []TInv
  <1>1. Init => TInv
    BY DEF Init, TInv, TypeOK, TranscriptStable, Private, Built
  <1> QED
    BY <1>1, StepTInv, PTL DEF Spec

\* The slices and transcripts of any run are of their types.
THEOREM TranscriptsTyped == Spec => []TypeOK
  BY Invariance, PTL DEF TInv

\* For any number of sessions and arrays, and whatever callers write into the slices
\* they passed in or got from Bytes, a transcript is the one its request determines.
THEOREM TranscriptsStable == Spec => []TranscriptStable
  <1>1. TInv => TranscriptStable
    BY DEF TInv
  <1> QED
    BY <1>1, Invariance, PTL

\* Two sessions with the same transcript bytes are the same in flow, party, nonce and
\* response URI, and in thumbprint too unless one is nil and the other empty.
THEOREM TranscriptsApart == Spec => []SessionsApart
  <1>1. TInv => SessionsApart
    <2> SUFFICES ASSUME TInv, NEW s1 \in Built, NEW s2 \in Built,
                        heap[session[s1].cbor] = heap[session[s2].cbor]
                 PROVE  LET r1 == session[s1].request
                            r2 == session[s2].request
                        IN  /\ [r1 EXCEPT !.thumbprint = Nil] = [r2 EXCEPT !.thumbprint = Nil]
                            /\ r1.thumbprint # r2.thumbprint =>
                                 {r1.thumbprint, r2.thumbprint} = {Nil, Empty}
      BY DEF SessionsApart
    <2> DEFINE r1 == session[s1].request
               r2 == session[s2].request
    <2>1. r1 \in Requests /\ r2 \in Requests /\ transcript(r1) = transcript(r2)
      BY DEF TInv, TypeOK, TranscriptStable
    <2> HIDE DEF r1, r2
    <2>2. /\ r1.flow = r2.flow /\ r1.party = r2.party /\ r1.nonce = r2.nonce
          /\ r1.responseURI = r2.responseURI
          /\ nullable(r1.thumbprint) = nullable(r2.thumbprint)
      BY <2>1, TranscriptInjective
    <2>3. r1.thumbprint \in ThumbprintArgs /\ r2.thumbprint \in ThumbprintArgs
      BY <2>1 DEF Requests
    <2>4. r1.thumbprint # r2.thumbprint => {r1.thumbprint, r2.thumbprint} = {Nil, Empty}
      BY <2>2, <2>3, DistinctBytes DEF nullable, ThumbprintArgs
    <2>5. [r1 EXCEPT !.thumbprint = Nil] = [r2 EXCEPT !.thumbprint = Nil]
      BY <2>1, <2>2 DEF Requests
    <2> QED
      BY <2>4, <2>5 DEF r1, r2
  <1> QED
    BY <1>1, Invariance, PTL
=============================================================================
