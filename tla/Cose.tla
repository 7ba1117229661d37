-------------------------------- MODULE Cose --------------------------------
(***************************************************************************)
(* The COSE_Sign1 surgery of cose.go, the COSE_Key parser of key.go and    *)
(* the two go-eudi-crypto calls they lean on. An operation that can fail   *)
(* returns [val, err] like the Go function, err = {} on success.           *)
(***************************************************************************)
EXTENDS MdocData

Ok(v) == [val |-> v, err |-> {}]
Err(e) == [val |-> Absent, err |-> e]

\* The four elements of a COSE_Sign1, its optional tag 18 stripped.
coseParts(raw) ==
    IF raw = Malformed \/ raw.len # 4
    THEN Err({"ErrMalformed"})
    ELSE Ok([protected |-> raw.protected, unprotected |-> raw.unprotected,
             payload |-> raw.payload, signature |-> raw.signature])

\* The tag-18 message of four elements, each of them verbatim.
coseAssemble(parts) ==
    [tagged |-> TRUE, len |-> 4, protected |-> parts.protected,
     unprotected |-> parts.unprotected, payload |-> parts.payload,
     signature |-> parts.signature]

\* x5chain of one header map; (nil, false, nil) is Ok(Absent). A header that is
\* no map counts as a map without an x5chain.
x5chainFromMap(header) ==
    IF header \in {Absent, Malformed} THEN Ok(Absent)
    ELSE IF header.x5chain = Malformed THEN Err({"ErrMalformed"})
    ELSE IF header.x5chain = <<>> THEN Err({"ErrIssuerAuth"})
    ELSE Ok(header.x5chain)

\* The unprotected header is asked first, the protected one only if it has none.
x5chainFrom(parts) ==
    LET unprot == x5chainFromMap(parts.unprotected)
    IN  IF unprot.err # {} \/ unprot.val # Absent THEN unprot
        ELSE IF parts.protected = Malformed THEN Err({"ErrMalformed"})
        ELSE LET prot == x5chainFromMap(parts.protected)
             IN  IF prot.err = {} /\ prot.val = Absent THEN Err({"ErrIssuerAuth"}) ELSE prot

\* Mutant of spliceCOSEPayload: a payload the message already carries is kept.
spliceCOSEPayload_Attached(raw, payload) ==
    LET parts == coseParts(raw)
    IN  IF parts.err # {} THEN parts
        ELSE Ok(coseAssemble([parts.val EXCEPT !.payload = IF @ = Absent THEN payload ELSE @]))

\* The message with its payload slot replaced, ready for VerifyCOSESign1.
spliceCOSEPayload(raw, payload) ==
    LET parts == coseParts(raw)
    IN  IF parts.err # {} THEN parts
        ELSE Ok(coseAssemble([parts.val EXCEPT !.payload = payload]))

\* eudicrypto.VerifyCOSESign1: the protected header names an allowed algorithm
\* and the signature is the key's own over exactly this header and this payload.
VerifyCOSESign1(cose, key) ==
    IF cose.protected \in {Absent, Malformed} THEN Err({"ErrVerificationFailed"})
    ELSE IF cose.protected.alg # "ES256" THEN Err({"ErrAlgNotAllowed"})
    ELSE IF /\ cose.payload \notin {Absent, Malformed}
            /\ cose.signature = Sign(key, cose.protected, cose.payload)
    THEN Ok(cose.payload)
    ELSE Err({"ErrVerificationFailed"})

\* Whether eudicrypto.ECCG().HashForMSODigestAlg knows the algorithm.
hashForMSODigestAlg(alg) ==
    IF alg \in {"SHA-256", "SHA-384", "SHA-512"} THEN {} ELSE {"ErrDigestAlg"}

\* The COSE label of a supported curve: 1, 2, 3 for P-256, P-384, P-521.
curveForCOSELabel(label) == IF label \in 1 .. 3 THEN {} ELSE {"ErrUnsupported"}

\* The EC public key of a COSE_Key, its curve allowed and its point on the curve.
parseCOSEKey(raw) ==
    IF raw = Malformed THEN Err({"ErrMalformed"})
    ELSE IF raw.kty # "EC2" THEN Err({"ErrUnsupported"})
    ELSE IF raw.crv = Malformed THEN Err({"ErrMalformed"})
    ELSE IF curveForCOSELabel(raw.crv) # {} THEN Err(curveForCOSELabel(raw.crv))
    ELSE IF raw.pt = Malformed THEN Err({"ErrMalformed"})
    ELSE Ok(raw.pt)
=============================================================================
