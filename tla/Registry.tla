------------------------------ MODULE Registry ------------------------------
(***************************************************************************)
(* registry.go: the report on a verified document. Report ranges over two  *)
(* Go maps, whose order is any order, and owes its caller one list: every  *)
(* disclosed element once, in order, with the flags its own document type  *)
(* and namespace give it and never its value.                              *)
(***************************************************************************)
EXTENDS Naturals, SequencesExt

CONSTANTS
    Names,          \* all names a document may use, in the order of their bytes
    Suffix,         \* of the names that begin with age_over_, what follows: for
                    \*   each character whether it is a "digit" or "other"
    Documents       \* verified documents: [docType, namespaces], where namespaces
                    \*   gives of each element the Go type of its value

ASSUME NamesAssumption == Names \in Seq(STRING) /\ IsInjective(Names)
ASSUME DocumentsAssumption ==
    \A d \in Documents :
        /\ IsFiniteSet(DOMAIN d.namespaces)
        /\ \A ns \in DOMAIN d.namespaces : IsFiniteSet(DOMAIN d.namespaces[ns])

VARIABLES
    pc,         \* "idle", "namespaces", "elements" or "done"
    vd,         \* the document
    nss, ids,   \* the keys still to be ranged over
    rep         \* the report: docType, knownDocType, elements

rvars == <<pc, vd, nss, ids, rep>>

\* sort.Strings compares bytes.
Less(a, b) ==
    \E i, j \in 1 .. Len(Names) : i < j /\ Names[i] = a /\ Names[j] = b

-----------------------------------------------------------------------------
\* The value hooks: isBool, isBytes, isString, or none.
isType(validate, type) == validate = "none" \/ type = validate

elementSpecs(ids_, pii, validate) == [id \in ids_ |-> [pii |-> pii, validate |-> validate]]

\* The entries of two maps, those of n over those of m.
With(m, n) == [id \in DOMAIN m \cup DOMAIN n |-> IF id \in DOMAIN n THEN n[id] ELSE m[id]]

commonIdentityElements ==
    With(With(elementSpecs({"family_name", "given_name", "issuing_country",
                            "issuing_authority"}, FALSE, "string"),
              elementSpecs({"birth_date", "issue_date", "expiry_date", "age_in_years",
                            "age_birth_year"}, FALSE, "none")),
         With(elementSpecs({"document_number"}, TRUE, "string"),
              elementSpecs({"portrait", "biometric_template"}, TRUE, "bytes")))

\* Mutant of ageOverPattern: the prefix is enough.
ageOverPattern_Prefix(id) == id \in DOMAIN Suffix

\* ageOverPattern: age_over_NN with one or more digits, and nothing else.
ageOverPattern(id) ==
    id \in DOMAIN Suffix /\ Suffix[id] # <<>> /\ \A c \in Range(Suffix[id]) : c = "digit"

agePatterns == <<[pii |-> FALSE, validate |-> "bool"]>>

mdlNamespace ==
    [elements |->
        With(commonIdentityElements,
             With(With(elementSpecs({"driving_privileges"}, FALSE, "none"),
                       elementSpecs({"un_distinguishing_sign"}, FALSE, "string")),
                  elementSpecs({"age_over_18"}, FALSE, "bool"))),
     patterns |-> agePatterns]

pidNamespace ==
    [elements |->
        With(commonIdentityElements,
             With(With(elementSpecs({"age_over_18"}, FALSE, "bool"),
                       elementSpecs({"nationality"}, FALSE, "none")),
                  With(elementSpecs({"birth_place", "resident_country", "resident_city",
                                     "resident_postal_code"}, FALSE, "string"),
                       elementSpecs({"resident_address", "personal_administrative_number"},
                                    TRUE, "string")))),
     patterns |-> agePatterns]

\* Each document type has one namespace.
registry ==
    [docType \in {"org.iso.18013.5.1.mDL", "eu.europa.ec.eudi.pid.1"} |->
        IF docType = "org.iso.18013.5.1.mDL"
        THEN [ns \in {"org.iso.18013.5.1"} |-> mdlNamespace]
        ELSE [ns \in {"eu.europa.ec.eudi.pid.1"} |-> pidNamespace]]

\* Suffix says of the names in the registry what they are.
ASSUME SuffixAssumption ==
    /\ DOMAIN Suffix \cap (DOMAIN mdlNamespace.elements \cup DOMAIN pidNamespace.elements)
        \subseteq {"age_over_18"}
    /\ "age_over_18" \in DOMAIN Suffix => Suffix["age_over_18"] = <<"digit", "digit">>
    /\ \A id \in DOMAIN Suffix : Suffix[id] \in Seq({"digit", "other"})

KnownDocType(docType) == docType \in DOMAIN registry

\* Mutant of namespaceSpec: a namespace is looked up in all document types.
namespaceSpec_AnyDocType(docType, ns) ==
    IF \E t \in DOMAIN registry : ns \in DOMAIN registry[t]
    THEN registry[CHOOSE t \in DOMAIN registry : ns \in DOMAIN registry[t]][ns]
    ELSE [elements |-> <<>>, patterns |-> <<>>]

\* What the registry says of a namespace of a document type; it has neither elements
\* nor patterns for one it does not know.
namespaceSpec(docType, ns) ==
    IF KnownDocType(docType) /\ ns \in DOMAIN registry[docType] THEN registry[docType][ns]
    ELSE [elements |-> <<>>, patterns |-> <<>>]

\* An element's flags: by its exact name, then by pattern.
resolveElement(ns, id) ==
    LET Found(spec) == [pii |-> spec.pii, validate |-> spec.validate, elKnown |-> TRUE]
    IN  IF id \in DOMAIN ns.elements THEN Found(ns.elements[id])
        ELSE IF ns.patterns # <<>> /\ ageOverPattern(id) THEN Found(ns.patterns[1])
        ELSE [pii |-> FALSE, validate |-> "none", elKnown |-> FALSE]

\* Mutant of sortedKeys: the keys stay in the order the map was ranged over.
sortedKeys_Ranged(m) == SetToSeqs(DOMAIN m)

\* sortedStringKeys and sortedAnyKeys: the keys of a map, each once, sorted.
sortedKeys(m) ==
    {out \in SetToSeqs(DOMAIN m) : \A p, q \in DOMAIN out : p < q => Less(out[p], out[q])}

-----------------------------------------------------------------------------
NoDocument == [docType |-> "", namespaces |-> <<>>]

Init ==
    /\ pc = "idle" /\ vd = NoDocument /\ nss = <<>> /\ ids = <<>>
    /\ rep = [docType |-> "", knownDocType |-> FALSE, elements |-> <<>>]

\* Report is called with what Verify returned.
Report ==
    /\ pc \in {"idle", "done"}
    /\ vd' \in Documents
    /\ rep' = [docType |-> vd'.docType, knownDocType |-> KnownDocType(vd'.docType),
               elements |-> <<>>]
    /\ nss' \in sortedKeys(vd'.namespaces)
    /\ pc' = "namespaces" /\ UNCHANGED ids

\* The outer loop: the elements of the next namespace.
RangeNamespaces ==
    /\ pc = "namespaces"
    /\ \/ /\ nss # <<>>
          /\ ids' \in sortedKeys(vd.namespaces[Head(nss)])
          /\ pc' = "elements"
       \/ nss = <<>> /\ pc' = "done" /\ UNCHANGED ids
    /\ UNCHANGED <<vd, nss, rep>>

\* Mutant of ElementReports: an element the registry does not know is skipped.
ElementReports_Known(docType, ns, id, type) ==
    LET el == resolveElement(namespaceSpec(docType, ns), id)
    IN  IF ~el.elKnown THEN <<>>
        ELSE <<[namespace |-> ns, identifier |-> id, known |-> el.elKnown, pii |-> el.pii,
                typeValid |-> isType(el.validate, type)]>>

\* What one turn of the inner loop appends to the report.
ElementReports(docType, ns, id, type) ==
    LET el == resolveElement(namespaceSpec(docType, ns), id)
    IN  <<[namespace |-> ns, identifier |-> id, known |-> el.elKnown, pii |-> el.pii,
           typeValid |-> isType(el.validate, type)]>>

\* The inner loop.
RangeElements ==
    LET ns == Head(nss)
        id == Head(ids)
    IN  /\ pc = "elements"
        /\ \/ /\ ids # <<>>
              /\ rep' = [rep EXCEPT !.elements =
                    @ \o ElementReports(vd.docType, ns, id, vd.namespaces[ns][id])]
              /\ ids' = Tail(ids) /\ UNCHANGED <<pc, nss>>
           \/ /\ ids = <<>>
              /\ pc' = "namespaces" /\ nss' = Tail(nss) /\ UNCHANGED <<ids, rep>>
        /\ UNCHANGED vd

Next == Report \/ RangeNamespaces \/ RangeElements

Spec == Init /\ [][Next]_rvars

-----------------------------------------------------------------------------
Entries == Range(rep.elements)

\* One entry comes before another.
Before(e, f) ==
    \/ Less(e.namespace, f.namespace)
    \/ e.namespace = f.namespace /\ Less(e.identifier, f.identifier)

\* registry.go:22 "sorted by namespace, then identifier": the list of entries is strictly
\* increasing in every order in which Go may range over the two maps, so the report of
\* a document is always the same report and has no element twice.
StrictlySorted ==
    \A j \in 1 .. Len(rep.elements) - 1 : Before(rep.elements[j], rep.elements[j + 1])

\* A finished report has an entry for every disclosed element, those of unknown document
\* types, namespaces and names included, and for nothing else.
EveryElementReported ==
    pc = "done" =>
        {<<e.namespace, e.identifier>> : e \in Entries} =
            UNION {{<<ns, id>> : id \in DOMAIN vd.namespaces[ns]} : ns \in DOMAIN vd.namespaces}

\* registry.go:119 "the redaction list (portrait, biometric_template, document numbers)"
\* and the PID's address, each under the document type and namespace it belongs to.
RedactionList ==
    ({<<"org.iso.18013.5.1.mDL", "org.iso.18013.5.1">>,
      <<"eu.europa.ec.eudi.pid.1", "eu.europa.ec.eudi.pid.1">>}
        \X {"portrait", "biometric_template", "document_number"})
    \cup ({<<"eu.europa.ec.eudi.pid.1", "eu.europa.ec.eudi.pid.1">>}
        \X {"personal_administrative_number", "resident_address"})

\* An entry asks for redaction exactly when its element is on the list of its own
\* document type and namespace, whatever the type of its value and whatever else is in
\* the report.
Redacts == \A e \in Entries :
    e.pii <=> <<<<rep.docType, e.namespace>>, e.identifier>> \in RedactionList

\* All age attestations of a known namespace are treated alike, whether the registry
\* names them (age_over_18) or a pattern does: known, not redacted, and valid exactly
\* when the value is a boolean. A name that only begins like one is an unknown element.
AgeAttestations == \A e \in Entries :
    e.identifier \in DOMAIN Suffix =>
        LET own == <<rep.docType, e.namespace>> \in {r[1] : r \in RedactionList}
            attests == Len(Suffix[e.identifier]) > 0 /\ "other" \notin Range(Suffix[e.identifier])
        IN  /\ ~e.pii
            /\ e.known <=> own /\ attests
            /\ e.typeValid <=> (e.known => vd.namespaces[e.namespace][e.identifier] = "bool")
=============================================================================
