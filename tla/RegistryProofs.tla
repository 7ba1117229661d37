--------------------------- MODULE RegistryProofs ---------------------------
(***************************************************************************)
(* The properties of Registry, for every document, every set of names and  *)
(* every order of Go's maps. What the sorted loops have done and have      *)
(* still to do is the inductive invariant RInv; the flags follow from what *)
(* the tables say of a single element.                                     *)
(***************************************************************************)
EXTENDS Registry, FiniteSetTheorems, TLAPS

\* A sequence of names in order.
Increasing(s) == \A p, q \in 1 .. Len(s) : p < q => Less(s[p], s[q])

\* What Report owes its caller on an element of this document.
Reported(ns, id) == ElementReports(vd.docType, ns, id, vd.namespaces[ns][id])[1]
AllReports ==
    UNION {{Reported(ns, id) : id \in DOMAIN vd.namespaces[ns]} : ns \in DOMAIN vd.namespaces}

Shape ==
    /\ pc \in {"idle", "namespaces", "elements", "done"}
    /\ rep \in [docType: {vd.docType}, knownDocType: BOOLEAN, elements: Seq(AllReports)]

\* The keys the loops have still to visit are keys, and in order.
ToVisit ==
    /\ pc # "idle" =>
        vd \in Documents /\ nss \in Seq(DOMAIN vd.namespaces) /\ Increasing(nss)
    /\ pc = "elements" =>
        /\ nss # <<>>
        /\ ids \in Seq(DOMAIN vd.namespaces[nss[1]]) /\ Increasing(ids)
    /\ pc = "done" => nss = <<>>

\* What is reported comes before what is still to be visited.
ReportedFirst ==
    \A j \in 1 .. Len(rep.elements) :
        LET e == rep.elements[j]
        IN  /\ pc = "namespaces" => \A q \in 1 .. Len(nss) : Less(e.namespace, nss[q])
            /\ pc = "elements" =>
                \/ \A q \in 1 .. Len(nss) : Less(e.namespace, nss[q])
                \/ /\ e.namespace = nss[1]
                   /\ \A q \in 2 .. Len(nss) : Less(nss[1], nss[q])
                   /\ \A q \in 1 .. Len(ids) : Less(e.identifier, ids[q])

\* Every element is reported or still to be visited.
NoneForgotten ==
    pc # "idle" =>
        \A ns \in DOMAIN vd.namespaces : \A id \in DOMAIN vd.namespaces[ns] :
            \/ \E j \in 1 .. Len(rep.elements) :
                rep.elements[j].namespace = ns /\ rep.elements[j].identifier = id
            \/ \E q \in 1 .. Len(nss) :
                /\ nss[q] = ns
                /\ pc = "elements" /\ q = 1 => \E r \in 1 .. Len(ids) : ids[r] = id

RInv == Shape /\ ToVisit /\ ReportedFirst /\ NoneForgotten /\ StrictlySorted

-----------------------------------------------------------------------------
\* sortedKeys lists all keys of a finite map, in order.
LEMMA SortedKeys ==
    ASSUME NEW m, IsFiniteSet(DOMAIN m), NEW s \in sortedKeys(m)
    PROVE  /\ s \in Seq(DOMAIN m) /\ Increasing(s)
           /\ \A x \in DOMAIN m : \E q \in 1 .. Len(s) : s[q] = x
  <1> DEFINE n == Cardinality(DOMAIN m)
  <1>1. n \in Nat
    BY FS_CardinalityType
  <1>2. /\ s \in [1 .. n -> DOMAIN m]
        /\ \A p, q \in 1 .. n : p # q => s[p] # s[q]
        /\ \A p, q \in 1 .. n : p < q => Less(s[p], s[q])
    BY DEF sortedKeys, SetToSeqs
  <1>3. s \in Seq(DOMAIN m) /\ Len(s) = n
    BY <1>1, <1>2
  <1>4. s \in Injection(1 .. n, DOMAIN m)
    BY <1>2 DEF Injection, IsInjective
  <1>5. Cardinality(1 .. n) = Cardinality(DOMAIN m)
    BY <1>1, FS_Interval
  <1>6. s \in Surjection(1 .. n, DOMAIN m)
    BY <1>4, <1>5, FS_Injection
  <1> QED
    BY <1>2, <1>3, <1>6 DEF Increasing, Surjection

\* An entry names the element it is about.
LEMMA EntryNamed ==
    \A ns, id : Reported(ns, id).namespace = ns /\ Reported(ns, id).identifier = id
  BY DEF Reported, ElementReports

LEMMA InitRInv == Init => RInv
  <1> SUFFICES ASSUME Init PROVE RInv
    OBVIOUS
  <1>1. rep.elements = <<>> /\ rep.docType = vd.docType /\ pc = "idle"
    BY DEF Init, NoDocument
  <1>2. Shape
    <2>1. <<>> \in Seq(AllReports)
      OBVIOUS
    <2> QED
      BY <2>1 DEF Init, NoDocument, Shape
  <1> QED
    BY <1>1, <1>2 DEF RInv, ToVisit, ReportedFirst, NoneForgotten, StrictlySorted

LEMMA StepReport ==
    ASSUME RInv, Report PROVE RInv'
  <1>1. /\ pc' = "namespaces" /\ vd' \in Documents /\ rep'.elements = <<>>
        /\ nss' \in sortedKeys(vd'.namespaces)
        /\ rep' \in [docType: {vd'.docType}, knownDocType: BOOLEAN, elements: {<<>>}]
    BY DEF Report, KnownDocType
  <1>2. /\ nss' \in Seq(DOMAIN vd'.namespaces) /\ Increasing(nss)'
        /\ \A ns \in DOMAIN vd'.namespaces : \E q \in 1 .. Len(nss') : nss'[q] = ns
    BY <1>1, SortedKeys, DocumentsAssumption DEF Increasing
  <1>3. Shape'
    <2>1. {<<>>} \subseteq Seq(AllReports')
      OBVIOUS
    <2> QED
      BY <1>1, <2>1 DEF Shape
  <1>4. ToVisit' /\ NoneForgotten'
    BY <1>1, <1>2 DEF ToVisit, NoneForgotten
  <1> QED
    BY <1>1, <1>3, <1>4 DEF RInv, ReportedFirst, StrictlySorted

LEMMA StepRangeNamespaces ==
    ASSUME RInv, RangeNamespaces PROVE RInv'
  <1>1. /\ pc = "namespaces" /\ vd' = vd /\ nss' = nss /\ rep' = rep
        /\ vd \in Documents /\ nss \in Seq(DOMAIN vd.namespaces) /\ Increasing(nss)
    BY DEF RangeNamespaces, RInv, ToVisit
  <1>2. Shape' /\ StrictlySorted' /\ pc' \in {"elements", "done"}
    <2>1. AllReports' = AllReports
      BY <1>1 DEF AllReports, Reported
    <2> QED
      BY <1>1, <2>1 DEF RangeNamespaces, RInv, Shape, StrictlySorted
  <1>3. CASE nss # <<>> /\ ids' \in sortedKeys(vd.namespaces[Head(nss)]) /\ pc' = "elements"
    <2>1. nss[1] \in DOMAIN vd.namespaces /\ Head(nss) = nss[1]
      BY <1>1, <1>3
    <2>2. /\ ids' \in Seq(DOMAIN vd.namespaces[nss[1]]) /\ Increasing(ids)'
          /\ \A id \in DOMAIN vd.namespaces[nss[1]] : \E r \in 1 .. Len(ids') : ids'[r] = id
      BY <1>1, <1>3, <2>1, SortedKeys, DocumentsAssumption DEF Increasing
    <2>3. ToVisit'
      BY <1>1, <1>3, <2>2 DEF ToVisit, Increasing
    <2>4. ReportedFirst'
      BY <1>1, <1>3 DEF RInv, ReportedFirst
    <2>5. NoneForgotten'
      BY <1>1, <1>3, <2>2 DEF RInv, NoneForgotten
    <2> QED
      BY <1>2, <2>3, <2>4, <2>5 DEF RInv
  <1>4. CASE nss = <<>> /\ pc' = "done"
    BY <1>1, <1>2, <1>4 DEF RInv, ToVisit, Increasing, ReportedFirst, NoneForgotten
  <1> QED
    BY <1>3, <1>4 DEF RangeNamespaces

\* One more entry: the next element of the namespace under way.
LEMMA StepAppend ==
    ASSUME RInv, RangeElements, ids # <<>> PROVE RInv'
  <1> DEFINE n == Len(rep.elements)
             new == Reported(nss[1], ids[1])
  <1>1. pc = "elements" /\ pc' = pc /\ vd' = vd /\ nss' = nss /\ ids' = Tail(ids)
    BY DEF RangeElements
  <1>2. /\ vd \in Documents /\ nss \in Seq(DOMAIN vd.namespaces) /\ Increasing(nss) /\ nss # <<>>
        /\ ids \in Seq(DOMAIN vd.namespaces[nss[1]]) /\ Increasing(ids)
        /\ rep.elements \in Seq(AllReports)
    BY <1>1 DEF RInv, ToVisit, Shape
  <1>3. /\ Len(nss) \in Nat \ {0} /\ Len(ids) \in Nat \ {0} /\ n \in Nat
        /\ nss[1] \in DOMAIN vd.namespaces /\ ids[1] \in DOMAIN vd.namespaces[nss[1]]
        /\ Head(nss) = nss[1] /\ Head(ids) = ids[1]
    BY <1>2
  <1>4. /\ ids' \in Seq(DOMAIN vd.namespaces[nss[1]]) /\ Len(ids') = Len(ids) - 1
        /\ \A r \in 1 .. Len(ids') : ids'[r] = ids[r + 1]
    BY <1>1, <1>2, <1>3
  <1>5. new \in AllReports /\ new.namespace = nss[1] /\ new.identifier = ids[1]
    BY <1>3, EntryNamed DEF AllReports
  <1>6. rep' = [rep EXCEPT !.elements = rep.elements \o <<new>>]
    <2>1. rep' = [rep EXCEPT !.elements = rep.elements \o
                    ElementReports(vd.docType, nss[1], ids[1], vd.namespaces[nss[1]][ids[1]])]
      BY <1>3 DEF RangeElements
    <2> QED
      BY <2>1 DEF Reported, ElementReports
  <1> HIDE DEF new
  <1> DEFINE es == rep.elements
             fs == rep'.elements
  <1>7. /\ fs \in Seq(AllReports) /\ Len(fs) = n + 1 /\ fs[n + 1] = new
        /\ \A j \in 1 .. n : fs[j] = es[j]
    <2>1. es \in Seq(AllReports) /\ fs = es \o <<new>> /\ Len(es) = n
      BY <1>2, <1>6 DEF RInv, Shape
    <2> HIDE DEF es, fs, n
    <2> QED
      BY <1>5, <2>1
  <1>8. Shape'
    <2>1. AllReports' = AllReports
      BY <1>1 DEF AllReports, Reported
    <2> QED
      BY <1>1, <1>6, <1>7, <2>1 DEF RInv, Shape
  <1>9. ToVisit'
    BY <1>1, <1>2, <1>3, <1>4 DEF ToVisit, Increasing
  <1>10. /\ \A q \in 2 .. Len(nss) : Less(nss[1], nss[q])
         /\ \A q \in 1 .. Len(ids') : Less(ids[1], ids'[q])
    BY <1>2, <1>3, <1>4, SMTT(30) DEF Increasing
  <1> DEFINE Cleared(e, rest) ==
                \/ \A q \in 1 .. Len(nss) : Less(e.namespace, nss[q])
                \/ /\ e.namespace = nss[1]
                   /\ \A q \in 2 .. Len(nss) : Less(nss[1], nss[q])
                   /\ \A q \in 1 .. Len(rest) : Less(e.identifier, rest[q])
             Is(e, ns, id) == e.namespace = ns /\ e.identifier = id
  <1>11. /\ \A j \in 1 .. n : Cleared(es[j], ids)
         /\ \A j \in 1 .. n - 1 : Before(es[j], es[j + 1])
    BY <1>1 DEF RInv, ReportedFirst, StrictlySorted
  <1>12. \A ns \in DOMAIN vd.namespaces : \A id \in DOMAIN vd.namespaces[ns] :
            \/ \E j \in 1 .. n : Is(es[j], ns, id)
            \/ \E q \in 1 .. Len(nss) :
                nss[q] = ns /\ (q = 1 => \E r \in 1 .. Len(ids) : ids[r] = id)
    BY <1>1 DEF RInv, NoneForgotten
  <1>13. ReportedFirst'
    <2>1. \A j \in 1 .. n + 1 : Cleared(fs[j], ids')
      <3> HIDE DEF es, fs, n
      <3>1. Cleared(new, ids')
        BY <1>5, <1>10
      <3>2. \A j \in 1 .. n : Cleared(es[j], ids')
        BY <1>3, <1>4, <1>11
      <3> HIDE DEF Cleared
      <3> QED
        BY <1>3, <1>7, <3>1, <3>2
    <2> QED
      BY <1>1, <1>7, <2>1 DEF ReportedFirst
  <1>14. NoneForgotten'
    <2>1. ASSUME NEW ns \in DOMAIN vd.namespaces, NEW id \in DOMAIN vd.namespaces[ns]
          PROVE  \/ \E j \in 1 .. n + 1 : Is(fs[j], ns, id)
                 \/ \E q \in 1 .. Len(nss) :
                    nss[q] = ns /\ (q = 1 => \E r \in 1 .. Len(ids') : ids'[r] = id)
      <3> HIDE DEF es, fs, n
      <3>1. CASE \E j \in 1 .. n : Is(es[j], ns, id)
        BY <1>3, <1>7, <3>1
      <3>2. ASSUME nss[1] = ns, NEW r \in 1 .. Len(ids), ids[r] = id
            PROVE  \/ Is(new, ns, id)
                   \/ \E l \in 1 .. Len(ids') : ids'[l] = id
        <4>1. CASE r = 1
          BY <1>5, <3>2, <4>1
        <4>2. CASE r # 1
          <5>1. r - 1 \in 1 .. Len(ids') /\ ids'[r - 1] = id
            BY <1>3, <1>4, <3>2, <4>2
          <5> QED
            BY <5>1
        <4> QED
          BY <4>1, <4>2
      <3> HIDE DEF Is
      <3> QED
        BY <1>3, <1>7, <1>12, <3>1, <3>2
    <2> QED
      BY <1>1, <1>7, <2>1 DEF NoneForgotten
  <1>15. StrictlySorted'
    <2>1. \A j \in 1 .. n : Before(fs[j], fs[j + 1])
      <3> HIDE DEF es, fs
      <3>1. n # 0 => Before(es[n], new)
        BY <1>3, <1>5, <1>11 DEF Before
      <3> HIDE DEF n
      <3> QED
        BY <1>3, <1>7, <1>11, <3>1
    <2> QED
      BY <1>3, <1>7, <2>1 DEF StrictlySorted
  <1> QED
    BY <1>8, <1>9, <1>13, <1>14, <1>15 DEF RInv

\* The namespace under way is done.
LEMMA StepNextNamespace ==
    ASSUME RInv, RangeElements, ids = <<>> PROVE RInv'
  <1>1. /\ pc = "elements" /\ pc' = "namespaces" /\ vd' = vd /\ nss' = Tail(nss)
        /\ rep' = rep
    BY DEF RangeElements
  <1>2. /\ vd \in Documents /\ nss \in Seq(DOMAIN vd.namespaces) /\ Increasing(nss) /\ nss # <<>>
    BY <1>1 DEF RInv, ToVisit
  <1>3. /\ Len(nss) \in Nat \ {0} /\ Len(ids) = 0
        /\ nss' \in Seq(DOMAIN vd.namespaces) /\ Len(nss') = Len(nss) - 1
        /\ \A q \in 1 .. Len(nss') : nss'[q] = nss[q + 1]
    BY <1>1, <1>2
  <1>4. Shape' /\ StrictlySorted'
    BY <1>1 DEF RInv, Shape, StrictlySorted, AllReports, Reported
  <1>5. ToVisit'
    BY <1>1, <1>2, <1>3 DEF ToVisit, Increasing
  <1>6. ReportedFirst'
    BY <1>1, <1>3 DEF RInv, ReportedFirst
  <1>7. NoneForgotten'
    <2> SUFFICES ASSUME NEW ns \in DOMAIN vd.namespaces, NEW id \in DOMAIN vd.namespaces[ns]
                 PROVE  \/ \E j \in 1 .. Len(rep.elements) :
                            /\ rep.elements[j].namespace = ns
                            /\ rep.elements[j].identifier = id
                        \/ \E q \in 1 .. Len(nss') : nss'[q] = ns
      BY <1>1 DEF NoneForgotten
    <2>1. ASSUME NEW q \in 1 .. Len(nss), nss[q] = ns, q # 1
          PROVE  \E l \in 1 .. Len(nss') : nss'[l] = ns
      <3>1. q - 1 \in 1 .. Len(nss') /\ nss'[q - 1] = ns
        BY <1>3, <2>1
      <3> QED
        BY <3>1
    <2> QED
      BY <1>1, <1>3, <2>1 DEF RInv, NoneForgotten
  <1> QED
    BY <1>4, <1>5, <1>6, <1>7 DEF RInv

\* RInv is inductive.
THEOREM ReportInvariance == Spec => []RInv
  <1>1. RInv /\ UNCHANGED rvars => RInv'
    BY DEF RInv, Shape, ToVisit, ReportedFirst, NoneForgotten, StrictlySorted, AllReports,
           Reported, Increasing, rvars
  <1>2. RInv /\ [Next]_rvars => RInv'
    BY <1>1, StepReport, StepRangeNamespaces, StepAppend, StepNextNamespace
    DEF Next, RangeElements
  <1> QED
    BY <1>2, InitRInv, PTL DEF Spec

\* registry.go:22: reports are sorted, without repetition, in every order of Go's maps.
THEOREM Sorted == Spec => []StrictlySorted
  BY ReportInvariance, PTL DEF RInv

\* registry.go:40: every disclosed element is in a finished report, and nothing else.
THEOREM Complete == Spec => []EveryElementReported
  <1>1. RInv => EveryElementReported
    <2> SUFFICES ASSUME RInv, pc = "done"
                 PROVE  {<<e.namespace, e.identifier>> : e \in Entries} =
                        UNION {{<<ns, id>> : id \in DOMAIN vd.namespaces[ns]} :
                                ns \in DOMAIN vd.namespaces}
      BY DEF EveryElementReported
    <2> DEFINE es == rep.elements
    <2>1. es \in Seq(AllReports)
      BY DEF RInv, Shape
    <2>2. \A ns \in DOMAIN vd.namespaces : \A id \in DOMAIN vd.namespaces[ns] :
            \E j \in 1 .. Len(es) : es[j].namespace = ns /\ es[j].identifier = id
      BY DEF RInv, ToVisit, NoneForgotten
    <2> HIDE DEF es
    <2>3. DOMAIN es = 1 .. Len(es) /\ \A j \in 1 .. Len(es) : es[j] \in AllReports
      BY <2>1
    <2>4. ASSUME NEW ns \in DOMAIN vd.namespaces, NEW id \in DOMAIN vd.namespaces[ns]
          PROVE  \E e \in Range(es) : <<e.namespace, e.identifier>> = <<ns, id>>
      BY <2>2, <2>3 DEF Range
    <2>5. ASSUME NEW e \in Range(es)
          PROVE  \E ns \in DOMAIN vd.namespaces : \E id \in DOMAIN vd.namespaces[ns] :
                    <<e.namespace, e.identifier>> = <<ns, id>>
      BY <2>3, EntryNamed DEF Range, AllReports
    <2>6. Entries = Range(es)
      BY DEF Entries, es
    <2> QED
      BY <2>4, <2>5, <2>6
  <1> QED
    BY <1>1, ReportInvariance, PTL

-----------------------------------------------------------------------------
\* A document type and a namespace the registry has a table for.
Own(docType, ns) ==
    \/ docType = "org.iso.18013.5.1.mDL" /\ ns = "org.iso.18013.5.1"
    \/ docType = "eu.europa.ec.eudi.pid.1" /\ ns = "eu.europa.ec.eudi.pid.1"

\* The names to redact under a document type.
RedactedNames(docType) ==
    {"portrait", "biometric_template", "document_number"}
    \cup IF docType = "eu.europa.ec.eudi.pid.1"
         THEN {"personal_administrative_number", "resident_address"} ELSE {}

LEMMA OnRedactionList ==
    ASSUME NEW t, NEW ns, NEW id
    PROVE  /\ <<<<t, ns>>, id>> \in RedactionList <=> Own(t, ns) /\ id \in RedactedNames(t)
           /\ <<t, ns>> \in {r[1] : r \in RedactionList} <=> Own(t, ns)
  <1>1. <<<<t, ns>>, id>> \in RedactionList <=> Own(t, ns) /\ id \in RedactedNames(t)
    BY DEF RedactionList, Own, RedactedNames
  <1>2. Own(t, ns) => \E r \in RedactionList : <<t, ns>> = r[1]
    <2> SUFFICES ASSUME Own(t, ns) PROVE <<<<t, ns>>, "portrait">> \in RedactionList
      OBVIOUS
    <2> QED
      BY DEF RedactionList, Own
  <1>3. ASSUME NEW r \in RedactionList PROVE r[1] = <<t, ns>> => Own(t, ns)
    BY DEF RedactionList, Own
  <1> QED
    BY <1>1, <1>2, <1>3

\* The names of a table that are to be redacted.
Pii(table) == {id \in DOMAIN table : table[id].pii}

LEMMA SpecsOf ==
    \A S, validate :
        /\ DOMAIN elementSpecs(S, FALSE, validate) = S
        /\ Pii(elementSpecs(S, FALSE, validate)) = {}
        /\ \A id \in S : elementSpecs(S, FALSE, validate)[id] =
                            [pii |-> FALSE, validate |-> validate]
  BY DEF elementSpecs, Pii

LEMMA RedactedSpecs ==
    \A S, validate :
        DOMAIN elementSpecs(S, TRUE, validate) = S /\ Pii(elementSpecs(S, TRUE, validate)) = S
  BY DEF elementSpecs, Pii

LEMMA WithOf ==
    \A m, n :
        /\ DOMAIN With(m, n) = DOMAIN m \cup DOMAIN n
        /\ Pii(With(m, n)) = (Pii(m) \ DOMAIN n) \cup Pii(n)
        /\ \A id \in DOMAIN n : With(m, n)[id] = n[id]
        /\ \A id \in DOMAIN m \ DOMAIN n : With(m, n)[id] = m[id]
  BY DEF With, Pii

LEMMA CommonTable ==
    /\ {"portrait", "biometric_template", "document_number"} \subseteq
        DOMAIN commonIdentityElements
    /\ Pii(commonIdentityElements) = {"portrait", "biometric_template", "document_number"}
  <1> DEFINE a == elementSpecs({"family_name", "given_name", "issuing_country",
                                "issuing_authority"}, FALSE, "string")
             b == elementSpecs({"birth_date", "issue_date", "expiry_date", "age_in_years",
                                "age_birth_year"}, FALSE, "none")
             c == elementSpecs({"document_number"}, TRUE, "string")
             d == elementSpecs({"portrait", "biometric_template"}, TRUE, "bytes")
  <1>1. Pii(a) = {} /\ Pii(b) = {}
    BY SpecsOf
  <1>2. /\ DOMAIN c = {"document_number"} /\ Pii(c) = {"document_number"}
        /\ DOMAIN d = {"portrait", "biometric_template"} /\ Pii(d) = DOMAIN d
    BY RedactedSpecs
  <1>3. commonIdentityElements = With(With(a, b), With(c, d))
    BY DEF commonIdentityElements
  <1> HIDE DEF a, b, c, d
  <1>4. /\ DOMAIN With(c, d) = DOMAIN c \cup DOMAIN d
        /\ Pii(With(c, d)) = (Pii(c) \ DOMAIN d) \cup Pii(d)
        /\ Pii(With(a, b)) = (Pii(a) \ DOMAIN b) \cup Pii(b)
    BY WithOf
  <1>5. /\ DOMAIN commonIdentityElements = DOMAIN With(a, b) \cup DOMAIN With(c, d)
        /\ Pii(commonIdentityElements) =
            (Pii(With(a, b)) \ DOMAIN With(c, d)) \cup Pii(With(c, d))
    BY <1>3, WithOf
  <1>6. Pii(With(c, d)) = {"portrait", "biometric_template", "document_number"}
    BY <1>2, <1>4
  <1>7. Pii(With(a, b)) = {}
    BY <1>1, <1>4
  <1> QED
    BY <1>2, <1>4, <1>5, <1>6, <1>7

\* The tables: which names they redact, and what they say of age_over_18.
LEMMA MdlTable ==
    LET table == mdlNamespace.elements
    IN  /\ {"portrait", "biometric_template", "document_number", "age_over_18"}
            \subseteq DOMAIN table
        /\ Pii(table) = {"portrait", "biometric_template", "document_number"}
        /\ table["age_over_18"] = [pii |-> FALSE, validate |-> "bool"]
  <1> DEFINE a == elementSpecs({"driving_privileges"}, FALSE, "none")
             b == elementSpecs({"un_distinguishing_sign"}, FALSE, "string")
             c == elementSpecs({"age_over_18"}, FALSE, "bool")
             own == With(With(a, b), c)
  <1>1. /\ DOMAIN a = {"driving_privileges"} /\ DOMAIN b = {"un_distinguishing_sign"}
        /\ DOMAIN c = {"age_over_18"} /\ Pii(a) = {} /\ Pii(b) = {} /\ Pii(c) = {}
        /\ c["age_over_18"] = [pii |-> FALSE, validate |-> "bool"]
    BY SpecsOf
  <1> DEFINE table == mdlNamespace.elements
  <1>2. table = With(commonIdentityElements, own)
    BY DEF mdlNamespace
  <1> HIDE DEF a, b, c
  <1>3. /\ DOMAIN With(a, b) = DOMAIN a \cup DOMAIN b
        /\ Pii(With(a, b)) = (Pii(a) \ DOMAIN b) \cup Pii(b)
    BY WithOf
  <1>4. own = With(With(a, b), c)
    OBVIOUS
  <1> HIDE DEF own
  <1>5. /\ DOMAIN own = DOMAIN With(a, b) \cup DOMAIN c
        /\ Pii(own) = (Pii(With(a, b)) \ DOMAIN c) \cup Pii(c)
        /\ \A id \in DOMAIN c : own[id] = c[id]
    <2>1. \A id \in DOMAIN c : own[id] = c[id]
      BY <1>4, WithOf
    <2>2. DOMAIN own = DOMAIN With(a, b) \cup DOMAIN c
      BY <1>4, WithOf
    <2>3. Pii(own) = (Pii(With(a, b)) \ DOMAIN c) \cup Pii(c)
      BY <1>4, WithOf
    <2> QED
      BY <2>1, <2>2, <2>3
  <1>6. /\ DOMAIN own = {"driving_privileges", "un_distinguishing_sign", "age_over_18"}
        /\ Pii(own) = {}
        /\ own["age_over_18"] = [pii |-> FALSE, validate |-> "bool"]
    <2>1. Pii(With(a, b)) = {}
      BY <1>1, <1>3
    <2>2. Pii(own) = {}
      BY <1>1, <1>5, <2>1
    <2>3. DOMAIN own = {"driving_privileges", "un_distinguishing_sign", "age_over_18"}
      BY <1>1, <1>3, <1>5
    <2> QED
      BY <1>1, <1>5, <2>2, <2>3
  <1> HIDE DEF own, table
  <1>7. /\ DOMAIN table = DOMAIN commonIdentityElements \cup DOMAIN own
        /\ Pii(table) = (Pii(commonIdentityElements) \ DOMAIN own) \cup Pii(own)
        /\ \A id \in DOMAIN own : table[id] = own[id]
    BY <1>2, WithOf
  <1> QED
    BY <1>6, <1>7, CommonTable DEF table

LEMMA PidTable ==
    LET table == pidNamespace.elements
    IN  /\ {"portrait", "biometric_template", "document_number", "age_over_18",
            "personal_administrative_number", "resident_address"} \subseteq DOMAIN table
        /\ Pii(table) = {"portrait", "biometric_template", "document_number",
                         "personal_administrative_number", "resident_address"}
        /\ table["age_over_18"] = [pii |-> FALSE, validate |-> "bool"]
  <1> DEFINE a == elementSpecs({"age_over_18"}, FALSE, "bool")
             b == elementSpecs({"nationality"}, FALSE, "none")
             c == elementSpecs({"birth_place", "resident_country", "resident_city",
                                "resident_postal_code"}, FALSE, "string")
             d == elementSpecs({"resident_address", "personal_administrative_number"},
                               TRUE, "string")
             own == With(With(a, b), With(c, d))
  <1>1. /\ DOMAIN a = {"age_over_18"} /\ DOMAIN b = {"nationality"}
        /\ DOMAIN c = {"birth_place", "resident_country", "resident_city",
                       "resident_postal_code"}
        /\ DOMAIN d = {"resident_address", "personal_administrative_number"}
        /\ Pii(a) = {} /\ Pii(b) = {} /\ Pii(c) = {} /\ Pii(d) = DOMAIN d
        /\ a["age_over_18"] = [pii |-> FALSE, validate |-> "bool"]
    <2>1. DOMAIN d = {"resident_address", "personal_administrative_number"} /\ Pii(d) = DOMAIN d
      BY RedactedSpecs
    <2> HIDE DEF d
    <2> QED
      BY <2>1, SpecsOf
  <1> DEFINE table == pidNamespace.elements
  <1>2. table = With(commonIdentityElements, own)
    BY DEF pidNamespace
  <1> HIDE DEF a, b, c, d
  <1>3. /\ DOMAIN With(a, b) = DOMAIN a \cup DOMAIN b
        /\ Pii(With(a, b)) = (Pii(a) \ DOMAIN b) \cup Pii(b)
        /\ \A id \in DOMAIN a \ DOMAIN b : With(a, b)[id] = a[id]
        /\ DOMAIN With(c, d) = DOMAIN c \cup DOMAIN d
        /\ Pii(With(c, d)) = (Pii(c) \ DOMAIN d) \cup Pii(d)
        /\ DOMAIN own = DOMAIN With(a, b) \cup DOMAIN With(c, d)
        /\ Pii(own) = (Pii(With(a, b)) \ DOMAIN With(c, d)) \cup Pii(With(c, d))
        /\ \A id \in DOMAIN With(a, b) \ DOMAIN With(c, d) : own[id] = With(a, b)[id]
    BY WithOf
  <1>4. /\ DOMAIN own = {"age_over_18", "nationality", "birth_place", "resident_country",
                         "resident_city", "resident_postal_code", "resident_address",
                         "personal_administrative_number"}
        /\ Pii(own) = {"resident_address", "personal_administrative_number"}
        /\ own["age_over_18"] = [pii |-> FALSE, validate |-> "bool"]
    <2>1. Pii(With(a, b)) = {}
      BY <1>1, <1>3
    <2>2. Pii(With(c, d)) = {"resident_address", "personal_administrative_number"}
      BY <1>1, <1>3
    <2>3. Pii(own) = {"resident_address", "personal_administrative_number"}
      BY <1>3, <2>1, <2>2
    <2>4. DOMAIN own = {"age_over_18", "nationality", "birth_place", "resident_country",
                        "resident_city", "resident_postal_code", "resident_address",
                        "personal_administrative_number"}
      BY <1>1, <1>3
    <2>5. own["age_over_18"] = a["age_over_18"]
      BY <1>1, <1>3
    <2> QED
      BY <1>1, <2>3, <2>4, <2>5
  <1> HIDE DEF own, table
  <1>5. /\ DOMAIN table = DOMAIN commonIdentityElements \cup DOMAIN own
        /\ Pii(table) = (Pii(commonIdentityElements) \ DOMAIN own) \cup Pii(own)
        /\ \A id \in DOMAIN own : table[id] = own[id]
    BY <1>2, WithOf
  <1> QED
    BY <1>4, <1>5, CommonTable DEF table

LEMMA Tables ==
    ASSUME NEW t, NEW ns, Own(t, ns)
    PROVE  LET table == namespaceSpec(t, ns)
           IN  /\ table \in {mdlNamespace, pidNamespace}
               /\ Pii(table.elements) = RedactedNames(t)
               /\ table.elements["age_over_18"] = [pii |-> FALSE, validate |-> "bool"]
               /\ "age_over_18" \in DOMAIN table.elements
               /\ table.patterns = agePatterns
  <1>1. CASE t = "org.iso.18013.5.1.mDL" /\ ns = "org.iso.18013.5.1"
    <2>1. namespaceSpec(t, ns) = mdlNamespace
      BY <1>1 DEF namespaceSpec, KnownDocType, registry
    <2>2. RedactedNames(t) = {"portrait", "biometric_template", "document_number"}
      BY <1>1 DEF RedactedNames
    <2>3. mdlNamespace.patterns = agePatterns
      BY DEF mdlNamespace
    <2> QED
      BY <2>1, <2>2, <2>3, MdlTable
  <1>2. CASE t = "eu.europa.ec.eudi.pid.1" /\ ns = "eu.europa.ec.eudi.pid.1"
    <2>1. namespaceSpec(t, ns) = pidNamespace
      BY <1>2 DEF namespaceSpec, KnownDocType, registry
    <2>2. RedactedNames(t) = {"portrait", "biometric_template", "document_number",
                              "personal_administrative_number", "resident_address"}
      BY <1>2 DEF RedactedNames
    <2>3. pidNamespace.patterns = agePatterns
      BY DEF pidNamespace
    <2> QED
      BY <2>1, <2>2, <2>3, PidTable
  <1> QED
    BY <1>1, <1>2 DEF Own

LEMMA NoTable ==
    ASSUME NEW t, NEW ns, ~Own(t, ns)
    PROVE  namespaceSpec(t, ns) = [elements |-> <<>>, patterns |-> <<>>]
  BY DEF namespaceSpec, KnownDocType, registry, Own

\* What resolveElement says of an element, in terms of the list alone.
LEMMA Resolved ==
    ASSUME NEW t, NEW ns, NEW id
    PROVE  LET el == resolveElement(namespaceSpec(t, ns), id)
           IN  /\ el.pii <=> Own(t, ns) /\ id \in RedactedNames(t)
               /\ id \in DOMAIN Suffix =>
                    /\ ~el.pii
                    /\ el.elKnown <=> Own(t, ns) /\ ageOverPattern(id)
                    /\ el.validate = IF el.elKnown THEN "bool" ELSE "none"
  <1> DEFINE table == namespaceSpec(t, ns)
             el == resolveElement(table, id)
             Right(e) ==
                /\ e.pii <=> Own(t, ns) /\ id \in RedactedNames(t)
                /\ id \in DOMAIN Suffix =>
                    /\ ~e.pii
                    /\ e.elKnown <=> Own(t, ns) /\ ageOverPattern(id)
                    /\ e.validate = IF e.elKnown THEN "bool" ELSE "none"
  <1> SUFFICES Right(el)
    OBVIOUS
  <1>1. CASE ~Own(t, ns)
    BY <1>1, NoTable DEF resolveElement
  <1>2. CASE Own(t, ns)
    <2>1. /\ Pii(table.elements) = RedactedNames(t)
          /\ table.elements["age_over_18"] = [pii |-> FALSE, validate |-> "bool"]
          /\ "age_over_18" \in DOMAIN table.elements
          /\ table.patterns = <<[pii |-> FALSE, validate |-> "bool"]>>
      BY <1>2, Tables DEF agePatterns
    <2>2. id \in DOMAIN Suffix /\ id \in DOMAIN table.elements =>
            id = "age_over_18" /\ ageOverPattern(id)
      <3>1. ASSUME "age_over_18" \in DOMAIN Suffix PROVE ageOverPattern("age_over_18")
        <4> DEFINE suffix == Suffix["age_over_18"]
        <4>1. suffix = <<"digit", "digit">>
          BY <3>1, SuffixAssumption
        <4>2. Len(suffix) = 2 /\ DOMAIN suffix = 1 .. 2 /\ \A l \in 1 .. 2 : suffix[l] = "digit"
          BY <4>1
        <4>3. suffix # <<>>
          BY <4>1
        <4> HIDE DEF suffix
        <4> QED
          BY <3>1, <4>2, <4>3 DEF ageOverPattern, Range, suffix
      <3> QED
        BY <1>2, <3>1, Tables, SuffixAssumption
    <2> HIDE DEF table
    <2>3. CASE id \in DOMAIN table.elements
      <3>1. el = [pii |-> table.elements[id].pii, validate |-> table.elements[id].validate,
                  elKnown |-> TRUE]
        BY <2>3 DEF resolveElement
      <3>2. table.elements[id].pii <=> id \in RedactedNames(t)
        BY <2>1, <2>3 DEF Pii
      <3>3. id \in DOMAIN Suffix =>
                table.elements[id] = [pii |-> FALSE, validate |-> "bool"] /\ ageOverPattern(id)
        BY <2>1, <2>2, <2>3
      <3>4. el.pii <=> table.elements[id].pii
        BY <3>1
      <3>5. el.elKnown = TRUE /\ el.validate = table.elements[id].validate
        BY <3>1
      <3> HIDE DEF el
      <3> QED
        BY <1>2, <3>2, <3>3, <3>4, <3>5 DEF Right
    <2>4. CASE id \notin DOMAIN table.elements
      <3>1. id \notin RedactedNames(t)
        BY <2>1, <2>4 DEF Pii
      <3>2. el = IF ageOverPattern(id)
                 THEN [pii |-> FALSE, validate |-> "bool", elKnown |-> TRUE]
                 ELSE [pii |-> FALSE, validate |-> "none", elKnown |-> FALSE]
        <4>1. table.patterns # <<>> /\ table.patterns[1] = [pii |-> FALSE, validate |-> "bool"]
          BY <2>1
        <4> QED
          BY <2>4, <4>1 DEF resolveElement
      <3>3. el.pii = FALSE /\ (el.elKnown <=> ageOverPattern(id))
            /\ el.validate = IF el.elKnown THEN "bool" ELSE "none"
        BY <3>2
      <3> HIDE DEF el
      <3> QED
        BY <1>2, <3>1, <3>3
    <2> QED
      BY <2>3, <2>4 DEF table
  <1> QED
    BY <1>1, <1>2

\* Where an entry comes from, and its flags.
LEMMA EntryOf ==
    ASSUME RInv, NEW e \in Entries
    PROVE  \E ns \in DOMAIN vd.namespaces : \E id \in DOMAIN vd.namespaces[ns] :
            LET el == resolveElement(namespaceSpec(rep.docType, ns), id)
            IN  e = [namespace |-> ns, identifier |-> id, known |-> el.elKnown, pii |-> el.pii,
                     typeValid |-> isType(el.validate, vd.namespaces[ns][id])]
  <1> DEFINE es == rep.elements
  <1>1. es \in Seq(AllReports) /\ rep.docType = vd.docType
    BY DEF RInv, Shape
  <1>2. e \in AllReports
    <2>1. e \in Range(es)
      BY DEF Entries
    <2> HIDE DEF es
    <2> QED
      BY <1>1, <2>1 DEF Range
  <1>3. PICK ns \in DOMAIN vd.namespaces : \E id \in DOMAIN vd.namespaces[ns] : e = Reported(ns, id)
    BY <1>2 DEF AllReports
  <1> QED
    BY <1>1, <1>3 DEF Reported, ElementReports

\* registry.go:43: an element is flagged for redaction exactly when the list of its own
\* document type and namespace names it.
THEOREM RedactionFlags == Spec => []Redacts
  <1>1. RInv => Redacts
    <2> SUFFICES ASSUME RInv, NEW e \in Entries
                 PROVE  e.pii <=> <<<<rep.docType, e.namespace>>, e.identifier>> \in RedactionList
      BY DEF Redacts
    <2> DEFINE flags(ns, id) == resolveElement(namespaceSpec(rep.docType, ns), id)
    <2>1. PICK ns, id : e.namespace = ns /\ e.identifier = id /\ e.pii = flags(ns, id).pii
      BY EntryOf
    <2>2. flags(ns, id).pii <=> Own(rep.docType, ns) /\ id \in RedactedNames(rep.docType)
      BY Resolved
    <2> HIDE DEF flags
    <2> QED
      BY <2>1, <2>2, OnRedactionList
  <1> QED
    BY <1>1, ReportInvariance, PTL

\* registry.go:64: age attestations are treated alike, by name or by pattern.
THEOREM AgeFlags == Spec => []AgeAttestations
  <1>1. RInv => AgeAttestations
    <2> SUFFICES ASSUME RInv, NEW e \in Entries, e.identifier \in DOMAIN Suffix
                 PROVE  LET own == <<rep.docType, e.namespace>> \in {r[1] : r \in RedactionList}
                            suffix == Suffix[e.identifier]
                            attests == Len(suffix) > 0 /\ "other" \notin Range(suffix)
                        IN  /\ ~e.pii
                            /\ e.known <=> own /\ attests
                            /\ e.typeValid <=>
                                (e.known => vd.namespaces[e.namespace][e.identifier] = "bool")
      BY DEF AgeAttestations
    <2> DEFINE flags(ns, id) == resolveElement(namespaceSpec(rep.docType, ns), id)
               suffix == Suffix[e.identifier]
    <2>1. PICK ns, id :
            /\ e.namespace = ns /\ e.identifier = id
            /\ e.pii = flags(ns, id).pii /\ e.known = flags(ns, id).elKnown
            /\ e.typeValid = isType(flags(ns, id).validate, vd.namespaces[ns][id])
      BY EntryOf
    <2>2. /\ ~flags(ns, id).pii
          /\ flags(ns, id).elKnown <=> Own(rep.docType, ns) /\ ageOverPattern(id)
          /\ flags(ns, id).validate = IF flags(ns, id).elKnown THEN "bool" ELSE "none"
      BY <2>1, Resolved
    <2>3. ageOverPattern(id) <=> Len(suffix) > 0 /\ "other" \notin Range(suffix)
      <3>1. suffix \in Seq({"digit", "other"}) /\ suffix = Suffix[id] /\ id \in DOMAIN Suffix
        BY <2>1, SuffixAssumption
      <3> HIDE DEF suffix
      <3>2. /\ Len(suffix) > 0 <=> suffix # <<>>
            /\ \A l \in DOMAIN suffix : suffix[l] \in {"digit", "other"}
        BY <3>1
      <3> QED
        BY <3>1, <3>2 DEF ageOverPattern, Range
    <2>4. <<rep.docType, ns>> \in {r[1] : r \in RedactionList} <=> Own(rep.docType, ns)
      BY OnRedactionList
    <2>5. e.typeValid <=> (flags(ns, id).elKnown => vd.namespaces[ns][id] = "bool")
      <3>1. isType(flags(ns, id).validate, vd.namespaces[ns][id]) <=>
                (flags(ns, id).elKnown => vd.namespaces[ns][id] = "bool")
        <4> HIDE DEF flags
        <4> QED
          BY <2>2 DEF isType
      <3> QED
        BY <2>1, <3>1
    <2> HIDE DEF flags
    <2> QED
      BY <2>1, <2>2, <2>3, <2>4, <2>5
  <1> QED
    BY <1>1, ReportInvariance, PTL
=============================================================================
