------------------------- MODULE PresentationProofs -------------------------
(***************************************************************************)
(* Issue, DevicePresent and Verify together, for every issuer, template,   *)
(* wallet, request, session and order of map iteration. Lemmas say what    *)
(* Issue and DevicePresent make; an invariant carries that to the wallet   *)
(* and the network; the invariant of Verify says the rest.                 *)
(***************************************************************************)
EXTENDS Presentation, VerifierContractProofs, FiniteSetTheorems

(* What Issue makes. *)

\* The unprotected header of what an issuer signs.
ChainHeader(issuer) ==
    [x5chain |-> IF issuer.x5chain = Absent THEN <<Malformed>> ELSE issuer.x5chain]

\* A credential s that comes from this call of Issue, whatever the order it ranged in.
IssuedFrom(s, call) ==
    LET sealed == s.issuerAuth.payload
        template == call.template
    IN  /\ s \in IssuerSignedMap
        /\ sealed \in MobileSecurityObject
        /\ SignedBy(s.issuerAuth, call.issuer.key, sealed)
        /\ s.issuerAuth.unprotected = ChainHeader(call.issuer)
        /\ sealed.docType = template.docType /\ template.docType # Absent
        /\ sealed.digestAlgorithm # "SHA-1"
        /\ sealed.validityInfo = encodeValidity(template.validityInfo)
        /\ SealedKey(sealed, call.deviceKey.pt)
        /\ sealed.status = IF template.status = Absent THEN Absent
                           ELSE [statusList |-> template.status]
        /\ KeysOf(s.nameSpaces) = KeysOf(template.namespaces)
        /\ \A n \in KeysOf(s.nameSpaces) : sealed.valueDigests[n] # Absent
        /\ \A n \in KeysOf(s.nameSpaces) : \A j \in 1 .. Len(s.nameSpaces[n]) :
            LET item == s.nameSpaces[n][j]
            IN  /\ ItemSealed(item, sealed, n)
                /\ item.elementIdentifier \in Elements /\ item.elementValue \in Values
                /\ item.elementValue = template.namespaces[n][item.elementIdentifier]

\* The order of a namespace names each of its elements, and leaves the digest identifiers
\* room.
LEMMA OrderOf ==
    ASSUME NEW template \in DocumentTemplate, NEW order \in RangeOrders(template),
           NEW n \in KeysOf(template.namespaces)
    PROVE  /\ order[n] \in Seq(Elements)
           /\ {order[n][j] : j \in 1 .. Len(order[n])} = KeysOf(template.namespaces[n])
           /\ \A j \in 1 .. Len(order[n]) : j - 1 \in DigestIDs
  <1> DEFINE S == KeysOf(template.namespaces[n])
  <1>1. n \in Namespaces /\ template.namespaces[n] \in MapOf(Elements, Raw(Values))
    BY DEF DocumentTemplate, MapOf, KeysOf, Opt
  <1>2. S \subseteq Elements
    BY <1>1 DEF MapOf, KeysOf
  <1>3. IsFiniteSet(S) /\ Cardinality(S) \in Nat /\ Cardinality(S) <= Cardinality(Elements)
        /\ Cardinality(Elements) \in Nat
    BY <1>2, DigestIDsAssumption, FS_Subset, FS_CardinalityType
  <1>4. order[n] \in Orders(S)
    BY <1>1 DEF RangeOrders, KeysOf
  <1>5. order[n] \in [1 .. Cardinality(S) -> S] /\ {order[n][j] : j \in DOMAIN order[n]} = S
    BY <1>4 DEF Orders
  <1>6. Len(order[n]) = Cardinality(S) /\ order[n] \in Seq(S) /\ DOMAIN order[n] = 1 .. Len(order[n])
    BY <1>3, <1>5
  <1>7. order[n] \in Seq(Elements)
    BY <1>2, <1>6
  <1>8. \A j \in 1 .. Len(order[n]) : j - 1 \in 0 .. Cardinality(Elements) - 1
    BY <1>3, <1>6
  <1> QED
    BY <1>5, <1>6, <1>7, <1>8, DigestIDsAssumption

\* The j-th item of a namespace, its digest and its value.
LEMMA ItemOf ==
    ASSUME NEW template \in DocumentTemplate, NEW order \in RangeOrders(template),
           NEW salts \in [Namespaces -> [Elements -> Wires]],
           NEW n \in KeysOf(template.namespaces), NEW j \in 1 .. Len(order[n]),
           \A e \in Elements : template.namespaces[n][e] # Malformed,
           NEW item, item = issueItem(template, order, salts, n, j)
    PROVE  /\ item \in IssuerSignedItem
           /\ item.elementIdentifier \in Elements /\ item.elementValue \in Values
           /\ item.elementValue = template.namespaces[n][item.elementIdentifier]
           /\ issuedDigests(template, order, salts)[n][item.digestID]
                = Hash(digestAlgOf(template), item)
  <1> DEFINE e == order[n][j]
  <1>1. n \in Namespaces /\ template.namespaces[n] \in MapOf(Elements, Raw(Values))
        /\ template.namespaces[n] # Absent
    BY DEF DocumentTemplate, MapOf, KeysOf, Opt
  <1>0. /\ order[n] \in Seq(Elements)
        /\ {order[n][l] : l \in 1 .. Len(order[n])} = KeysOf(template.namespaces[n])
        /\ \A l \in 1 .. Len(order[n]) : l - 1 \in DigestIDs
    BY OrderOf
  <1>2. e \in KeysOf(template.namespaces[n]) /\ j - 1 \in DigestIDs /\ j \in Nat
    BY <1>0
  <1>3. e \in Elements /\ template.namespaces[n][e] \in Values
    BY <1>1, <1>2 DEF MapOf, KeysOf, Opt, Raw
  <1>4. item = [wire |-> salts[n][e], digestID |-> j - 1, elementIdentifier |-> e,
                elementValue |-> template.namespaces[n][e]]
    BY DEF issueItem
  <1>5. (j - 1) + 1 = j
    BY <1>2
  <1>6. issuedDigests(template, order, salts)[n][j - 1] = Hash(digestAlgOf(template), item)
    BY <1>1, <1>2, <1>5 DEF issuedDigests
  <1>7. item.digestID = j - 1 /\ item.elementIdentifier = e
        /\ item.elementValue = template.namespaces[n][e]
    BY <1>4
  <1>8. salts[n][e] \in Wires
    BY <1>1, <1>3
  <1>9. item \in IssuerSignedItem
    BY <1>2, <1>3, <1>4, <1>8 DEF IssuerSignedItem, Raw
  <1>10. issuedDigests(template, order, salts)[n][item.digestID] = Hash(digestAlgOf(template), item)
    BY <1>6, <1>7
  <1> QED
    BY <1>3, <1>7, <1>9, <1>10

\* A time as it is encoded lies less than a second back.
LEMMA EncodedTime ==
    ASSUME NEW t \in Time
    PROVE  /\ encodeTime(t) \in Time /\ encodeTime(t) <= t
           /\ t < encodeTime(t) + TicksPerSecond
  <1>1. t \in Nat /\ TicksPerSecond \in Nat /\ TicksPerSecond > 0
    BY TicksPerSecondAssumption DEF Time
  <1>2. t % TicksPerSecond \in 0 .. TicksPerSecond - 1 /\ t % TicksPerSecond <= t
    BY <1>1
  <1> QED
    BY <1>1, <1>2 DEF encodeTime, Time

\* The key a wallet is issued for is sealed, and read back.
LEMMA EncodedKey ==
    ASSUME NEW pub \in PublicKey, encodeCOSEKey(pub).err = {}
    PROVE  /\ encodeCOSEKey(pub).val \in DeviceKeyMap
           /\ encodeCOSEKey(pub).val.kty = "EC2"
           /\ encodeCOSEKey(pub).val.crv \in {1, 2, 3}
           /\ encodeCOSEKey(pub).val.pt = pub.pt /\ pub.pt \in Keys
  <1>1. pub.curve \in 0 .. 3 /\ pub.curve # 0 /\ pub.pt \in Keys
    BY DEF PublicKey, encodeCOSEKey, Err, Ok
  <1>2. encodeCOSEKey(pub).val = [kty |-> "EC2", crv |-> pub.curve, pt |-> pub.pt]
    BY <1>1 DEF encodeCOSEKey, Err, Ok
  <1> QED
    BY <1>1, <1>2 DEF DeviceKeyMap, Raw

\* The message of signCOSEWithX5Chain: the key's signature over the payload, under a
\* protected header without a chain.
LEMMA ChainedMessage ==
    ASSUME NEW issuer \in Issuer,
           NEW payload \in MobileSecurityObject,
           NEW signed, signed = signCOSEWithX5Chain(issuer, payload), signed.err = {}
    PROVE  /\ signed.val \in COSEArray(MobileSecurityObject)
           /\ signed.val.payload = payload
           /\ SignedBy(signed.val, issuer.key, payload)
           /\ signed.val.unprotected = ChainHeader(issuer)
  <1> DEFINE p == [alg |-> "ES256", x5chain |-> Absent]
             chain == IF issuer.x5chain = Absent THEN <<Malformed>> ELSE issuer.x5chain
             msg(u) == [tagged |-> TRUE, len |-> 4, protected |-> p, unprotected |-> u,
                        payload |-> payload, signature |-> Sign(issuer.key, p, payload)]
             s1 == SignCOSESign1(issuer.ok, issuer.key, payload)
  <1>1. chain \in Seq(Cert) /\ issuer.key \in Keys
    <2>1. Malformed \in Cert
      BY DEF Cert, Raw
    <2>2. <<Malformed>> \in Seq(Cert)
      BY <2>1
    <2>3. issuer.key \in Keys /\ (issuer.x5chain = Absent \/ issuer.x5chain \in Seq(Cert))
      BY DEF Issuer, Opt
    <2> QED
      BY <2>2, <2>3
  <1>2. p \in ProtectedMap /\ p \in Protected
    BY DEF Protected, ProtectedMap, X5Value, Opt, Raw
  <1>3. \A u \in UnprotectedMap : msg(u) \in COSEArray(MobileSecurityObject)
    BY <1>1, <1>2 DEF COSEArray, Unprotected, Signature, Sign, Opt, Raw
  <1>4. [x5chain |-> Absent] \in UnprotectedMap /\ [x5chain |-> chain] \in UnprotectedMap
    BY <1>1 DEF UnprotectedMap, X5Value, Opt, Raw
  <1>5. s1 = Ok(msg([x5chain |-> Absent]))
    BY DEF signCOSEWithX5Chain, SignCOSESign1, Err, Ok
  <1>6. msg([x5chain |-> Absent]) # Malformed /\ msg([x5chain |-> Absent]).len = 4
    BY <1>3, <1>4, SentinelIssued
  <1>7. coseParts(s1.val).val = [protected |-> p, unprotected |-> [x5chain |-> Absent],
            payload |-> payload, signature |-> Sign(issuer.key, p, payload)]
    BY <1>5, <1>6 DEF coseParts, Ok
  <1>8. signed.val = msg([x5chain |-> chain])
    <2> DEFINE parts == coseParts(s1.val).val
    <2>1. signed = Ok(coseAssemble([parts EXCEPT !.unprotected = [x5chain |-> chain]]))
      BY <1>5 DEF signCOSEWithX5Chain, Ok
    <2>2. [parts EXCEPT !.unprotected = [x5chain |-> chain]]
            = [protected |-> p, unprotected |-> [x5chain |-> chain],
               payload |-> payload, signature |-> Sign(issuer.key, p, payload)]
      BY <1>7
    <2>3. coseAssemble([parts EXCEPT !.unprotected = [x5chain |-> chain]]) = msg([x5chain |-> chain])
      BY ONLY <2>2 DEF coseAssemble
    <2> QED
      BY ONLY <2>1, <2>3 DEF Ok
  <1>9. signed.val # Malformed /\ p \notin {Absent, Malformed}
    BY <1>2, <1>3, <1>4, <1>8, SentinelIssued
  <1> QED
    BY <1>3, <1>4, <1>8, <1>9 DEF SignedBy, ChainHeader

\* The namespaces of a credential, and the digests its MSO seals.
LEMMA IssuedItems ==
    ASSUME NEW template \in DocumentTemplate, NEW order \in RangeOrders(template),
           NEW salts \in [Namespaces -> [Elements -> Wires]],
           digestAlgOf(template) \in DigestAlgs,
           \A n \in KeysOf(template.namespaces) :
                \A e \in Elements : template.namespaces[n][e] # Malformed,
           NEW m, m.valueDigests = issuedDigests(template, order, salts),
           m.digestAlgorithm = digestAlgOf(template)
    PROVE  LET ns == issuedNameSpaces(template, order, salts)
           IN  /\ ns \in MapOf(Namespaces, Seq(ItemBytes))
               /\ issuedDigests(template, order, salts)
                    \in MapOf(Namespaces, MapOf(DigestIDs, Digest))
               /\ KeysOf(ns) = KeysOf(template.namespaces)
               /\ \A n \in KeysOf(ns) : m.valueDigests[n] # Absent
               /\ \A n \in KeysOf(ns) : \A j \in 1 .. Len(ns[n]) :
                    /\ ItemSealed(ns[n][j], m, n)
                    /\ ns[n][j].elementIdentifier \in Elements
                    /\ ns[n][j].elementValue \in Values
                    /\ ns[n][j].elementValue
                        = template.namespaces[n][ns[n][j].elementIdentifier]
  <1> DEFINE ns == issuedNameSpaces(template, order, salts)
             digests == issuedDigests(template, order, salts)
             item(n, j) == issueItem(template, order, salts, n, j)
  <1>1. DOMAIN template.namespaces = Namespaces
    BY DEF DocumentTemplate, MapOf
  <1>2. ASSUME NEW n \in KeysOf(template.namespaces)
        PROVE  /\ n \in Namespaces /\ order[n] \in Seq(Elements)
               /\ \A j \in 1 .. Len(order[n]) :
                    /\ item(n, j) \in IssuerSignedItem
                    /\ item(n, j).elementIdentifier \in Elements
                    /\ item(n, j).elementValue \in Values
                    /\ item(n, j).elementValue
                        = template.namespaces[n][item(n, j).elementIdentifier]
                    /\ digests[n][item(n, j).digestID] = Hash(digestAlgOf(template), item(n, j))
    BY <1>1, <1>2, OrderOf, ItemOf DEF KeysOf
  <1>3. ASSUME NEW n \in KeysOf(template.namespaces)
        PROVE  /\ ns[n] = [j \in 1 .. Len(order[n]) |-> item(n, j)]
               /\ Len(ns[n]) = Len(order[n])
               /\ \A j \in 1 .. Len(ns[n]) : ns[n][j] = item(n, j)
               /\ ns[n] \in Seq(IssuerSignedItem) /\ ns[n] \in Seq(ItemBytes)
    <2>1. ns[n] = [j \in 1 .. Len(order[n]) |-> item(n, j)]
      BY <1>2, <1>3, <1>1 DEF issuedNameSpaces, KeysOf
    <2>2. Len(order[n]) \in Nat
      BY <1>2, <1>3
    <2>3. \A j \in 1 .. Len(order[n]) : item(n, j) \in IssuerSignedItem /\ item(n, j) \in ItemBytes
      BY <1>2, <1>3 DEF ItemBytes, Raw
    <2> HIDE DEF item, ns
    <2> QED
      BY <2>1, <2>2, <2>3
  <1>4. ASSUME NEW n \in KeysOf(template.namespaces)
        PROVE  /\ digests[n] \in MapOf(DigestIDs, Digest) /\ digests[n] # Absent
    <2>1. n \in Namespaces /\ template.namespaces[n] # Absent
      BY <1>1, <1>4 DEF KeysOf
    <2>2. digests[n] = [id \in DigestIDs |->
                IF id + 1 \in 1 .. Len(order[n])
                THEN Hash(digestAlgOf(template), item(n, id + 1)) ELSE Absent]
      BY <2>1 DEF issuedDigests
    <2>3. \A j \in 1 .. Len(order[n]) : Hash(digestAlgOf(template), item(n, j)) \in Digest
      BY <1>2, <1>4 DEF Hash, Digest, ItemBytes, Raw
    <2> HIDE DEF item, digests
    <2>4. digests[n] \in MapOf(DigestIDs, Digest)
      BY <2>2, <2>3 DEF MapOf, Opt
    <2> QED
      BY <2>4, SentinelIssued
  <1>5. ASSUME NEW n \in Namespaces, n \notin KeysOf(template.namespaces)
        PROVE  ns[n] = Absent /\ digests[n] = Absent
    BY <1>1, <1>5 DEF issuedNameSpaces, issuedDigests, KeysOf
  <1>6. DOMAIN ns = Namespaces /\ DOMAIN digests = Namespaces
    BY DEF issuedNameSpaces, issuedDigests
  <1>7. \A n \in KeysOf(template.namespaces) : ns[n] # Absent
    BY <1>3, SentinelIssued
  <1>8. KeysOf(ns) = KeysOf(template.namespaces)
    BY <1>1, <1>5, <1>6, <1>7 DEF KeysOf
  <1>9. ns \in MapOf(Namespaces, Seq(ItemBytes))
    <2>1. \A n \in Namespaces : ns[n] \in Opt(Seq(ItemBytes))
      BY <1>3, <1>5 DEF Opt
    <2>2. ns = [n \in Namespaces |-> ns[n]]
      BY DEF issuedNameSpaces
    <2> QED
      BY <2>1, <2>2 DEF MapOf
  <1>10. digests \in MapOf(Namespaces, MapOf(DigestIDs, Digest))
    <2>1. \A n \in Namespaces : digests[n] \in Opt(MapOf(DigestIDs, Digest))
      BY <1>4, <1>5 DEF Opt
    <2>2. digests = [n \in Namespaces |-> digests[n]]
      BY DEF issuedDigests
    <2> QED
      BY <2>1, <2>2 DEF MapOf
  <1>11. ASSUME NEW n \in KeysOf(ns), NEW j \in 1 .. Len(ns[n])
         PROVE  /\ ItemSealed(ns[n][j], m, n)
                /\ ns[n][j].elementIdentifier \in Elements
                /\ ns[n][j].elementValue \in Values
                /\ ns[n][j].elementValue = template.namespaces[n][ns[n][j].elementIdentifier]
    <2>1. n \in KeysOf(template.namespaces) /\ j \in 1 .. Len(order[n]) /\ ns[n][j] = item(n, j)
      BY <1>3, <1>8, <1>11
    <2>2. /\ item(n, j) \in IssuerSignedItem
          /\ item(n, j).elementIdentifier \in Elements /\ item(n, j).elementValue \in Values
          /\ item(n, j).elementValue = template.namespaces[n][item(n, j).elementIdentifier]
          /\ digests[n][item(n, j).digestID] = Hash(digestAlgOf(template), item(n, j))
          /\ digests[n] # Absent
      BY <1>2, <1>4, <2>1
    <2> HIDE DEF item, ns, digests
    <2>3. item(n, j) # Malformed /\ item(n, j).elementValue # Malformed
      BY <2>2, SentinelIssued, SentinelValues
    <2>4. m.valueDigests = digests
      BY DEF digests
    <2> QED
      BY <2>1, <2>2, <2>3, <2>4 DEF ItemSealed, Hash
  <1>12. \A n \in KeysOf(ns) : m.valueDigests[n] # Absent
    BY <1>4, <1>8
  <1> HIDE DEF ns, digests
  <1> QED
    BY <1>8, <1>9, <1>10, <1>11, <1>12 DEF ns, digests

\* Whatever Issue returns without an error comes from its call, and what it seals is what
\* verification will look for, in whatever order the maps were ranged over.
LEMMA IssueMakes ==
    ASSUME NEW call \in Issuances, NEW order \in RangeOrders(call.template),
           NEW salts \in [Namespaces -> [Elements -> Wires]],
           NEW issued, issued = Issue(call.issuer, call.template, call.deviceKey, order, salts),
           issued.err = {}
    PROVE  IssuedFrom(issued.val, call)
  <1> DEFINE template == call.template
             sealed == issuedMSO(template, call.deviceKey, order, salts)
             auth == signCOSEWithX5Chain(call.issuer, sealed)
  <1>1. /\ call.issuer \in Issuer
        /\ template \in DocumentTemplate /\ call.deviceKey \in PublicKey
    BY IssuancesAssumption
  <1>2. issueErr(template, call.deviceKey) = {}
    BY DEF Issue, Err
  <1>3. auth.err = {} /\ issued.val = [nameSpaces |-> issuedNameSpaces(template, order, salts),
                                       issuerAuth |-> auth.val]
    BY <1>2 DEF Issue, Ok
  <1>4. /\ template.docType # Absent
        /\ hashForMSODigestAlg(digestAlgOf(template)) = {}
        /\ encodeCOSEKey(call.deviceKey).err = {}
        /\ \A n \in KeysOf(template.namespaces) :
                \A e \in Elements : template.namespaces[n][e] # Malformed
    BY <1>2 DEF issueErr
  <1>5. digestAlgOf(template) \in DigestAlgs /\ digestAlgOf(template) # "SHA-1"
    BY <1>4 DEF hashForMSODigestAlg, DigestAlgs
  <1>6. /\ sealed.version = "1.0" /\ sealed.digestAlgorithm = digestAlgOf(template)
        /\ sealed.valueDigests = issuedDigests(template, order, salts)
        /\ sealed.deviceKey = encodeCOSEKey(call.deviceKey).val
        /\ sealed.docType = template.docType
        /\ sealed.validityInfo = encodeValidity(template.validityInfo)
        /\ sealed.status = IF template.status = Absent THEN Absent
                           ELSE [statusList |-> template.status]
    BY DEF issuedMSO
  <1>7. encodeCOSEKey(call.deviceKey).val \in DeviceKeyMap /\ SealedKey(sealed, call.deviceKey.pt)
    BY <1>1, <1>4, <1>6, EncodedKey, SentinelIssued DEF SealedKey
  <1>8. encodeValidity(template.validityInfo) \in ValidityInfo
    BY <1>1, EncodedTime DEF encodeValidity, ValidityInfo, DocumentTemplate
  <1>9. sealed.status \in StatusBytes
    BY <1>1, <1>6 DEF DocumentTemplate, StatusBytes, StatusMap, Opt, Raw
  <1>10. LET ns == issuedNameSpaces(template, order, salts)
         IN  /\ ns \in MapOf(Namespaces, Seq(ItemBytes))
             /\ issuedDigests(template, order, salts)
                  \in MapOf(Namespaces, MapOf(DigestIDs, Digest))
             /\ KeysOf(ns) = KeysOf(template.namespaces)
             /\ \A n \in KeysOf(ns) : sealed.valueDigests[n] # Absent
             /\ \A n \in KeysOf(ns) : \A j \in 1 .. Len(ns[n]) :
                  /\ ItemSealed(ns[n][j], sealed, n)
                  /\ ns[n][j].elementIdentifier \in Elements
                  /\ ns[n][j].elementValue \in Values
                  /\ ns[n][j].elementValue = template.namespaces[n][ns[n][j].elementIdentifier]
    BY <1>1, <1>4, <1>5, <1>6, IssuedItems, SMTT(30)
  <1>11. sealed \in MobileSecurityObject
    BY <1>1, <1>5, <1>7, <1>8, <1>9, <1>10
    DEF issuedMSO, MobileSecurityObject, DocumentTemplate, DeviceKeyBytes, Raw
  <1>12. /\ auth.val \in COSEArray(MobileSecurityObject) /\ auth.val.payload = sealed
         /\ SignedBy(auth.val, call.issuer.key, sealed)
         /\ auth.val.unprotected = ChainHeader(call.issuer)
    <2>1. auth = signCOSEWithX5Chain(call.issuer, sealed)
      OBVIOUS
    <2>2. call.issuer \in Issuer /\ auth.err = {}
      BY <1>1, <1>3
    <2> HIDE DEF auth, sealed, template
    <2> QED
      BY ONLY <1>11, <2>1, <2>2, ChainedMessage
  <1>13. issued.val \in IssuerSignedMap
    BY <1>3, <1>10, <1>12 DEF IssuerSignedMap, COSESign1, Raw
  <1> DEFINE ns == issuedNameSpaces(template, order, salts)
  <1>14. /\ issued.val.nameSpaces = ns /\ issued.val.issuerAuth = auth.val
         /\ issued.val.issuerAuth.payload = sealed
    BY <1>3, <1>12
  <1>15. /\ sealed.docType = template.docType /\ template.docType # Absent
         /\ sealed.digestAlgorithm # "SHA-1"
         /\ sealed.validityInfo = encodeValidity(template.validityInfo)
         /\ sealed.status = IF template.status = Absent THEN Absent
                            ELSE [statusList |-> template.status]
    BY <1>4, <1>5, <1>6
  <1>16. /\ KeysOf(ns) = KeysOf(template.namespaces)
         /\ \A n \in KeysOf(ns) : sealed.valueDigests[n] # Absent
         /\ \A n \in KeysOf(ns) : \A j \in 1 .. Len(ns[n]) :
              /\ ItemSealed(ns[n][j], sealed, n)
              /\ ns[n][j].elementIdentifier \in Elements
              /\ ns[n][j].elementValue \in Values
              /\ ns[n][j].elementValue = template.namespaces[n][ns[n][j].elementIdentifier]
    BY <1>10
  <1> HIDE DEF sealed, auth, ns
  <1> QED
    BY <1>7, <1>11, <1>12, <1>13, <1>14, <1>15, <1>16 DEF IssuedFrom

-----------------------------------------------------------------------------
(* What DevicePresent makes. *)

\* A list of items sent: the wanted elements, each once, out of the items held.
Selected(sent, held, want) ==
    /\ sent \in Seq(ItemBytes)
    /\ Len(sent) = Cardinality(want)
    /\ {sent[j].elementIdentifier : j \in 1 .. Len(sent)} = want
    /\ \A j \in 1 .. Len(sent) : \E l \in 1 .. Len(held) : sent[j] = held[l]
    /\ \A j, l \in 1 .. Len(sent) :
        sent[j].elementIdentifier = sent[l].elementIdentifier => j = l

\* Among positions there is a first.
LEMMA FirstPosition ==
    ASSUME NEW T, T \subseteq Nat, T # {}
    PROVE  \E x \in T : \A y \in T : x <= y
  <1> DEFINE R == OpToRel(<, Nat)
  <1>1. IsWellFoundedOn(R, Nat)
    BY NatLessThanWellFounded
  <1>2. \A a, b \in Nat : a < b => <<a, b>> \in R
    BY DEF OpToRel
  <1> HIDE DEF R
  <1>3. PICK x \in T : \A y \in T : ~ (<<y, x>> \in R)
    BY <1>1, WFMin
  <1>4. ASSUME NEW y \in T PROVE x <= y
    <2>1. x \in Nat /\ y \in Nat /\ ~(y < x)
      BY <1>2, <1>3
    <2> QED
      BY <2>1
  <1> QED
    BY <1>4

\* The items selectDisclosed keeps of a namespace that has every wanted element.
LEMMA KeptItems ==
    ASSUME NEW held \in Seq(ItemBytes), NEW want \in SUBSET Elements,
           \A e \in want : \E j \in 1 .. Len(held) : held[j].elementIdentifier = e,
           NEW sent \in keptItems(held, want)
    PROVE  Selected(sent, held, want)
  <1> DEFINE id(j) == held[j].elementIdentifier
             kept == {j \in 1 .. Len(held) : id(j) \in want /\ \A l \in 1 .. j - 1 : id(l) # id(j)}
  <1>1. sent \in ItemsAt(held, kept)
    BY DEF keptItems
  <1>2. PICK o \in Orders(kept) : /\ \A p, q \in DOMAIN o : p < q => o[p] < o[q]
                                  /\ sent = [p \in DOMAIN o |-> held[o[p]]]
    BY <1>1 DEF ItemsAt
  <1>3. Len(held) \in Nat /\ kept \subseteq 1 .. Len(held) /\ IsFiniteSet(kept)
        /\ Cardinality(kept) \in Nat
    <2>1. Len(held) \in Nat /\ kept \subseteq 1 .. Len(held)
      OBVIOUS
    <2>2. IsFiniteSet(1 .. Len(held))
      BY <2>1, FS_Interval
    <2> HIDE DEF kept
    <2> QED
      BY <2>1, <2>2, FS_Subset, FS_CardinalityType
  <1>4. o \in [1 .. Cardinality(kept) -> kept] /\ {o[p] : p \in DOMAIN o} = kept
    BY <1>2 DEF Orders
  <1>5. DOMAIN o = 1 .. Cardinality(kept) /\ \A p \in DOMAIN o : o[p] \in kept
    BY <1>4
  <1>6. Len(sent) = Cardinality(kept) /\ DOMAIN sent = 1 .. Cardinality(kept)
        /\ \A p \in 1 .. Len(sent) : sent[p] = held[o[p]] /\ o[p] \in kept
    BY <1>2, <1>3, <1>5
  <1>7. sent \in Seq(ItemBytes)
    <2>1. \A p \in DOMAIN o : held[o[p]] \in ItemBytes
      BY <1>3, <1>5
    <2>2. sent = [p \in 1 .. Cardinality(kept) |-> held[o[p]]] /\ Cardinality(kept) \in Nat
      BY <1>2, <1>3, <1>5
    <2> HIDE DEF kept
    <2> QED
      BY <1>5, <2>1, <2>2
  <1>8. ASSUME NEW e \in want
        PROVE  \E j \in kept : id(j) = e
    <2> DEFINE T == {j \in 1 .. Len(held) : id(j) = e}
    <2>1. T \subseteq Nat /\ T # {}
      BY <1>8
    <2>2. PICK x \in T : \A y \in T : x <= y
      <3> HIDE DEF T
      <3> QED
        BY <2>1, FirstPosition
    <2>3. x \in 1 .. Len(held) /\ id(x) = e
      BY <2>2
    <2>4. \A l \in 1 .. x - 1 : id(l) # e
      BY <1>3, <2>2, <2>3
    <2> QED
      BY <1>8, <2>3, <2>4
  <1>9. \A j, l \in kept : id(j) = id(l) => j = l
    <2> SUFFICES ASSUME NEW j \in kept, NEW l \in kept, id(j) = id(l), j # l
                 PROVE  FALSE
      OBVIOUS
    <2>1. j \in Nat /\ l \in Nat /\ j >= 1 /\ l >= 1
      BY <1>3
    <2>2. CASE j < l
      BY <2>1, <2>2
    <2>3. CASE l < j
      BY <2>1, <2>3
    <2> QED
      BY <2>1, <2>2, <2>3
  <1>10. \A j \in kept : id(j) \in want /\ j \in 1 .. Len(held)
    OBVIOUS
  <1>11. \A p, q \in DOMAIN o : o[p] = o[q] => p = q
    <2> SUFFICES ASSUME NEW p \in DOMAIN o, NEW q \in DOMAIN o, o[p] = o[q], p # q
                 PROVE  FALSE
      OBVIOUS
    <2>1. p \in Nat /\ q \in Nat /\ o[p] \in Nat /\ o[q] \in Nat
      BY <1>3, <1>5
    <2>2. ~(p < q) /\ ~(q < p)
      BY <1>2, <2>1
    <2> QED
      BY <2>1, <2>2
  <1>12. Cardinality(kept) = Cardinality(want)
    <2> DEFINE f == [j \in kept |-> id(j)]
    <2>1. f \in [kept -> want]
      BY <1>10
    <2>2. f \in Bijection(kept, want)
      <3>1. \A a, b \in kept : f[a] = f[b] => a = b
        BY <1>9
      <3>2. \A e \in want : \E j \in kept : f[j] = e
        BY <1>8
      <3> HIDE DEF f, kept
      <3> QED
        BY <2>1, <3>1, <3>2 DEF Bijection, Injection, Surjection, IsInjective
    <2> HIDE DEF f, kept
    <2> QED
      BY <1>3, <2>2, FS_Bijection DEF ExistsBijection
  <1> HIDE DEF kept
  <1>13. {sent[j].elementIdentifier : j \in 1 .. Len(sent)} = want
    <2>1. \A j \in 1 .. Len(sent) : sent[j].elementIdentifier \in want
      BY <1>6, <1>10
    <2>2. ASSUME NEW e \in want PROVE \E j \in 1 .. Len(sent) : sent[j].elementIdentifier = e
      <3>1. PICK x \in kept : id(x) = e
        BY <1>8, <2>2
      <3>2. PICK p \in DOMAIN o : o[p] = x
        BY <1>4
      <3> QED
        BY <1>5, <1>6, <3>1, <3>2
    <2> QED
      BY <2>1, <2>2
  <1>14. \A j \in 1 .. Len(sent) : \E l \in 1 .. Len(held) : sent[j] = held[l]
    BY <1>6, <1>10
  <1>15. \A j, l \in 1 .. Len(sent) :
            sent[j].elementIdentifier = sent[l].elementIdentifier => j = l
    BY <1>5, <1>6, <1>9, <1>11
  <1> QED
    BY <1>6, <1>7, <1>12, <1>13, <1>14, <1>15 DEF Selected

\* A response r that comes from this call of DevicePresent.
PresentedFrom(r, s, device, disclose, st) ==
    LET d == r.documents[1]
    IN  /\ r \in DeviceResponse
        /\ r.version = "1.0" /\ ~r.documentErrors /\ r.status = 0 /\ Len(r.documents) = 1
        /\ d \in Document
        /\ s \in IssuerSignedMap /\ s.issuerAuth.payload \in MobileSecurityObject
        /\ d.issuerAuth = s.issuerAuth /\ d.docType = s.issuerAuth.payload.docType
        /\ BoundToSession(d, device.key, st)
        /\ \A n \in Namespaces : disclose[n] = Absent => d.nameSpaces[n] = Absent
        /\ \A n \in KeysOf(disclose) :
            /\ n \in KeysOf(d.nameSpaces) /\ n \in KeysOf(s.nameSpaces)
            /\ Selected(d.nameSpaces[n], s.nameSpaces[n], disclose[n])

\* The signature of the device: detached, and over this session, docType and the empty
\* device namespaces.
LEMMA DeviceMessage ==
    ASSUME NEW device \in Devices, NEW t \in Opt(DocTypes), NEW st \in Transcripts,
           NEW signed, signed = deviceSignature(device, t, st), signed.err = {}
    PROVE  /\ signed.val \in COSEArray(DeviceAuthentications)
           /\ SignedBy(signed.val, device.key, DeviceAuthentication(st, t, EmptyDeviceNameSpaces))
  <1> DEFINE p == [alg |-> "ES256", x5chain |-> Absent]
             u == [x5chain |-> Absent]
             covered == DeviceAuthentication(st, t, EmptyDeviceNameSpaces)
             msg(pl) == [tagged |-> TRUE, len |-> 4, protected |-> p, unprotected |-> u,
                         payload |-> pl, signature |-> Sign(device.key, p, covered)]
             s1 == SignCOSESign1(device.ok, device.key, covered)
  <1>1. device.key \in Keys
    BY HoldersAssumption
  <1>2. p \in ProtectedMap /\ p \in Protected /\ u \in Unprotected
    BY DEF Protected, ProtectedMap, Unprotected, UnprotectedMap, X5Value, Opt, Raw
  <1>3. covered \in DeviceAuthentications
    BY EmptyDeviceNameSpacesAssumption DEF DeviceAuthentications, Opt
  <1>4. \A pl \in {covered, Absent} : msg(pl) \in COSEArray(DeviceAuthentications)
    <2> HIDE DEF covered, p, u
    <2> QED
      BY <1>1, <1>2, <1>3 DEF COSEArray, Signature, Sign, Opt, Raw
  <1>5. s1 = Ok(msg(covered))
    BY DEF deviceSignature, SignCOSESign1, Err, Ok
  <1>6. msg(covered) # Malformed /\ msg(covered).len = 4
    BY <1>4, SentinelIssued
  <1> DEFINE parts == coseParts(s1.val)
  <1>7. parts.err = {} /\ parts.val = [protected |-> p, unprotected |-> u, payload |-> covered,
                                       signature |-> Sign(device.key, p, covered)]
    BY <1>5, <1>6 DEF coseParts, Ok
  <1>8. signed.val = msg(Absent)
    <2>1. s1.err = {} /\ signed = detachCOSEPayload(s1.val)
      BY <1>5 DEF deviceSignature, Ok
    <2>2. signed = Ok(coseAssemble([parts.val EXCEPT !.payload = Absent]))
      BY <1>7, <2>1 DEF detachCOSEPayload
    <2>3. [parts.val EXCEPT !.payload = Absent]
            = [protected |-> p, unprotected |-> u, payload |-> Absent,
               signature |-> Sign(device.key, p, covered)]
      BY <1>7
    <2>4. coseAssemble([parts.val EXCEPT !.payload = Absent]) = msg(Absent)
      BY ONLY <2>3 DEF coseAssemble
    <2> QED
      BY ONLY <2>2, <2>4 DEF Ok
  <1>9. signed.val # Malformed /\ p \notin {Absent, Malformed}
    BY <1>2, <1>4, <1>8, SentinelIssued
  <1> QED
    BY <1>4, <1>8, <1>9 DEF SignedBy

\* What selectDisclosed keeps when no namespace has a fault.
LEMMA DisclosedItems ==
    ASSUME NEW held \in MapOf(Namespaces, Seq(ItemBytes)), NEW disclose \in Disclosures,
           NEW d \in selectDisclosed(held, disclose), d.err = {}
    PROVE  /\ d.val \in MapOf(Namespaces, Seq(ItemBytes))
           /\ \A n \in Namespaces : disclose[n] = Absent => d.val[n] = Absent
           /\ \A n \in KeysOf(disclose) :
                /\ n \in KeysOf(d.val) /\ n \in KeysOf(held)
                /\ Selected(d.val[n], held[n], disclose[n])
  <1> DEFINE Lists(n) == IF disclose[n] = Absent THEN {Absent}
                         ELSE keptItems(held[n], disclose[n])
  <1>1. disclose \in MapOf(Namespaces, SUBSET Elements)
    BY HoldersAssumption
  <1>2. \A n \in KeysOf(disclose) : disclosureErr(held, disclose, n) = {}
    BY DEF selectDisclosed, Err
  <1>3. /\ d.val \in [Namespaces -> UNION {Lists(n) : n \in Namespaces}]
        /\ \A n \in Namespaces : d.val[n] \in Lists(n)
    BY <1>2 DEF selectDisclosed, Ok
  <1>4. ASSUME NEW n \in KeysOf(disclose)
        PROVE  /\ n \in Namespaces /\ n \in KeysOf(held)
               /\ Selected(d.val[n], held[n], disclose[n])
    <2>1. n \in Namespaces /\ disclose[n] \in SUBSET Elements /\ disclose[n] # Absent
      BY <1>1, <1>4 DEF MapOf, KeysOf, Opt
    <2>2. /\ held[n] # Absent
          /\ \A e \in disclose[n] : \E j \in 1 .. Len(held[n]) : held[n][j].elementIdentifier = e
      BY <1>2, <1>4, SMTT(30) DEF disclosureErr
    <2>3. held[n] \in Seq(ItemBytes) /\ n \in KeysOf(held)
      BY <2>1, <2>2 DEF MapOf, KeysOf, Opt
    <2>4. d.val[n] \in keptItems(held[n], disclose[n])
      BY <1>3, <2>1
    <2> QED
      BY <2>1, <2>2, <2>3, <2>4, KeptItems
  <1>5. \A n \in KeysOf(disclose) : d.val[n] \in Seq(ItemBytes) /\ d.val[n] # Absent
    BY <1>4, SentinelIssued DEF Selected
  <1>6. \A n \in Namespaces : disclose[n] = Absent => d.val[n] = Absent
    BY <1>3
  <1>7. \A n \in Namespaces : n \in KeysOf(disclose) \/ disclose[n] = Absent
    BY <1>1 DEF MapOf, KeysOf
  <1>8. DOMAIN d.val = Namespaces /\ d.val = [n \in Namespaces |-> d.val[n]]
    BY <1>3
  <1> HIDE DEF Lists
  <1>9. d.val \in MapOf(Namespaces, Seq(ItemBytes))
    <2>1. \A n \in Namespaces : d.val[n] \in Opt(Seq(ItemBytes))
      BY <1>5, <1>6, <1>7 DEF Opt
    <2> QED
      BY <1>8, <2>1 DEF MapOf
  <1>10. \A n \in KeysOf(disclose) : n \in KeysOf(d.val)
    BY <1>4, <1>5, <1>8 DEF KeysOf
  <1> QED
    BY <1>4, <1>6, <1>9, <1>10

\* Whatever DevicePresent returns without an error is one well-formed document for this
\* session, and holds the requested elements and nothing else.
LEMMA PresentMakes ==
    ASSUME NEW device \in Devices, NEW s \in IssuerSigned, NEW disclose \in Disclosures,
           NEW st \in Transcripts, NEW p \in DevicePresent(device, s, disclose, st), p.err = {}
    PROVE  PresentedFrom(p.val, s, device, disclose, st)
  <1> DEFINE docType == docTypeFromIssuerAuth(s.issuerAuth)
             signature == deviceSignature(device, docType.val, st)
  <1>1. s # Malformed /\ docType.err = {}
    BY DEF DevicePresent, Err
  <1>2. s \in IssuerSignedMap
    BY <1>1 DEF IssuerSigned, Raw
  <1>3. /\ s.nameSpaces \in MapOf(Namespaces, Seq(ItemBytes))
        /\ s.issuerAuth \in COSESign1(MobileSecurityObject)
    BY <1>2 DEF IssuerSignedMap
  <1>4. /\ coseParts(s.issuerAuth).err = {} /\ s.issuerAuth.payload \notin {Absent, Malformed}
        /\ docType.val = s.issuerAuth.payload.docType
    BY <1>1 DEF docTypeFromIssuerAuth, Err, Ok
  <1>5. s.issuerAuth.payload \in MobileSecurityObject
    <2>1. s.issuerAuth # Malformed
      BY <1>4, PartsOf
    <2> QED
      BY <1>3, <1>4, <2>1 DEF COSESign1, COSEArray, Raw, Opt
  <1>6. docType.val \in Opt(DocTypes)
    BY <1>4, <1>5 DEF MobileSecurityObject
  <1>7. PICK disclosed \in selectDisclosed(s.nameSpaces, disclose) :
            p = IF disclosed.err # {} THEN disclosed
                ELSE IF signature.err # {} THEN signature
                ELSE Ok([version |-> "1.0", documentErrors |-> FALSE, status |-> 0,
                         documents |-> << [docType |-> docType.val,
                            nameSpaces |-> disclosed.val,
                            issuerAuth |-> s.issuerAuth,
                            deviceNameSpaces |-> EmptyDeviceNameSpaces,
                            deviceSignature |-> signature.val,
                            deviceMac |-> FALSE] >>])
    BY <1>1 DEF DevicePresent
  <1> DEFINE d == [docType |-> docType.val, nameSpaces |-> disclosed.val,
                   issuerAuth |-> s.issuerAuth, deviceNameSpaces |-> EmptyDeviceNameSpaces,
                   deviceSignature |-> signature.val, deviceMac |-> FALSE]
             r == [version |-> "1.0", documentErrors |-> FALSE, status |-> 0, documents |-> <<d>>]
  <1>8. disclosed.err = {} /\ signature.err = {} /\ p.val = r
    BY <1>7 DEF Ok
  <1>9. /\ disclosed.val \in MapOf(Namespaces, Seq(ItemBytes))
        /\ \A n \in Namespaces : disclose[n] = Absent => disclosed.val[n] = Absent
        /\ \A n \in KeysOf(disclose) :
            /\ n \in KeysOf(disclosed.val) /\ n \in KeysOf(s.nameSpaces)
            /\ Selected(disclosed.val[n], s.nameSpaces[n], disclose[n])
    BY <1>3, <1>8, DisclosedItems
  <1>10. /\ signature.val \in COSEArray(DeviceAuthentications)
         /\ SignedBy(signature.val, device.key,
                     DeviceAuthentication(st, docType.val, EmptyDeviceNameSpaces))
    <2>1. signature = deviceSignature(device, docType.val, st)
      OBVIOUS
    <2> HIDE DEF signature, docType
    <2> QED
      BY ONLY <1>6, <1>8, <2>1, DeviceMessage
  <1> HIDE DEF signature, docType
  <1>11. d \in Document
    BY <1>3, <1>6, <1>9, <1>10, EmptyDeviceNameSpacesAssumption
    DEF Document, COSESign1, Opt, Raw
  <1>12. /\ d.docType = docType.val /\ d.nameSpaces = disclosed.val /\ d.issuerAuth = s.issuerAuth
         /\ d.deviceNameSpaces = EmptyDeviceNameSpaces /\ d.deviceSignature = signature.val
         /\ d.deviceMac = FALSE
    OBVIOUS
  <1>13. BoundToSession(d, device.key, st)
    <2>1. st # Absent /\ signature.val # Absent
      BY <1>10, SentinelValues, SentinelIssued
    <2> HIDE DEF d
    <2> QED
      BY <1>10, <1>12, <2>1 DEF BoundToSession
  <1>14. /\ r.documents = <<d>> /\ r.version = "1.0" /\ r.documentErrors = FALSE /\ r.status = 0
    OBVIOUS
  <1> HIDE DEF d
  <1>15. r \in DeviceResponse
    BY <1>11 DEF DeviceResponse, Opt
  <1> HIDE DEF r
  <1>16. r.documents[1] = d /\ Len(r.documents) = 1
    BY <1>14
  <1> QED
    BY <1>2, <1>4, <1>5, <1>8, <1>9, <1>11, <1>12, <1>13, <1>14, <1>15, <1>16 DEF PresentedFrom

-----------------------------------------------------------------------------
(* The invariant of the exchange: what Verify has established of the call under  *)
(* way, where every credential and response comes from, that the call is about a *)
(* response of the network, and whom the trust layer vouched for.                *)

Holdings ==
    /\ \A c \in wallet :
        /\ c \in Credential
        /\ c.from # Absent => c.from \in Issuances /\ IssuedFrom(c.issuerSigned, c.from)
    /\ \A m \in net :
        /\ m.credential \in wallet /\ m.device \in Devices /\ m.disclose \in Disclosures
        /\ PresentedFrom(m.response, m.credential.issuerSigned, m.device, m.disclose, m.session)

Delivered == pc # "idle" => in.IssuerTrust /\ Sent # {}

Vouched ==
    \A j \in 1 .. Len(asked) : asked[j].answer.val # Absent =>
        LET leaf == asked[j].question.x5chain[1]
        IN  /\ asked[j].answer.err = {} /\ asked[j].answer.val = leaf.subject
            /\ leaf.subject \in TrustedKeys

XInv == IInv /\ Holdings /\ Delivered /\ Vouched

LEMMA InitXInv == ExchangeInit => XInv
  <1> SUFFICES ASSUME ExchangeInit PROVE XInv
    OBVIOUS
  <1>1. IInv
    BY InitIInv DEF ExchangeInit
  <1>2. wallet = {} /\ net = {} /\ pc = "idle" /\ asked = <<>>
    BY DEF ExchangeInit, Init
  <1> QED
    BY <1>1, <1>2 DEF XInv, Holdings, Delivered, Vouched

LEMMA StepIssueCredential == XInv /\ IssueCredential => XInv'
  <1> SUFFICES ASSUME XInv, IssueCredential PROVE XInv'
    OBVIOUS
  <1>1. UNCHANGED vars /\ UNCHANGED net
    BY DEF IssueCredential
  <1>2. IInv'
    BY <1>1, StepTick DEF XInv
  <1>3. Delivered' /\ Vouched'
    BY <1>1 DEF XInv, Delivered, Sent, Vouched, vars
  <1>0. PICK call \in Issuances :
            \E order \in RangeOrders(call.template), salts \in [Namespaces -> [Elements -> Wires]] :
                LET issued == Issue(call.issuer, call.template, call.deviceKey, order, salts)
                IN  wallet' = IF issued.err # {} THEN wallet
                              ELSE wallet \cup {[issuerSigned |-> issued.val, from |-> call]}
    BY DEF IssueCredential
  <1>4. PICK order \in RangeOrders(call.template), salts \in [Namespaces -> [Elements -> Wires]] :
            LET issued == Issue(call.issuer, call.template, call.deviceKey, order, salts)
            IN  wallet' = IF issued.err # {} THEN wallet
                          ELSE wallet \cup {[issuerSigned |-> issued.val, from |-> call]}
    BY <1>0
  <1> DEFINE issued == Issue(call.issuer, call.template, call.deviceKey, order, salts)
             c == [issuerSigned |-> issued.val, from |-> call]
  <1>5. CASE issued.err # {}
    BY <1>1, <1>2, <1>3, <1>4, <1>5 DEF XInv, Holdings
  <1>6. CASE issued.err = {}
    <2>1. wallet' = wallet \cup {c} /\ net' = net
      BY <1>1, <1>4, <1>6
    <2>2. IssuedFrom(issued.val, call)
      <3>1. issued = Issue(call.issuer, call.template, call.deviceKey, order, salts)
        OBVIOUS
      <3> HIDE DEF issued
      <3> QED
        BY <1>6, <3>1, IssueMakes
    <2> HIDE DEF issued
    <2>3. c \in Credential /\ c.from = call /\ c.issuerSigned = issued.val
      BY <2>2 DEF Credential, IssuedFrom, IssuerSigned, Raw, Opt
    <2> HIDE DEF c
    <2> QED
      BY <1>2, <1>3, <2>1, <2>2, <2>3 DEF XInv, Holdings
  <1> QED
    BY <1>5, <1>6

LEMMA StepReceiveCredential == XInv /\ ReceiveCredential => XInv'
  <1> SUFFICES ASSUME XInv, ReceiveCredential PROVE XInv'
    OBVIOUS
  <1>1. UNCHANGED vars /\ UNCHANGED net
    BY DEF ReceiveCredential
  <1>2. IInv'
    BY <1>1, StepTick DEF XInv
  <1>3. Delivered' /\ Vouched'
    BY <1>1 DEF XInv, Delivered, Sent, Vouched, vars
  <1>4. PICK s \in Foreign : wallet' = wallet \cup {[issuerSigned |-> s, from |-> Absent]}
    BY DEF ReceiveCredential
  <1>5. [issuerSigned |-> s, from |-> Absent] \in Credential
    BY HoldersAssumption DEF Credential, Opt
  <1> QED
    BY <1>1, <1>2, <1>3, <1>4, <1>5 DEF XInv, Holdings

LEMMA StepPresentCredential == XInv /\ PresentCredential => XInv'
  <1> SUFFICES ASSUME XInv, PresentCredential PROVE XInv'
    OBVIOUS
  <1>1. UNCHANGED vars /\ UNCHANGED wallet
    BY DEF PresentCredential
  <1>2. IInv'
    BY <1>1, StepTick DEF XInv
  <1>3. Vouched'
    BY <1>1 DEF XInv, Vouched, vars
  <1>4. PICK credential \in wallet, device \in Devices, disclose \in Disclosures,
             st \in Transcripts :
        \E presented \in DevicePresent(device, credential.issuerSigned, disclose, st) :
            net' = IF presented.err # {} THEN net
                   ELSE net \cup {[response |-> presented.val, credential |-> credential,
                                   device |-> device, disclose |-> disclose, session |-> st]}
    BY DEF PresentCredential
  <1>5. PICK presented \in DevicePresent(device, credential.issuerSigned, disclose, st) :
            net' = IF presented.err # {} THEN net
                   ELSE net \cup {[response |-> presented.val, credential |-> credential,
                                   device |-> device, disclose |-> disclose, session |-> st]}
    BY <1>4
  <1> DEFINE m == [response |-> presented.val, credential |-> credential,
                   device |-> device, disclose |-> disclose, session |-> st]
  <1>6. net \subseteq net'
    BY <1>5
  <1>7. Delivered'
    BY <1>1, <1>6 DEF XInv, Delivered, Sent, vars
  <1>8. CASE presented.err # {}
    BY <1>1, <1>2, <1>3, <1>5, <1>7, <1>8 DEF XInv, Holdings
  <1>9. CASE presented.err = {}
    <2>1. credential.issuerSigned \in IssuerSigned
      BY DEF XInv, Holdings, Credential
    <2>2. PresentedFrom(presented.val, credential.issuerSigned, device, disclose, st)
      BY <1>9, <2>1, PresentMakes
    <2>3. net' = net \cup {m} /\ wallet' = wallet
      BY <1>1, <1>5, <1>9
    <2>4. /\ m.response = presented.val /\ m.credential = credential /\ m.device = device
          /\ m.disclose = disclose /\ m.session = st
      OBVIOUS
    <2> HIDE DEF m
    <2> QED
      BY <1>2, <1>3, <1>7, <2>2, <2>3, <2>4 DEF XInv, Holdings
  <1> QED
    BY <1>8, <1>9

LEMMA StepDeliver == XInv /\ Deliver => XInv'
  <1> SUFFICES ASSUME XInv, Deliver PROVE XInv'
    OBVIOUS
  <1>1. UNCHANGED <<wallet, net>>
    BY DEF Deliver
  <1>2. PICK m \in net, st \in Transcripts, t \in Expected :
            Call([DeviceResponse |-> m.response, SessionTranscript |-> st,
                  IssuerTrust |-> TRUE, ExpectedDocType |-> t])
    BY DEF Deliver
  <1> DEFINE input == [DeviceResponse |-> m.response, SessionTranscript |-> st,
                       IssuerTrust |-> TRUE, ExpectedDocType |-> t]
  <1>3. m.response \in DeviceResponse
    BY DEF XInv, Holdings, PresentedFrom
  <1>4. input \in VerifyInput
    BY <1>3, HoldersAssumption DEF VerifyInput, Opt, Raw
  <1>5. IInv'
    <2>1. Call(input)
      BY <1>2
    <2> HIDE DEF input
    <2> QED
      BY <1>4, <2>1, StepCall DEF XInv
  <1>6. in' = input /\ asked' = asked
    BY <1>2 DEF Call
  <1>7. m \in Sent' /\ in'.IssuerTrust
    BY <1>1, <1>6 DEF Sent
  <1>8. Delivered' /\ Vouched' /\ Holdings'
    BY <1>1, <1>6, <1>7 DEF XInv, Delivered, Vouched, Holdings
  <1> QED
    BY <1>5, <1>8 DEF XInv

LEMMA StepResolve == XInv /\ Resolve => XInv'
  <1> SUFFICES ASSUME XInv, Resolve PROVE XInv'
    OBVIOUS
  <1>1. UNCHANGED <<wallet, net>> /\ ResolveIssuerKey
    BY DEF Resolve
  <1>2. IInv'
    BY <1>1, StepResolveIssuerKey DEF XInv
  <1>3. pc = "trust" /\ in' = in
    BY <1>1 DEF ResolveIssuerKey
  <1>4. Delivered' /\ Holdings'
    BY <1>1, <1>3 DEF XInv, Delivered, Sent, Holdings
  <1>5. PICK a \in Answers :
            /\ answer' = a
            /\ asked' = Append(asked, [question |-> issuerClaim(doc.issuerAuth).val, answer |-> a])
    BY <1>1 DEF ResolveIssuerKey
  <1>6. asked \in Seq([question: Question, answer: Answer])
    BY DEF XInv, IInv, TypeOK
  <1>7. /\ Len(asked') = Len(asked) + 1 /\ asked'[Len(asked) + 1].answer = a /\ Len(asked) \in Nat
        /\ \A j \in 1 .. Len(asked) : asked'[j] = asked[j]
    BY <1>5, <1>6
  <1>8. a.err # {} => a.val = Absent
    BY DEF Answers, Ok, Err
  <1>9. a.err = {} /\ a.val # Absent =>
            LET leaf == asked'[Len(asked) + 1].question.x5chain[1]
            IN  a.val = leaf.subject /\ leaf.subject \in TrustedKeys
    BY <1>5, <1>7 DEF Resolve
  <1>10. Vouched'
    <2> SUFFICES ASSUME NEW j \in 1 .. Len(asked'), asked'[j].answer.val # Absent
                 PROVE  LET leaf == asked'[j].question.x5chain[1]
                        IN  /\ asked'[j].answer.err = {} /\ asked'[j].answer.val = leaf.subject
                            /\ leaf.subject \in TrustedKeys
      BY DEF Vouched
    <2>1. CASE j = Len(asked) + 1
      BY <1>7, <1>8, <1>9, <2>1
    <2>2. CASE j \in 1 .. Len(asked)
      BY <1>7, <2>2 DEF XInv, Vouched
    <2> QED
      BY <1>7, <2>1, <2>2
  <1> QED
    BY <1>2, <1>4, <1>10 DEF XInv

\* The verifier's own steps ask nothing and change no input; a call that returns leaves
\* nothing behind.
LEMMA StepVerifying == XInv /\ Verifying => XInv'
  <1> SUFFICES ASSUME XInv, Verifying PROVE XInv'
    OBVIOUS
  <1>1. UNCHANGED <<wallet, net>> /\ (Step \/ Return \/ Tick)
    BY DEF Verifying
  <1>2. IInv'
    BY <1>1, StepVerify, StepNextDocument, StepVerifyIssuerAuth, StepRangeNamespace,
       StepRangeItem, StepEndNamespace, StepDeviceAuth, StepAppendVerified, StepEndDocuments,
       StepReturn, StepTick
    DEF XInv, Step
  <1>3. Holdings'
    BY <1>1 DEF XInv, Holdings
  <1>4. CASE Return
    BY <1>2, <1>3, <1>4 DEF XInv, Return, Delivered, Vouched
  <1>5. CASE Step \/ Tick
    <2>1. in' = in /\ asked' = asked
      BY <1>5 DEF Step, Tick, Fail, Verify, NextDocument, verifyIssuerAuth, RangeNamespace,
         RangeItem, EndNamespace, DeviceAuth, AppendVerified, EndDocuments
    <2>2. pc = "idle" => pc' = "idle"
      BY <1>5 DEF Step, Tick, Verify, NextDocument, verifyIssuerAuth, RangeNamespace,
         RangeItem, EndNamespace, DeviceAuth, AppendVerified, EndDocuments
    <2> QED
      BY <1>1, <1>2, <1>3, <2>1, <2>2 DEF XInv, Delivered, Sent, Vouched
  <1> QED
    BY <1>1, <1>4, <1>5

\* The invariant of the composition.
THEOREM ExchangeInvariance == ExchangeSpec => []XInv
  <1>1. XInv /\ [ExchangeNext]_exchangeVars => XInv'
    <2> SUFFICES ASSUME XInv, [ExchangeNext]_exchangeVars PROVE XInv'
      OBVIOUS
    <2>1. CASE UNCHANGED exchangeVars
      <3>1. UNCHANGED vars /\ UNCHANGED <<wallet, net>>
        BY <2>1 DEF exchangeVars
      <3>2. IInv'
        BY <3>1, StepTick DEF XInv
      <3> QED
        BY <3>1, <3>2 DEF XInv, Holdings, Delivered, Sent, Vouched, vars
    <2> QED
      BY <2>1, StepIssueCredential, StepReceiveCredential, StepPresentCredential, StepDeliver,
         StepResolve, StepVerifying DEF ExchangeNext
  <1> QED
    BY InitXInv, <1>1, PTL DEF ExchangeSpec

-----------------------------------------------------------------------------
(* What the invariant says of holdings and of an accepted response. *)

\* Of credentials and responses: their types, and that what Issue made decodes.
THEOREM WellTyped == ExchangeSpec => []HoldingsOK
  <1>1. ASSUME XInv PROVE HoldingsOK
    <2>1. \A c \in wallet : c.from # Absent =>
            /\ c.issuerSigned # Malformed
            /\ \A n \in KeysOf(c.issuerSigned.nameSpaces) :
                \A j \in 1 .. Len(c.issuerSigned.nameSpaces[n]) :
                    c.issuerSigned.nameSpaces[n][j].elementValue \in Values
      BY <1>1, SentinelIssued DEF XInv, Holdings, IssuedFrom
    <2>2. wallet \subseteq Credential
      BY <1>1 DEF XInv, Holdings
    <2>3. \A m \in net : m.response \in DeviceResponse /\ m.credential \in wallet
      BY <1>1 DEF XInv, Holdings, PresentedFrom
    <2> QED
      BY <2>1, <2>2, <2>3 DEF HoldingsOK
  <1> QED
    BY ExchangeInvariance, <1>1, PTL

\* No response holds an element that was not asked for, or one twice, whatever the
\* issuer put into the credential.
THEOREM DisclosureIsMinimal == ExchangeSpec => []MinimalDisclosure
  <1>1. ASSUME XInv PROVE MinimalDisclosure
    <2> SUFFICES ASSUME NEW m \in net, NEW n \in Namespaces
                 PROVE  LET sent == m.response.documents[1].nameSpaces[n]
                        IN  IF m.disclose[n] = Absent THEN sent = Absent
                            ELSE /\ {sent[j].elementIdentifier : j \in 1 .. Len(sent)} = m.disclose[n]
                                 /\ Len(sent) = Cardinality(m.disclose[n])
      BY DEF MinimalDisclosure
    <2>1. /\ m.disclose \in Disclosures
          /\ PresentedFrom(m.response, m.credential.issuerSigned, m.device, m.disclose, m.session)
      BY <1>1 DEF XInv, Holdings
    <2>2. CASE m.disclose[n] = Absent
      BY <2>1, <2>2 DEF PresentedFrom
    <2>3. CASE m.disclose[n] # Absent
      <3>1. n \in KeysOf(m.disclose)
        BY <2>1, <2>3, HoldersAssumption DEF MapOf, KeysOf
      <3>2. Selected(m.response.documents[1].nameSpaces[n], m.credential.issuerSigned.nameSpaces[n],
                     m.disclose[n])
        BY <2>1, <3>1 DEF PresentedFrom
      <3> QED
        BY <2>3, <3>2 DEF Selected
    <2> QED
      BY <2>2, <2>3
  <1> QED
    BY ExchangeInvariance, <1>1, PTL

\* The response under verification is one document of the network, and where it comes from.
LEMMA SentDocument ==
    ASSUME XInv, pc # "idle", NEW m \in Sent
    PROVE  /\ m \in net /\ m.credential \in wallet
           /\ m.device \in Devices /\ m.disclose \in MapOf(Namespaces, SUBSET Elements)
           /\ in.DeviceResponse = m.response /\ Len(documents) = 1
           /\ PresentedFrom(in.DeviceResponse, m.credential.issuerSigned, m.device, m.disclose,
                            m.session)
           /\ m.credential.from # Absent =>
                /\ m.credential.from \in Issuances
                /\ IssuedFrom(m.credential.issuerSigned, m.credential.from)
  <1>1. m \in net /\ m.response = in.DeviceResponse
    BY DEF Sent
  <1>2. /\ m.credential \in wallet /\ m.device \in Devices /\ m.disclose \in Disclosures
        /\ PresentedFrom(m.response, m.credential.issuerSigned, m.device, m.disclose, m.session)
    BY <1>1 DEF XInv, Holdings
  <1>3. m.credential.from # Absent =>
            m.credential.from \in Issuances /\ IssuedFrom(m.credential.issuerSigned, m.credential.from)
    BY <1>2 DEF XInv, Holdings
  <1>4. Len(documents) = 1
    BY <1>1, <1>2 DEF PresentedFrom, documents
  <1> QED
    BY <1>1, <1>2, <1>3, <1>4, HoldersAssumption

LEMMA AcceptedDocument ==
    ASSUME XInv, Accepted, NEW m \in Sent
    PROVE  /\ Acceptable(documents[1], in, at, asked[1]) /\ Reports(out[1], documents[1])
           /\ asked[1].answer.val \in TrustedKeys
           /\ out[1] \in VerifiedDocument /\ at \in Nat
  <1>1. Len(documents) = 1
    BY SentDocument DEF Accepted
  <1>2. /\ Acceptable(documents[1], in, at, asked[1]) /\ Reports(out[1], documents[1])
        /\ Len(asked) = 1 /\ Len(out) = 1
    BY <1>1, AcceptedAcceptable DEF XInv
  <1>3. asked[1].answer.val \in Keys
    BY <1>2 DEF Acceptable, IssuerAuthentic
  <1>4. asked[1].answer.val \in TrustedKeys
    BY <1>2, <1>3, SentinelValues DEF XInv, Vouched
  <1>5. out \in Seq(VerifiedDocument) /\ at \in Nat
    BY DEF XInv, IInv, TypeOK, Time
  <1> QED
    BY <1>2, <1>4, <1>5

\* A map that discloses selected items of a template holds the template's values.
LEMMA ReleasedValues ==
    ASSUME NEW v \in MapOf(Elements, Values), NEW held, NEW sent, NEW want \in SUBSET Elements,
           NEW values, Selected(sent, held, want), Discloses(v, sent, Len(sent)),
           \A l \in 1 .. Len(held) : held[l].elementValue = values[held[l].elementIdentifier]
    PROVE  v = [e \in Elements |-> IF e \in want THEN values[e] ELSE Absent]
  <1>1. DOMAIN v = Elements /\ v = [e \in Elements |-> v[e]]
    BY DEF MapOf
  <1>2. KeysOf(v) = want
    BY DEF Selected, Discloses
  <1>3. Len(sent) \in Nat
    BY DEF Selected
  <1>4. ASSUME NEW e \in Elements
        PROVE  v[e] = IF e \in want THEN values[e] ELSE Absent
    <2>1. CASE e \notin want
      BY <1>1, <1>2, <1>4, <2>1 DEF KeysOf
    <2>2. CASE e \in want
      <3>1. PICK j \in 1 .. Len(sent) : sent[j].elementIdentifier = e
        BY <2>2 DEF Selected
      <3>2. \A l \in j + 1 .. Len(sent) : sent[l].elementIdentifier # sent[j].elementIdentifier
        BY <1>3, <3>1 DEF Selected
      <3>3. v[e] = sent[j].elementValue
        BY <3>1, <3>2 DEF Discloses
      <3>4. sent[j].elementValue = values[e]
        <4>1. PICK l \in 1 .. Len(held) : sent[j] = held[l]
          BY DEF Selected
        <4> QED
          BY <3>1, <4>1
      <3> QED
        BY <2>2, <3>3, <3>4
    <2> QED
      BY <2>1, <2>2
  <1> QED
    BY <1>1, <1>4

\* What a relying party accepts was presented to its very session by the holder of the
\* sealed key, from a credential of a known signer, and it gets the issuer's own values
\* of what the holder chose to disclose.
THEOREM EndToEnd == ExchangeSpec => []Agreement
  <1>1. ASSUME XInv PROVE Agreement
    <2> SUFFICES ASSUME Accepted
                 PROVE  \E m \in Sent :
            /\ m.session = in.SessionTranscript
            /\ m.device.key = out[1].deviceKey
            /\ m.credential.from # Absent =>
                /\ m.credential.from.issuer.key \in TrustedKeys
                /\ m.credential.from.deviceKey.pt = m.device.key
                /\ out[1].docType = m.credential.from.template.docType
                /\ KeysOf(out[1].namespaces) = KeysOf(m.disclose)
                /\ \A n \in KeysOf(m.disclose) :
                    out[1].namespaces[n] = Released(m.credential.from.template, m.disclose, n)
      BY DEF Agreement
    <2>1. PICK m \in Sent : TRUE
      BY <1>1 DEF XInv, Delivered, Accepted
    <2> DEFINE d == documents[1]
               s == m.credential.issuerSigned
               call == m.credential.from
    <2>2. /\ in.DeviceResponse = m.response /\ m.disclose \in MapOf(Namespaces, SUBSET Elements)
          /\ PresentedFrom(in.DeviceResponse, s, m.device, m.disclose, m.session)
          /\ call # Absent => call \in Issuances /\ IssuedFrom(s, call)
      BY <1>1, SentDocument DEF Accepted
    <2>3. /\ Acceptable(d, in, at, asked[1]) /\ Reports(out[1], d)
          /\ asked[1].answer.val \in TrustedKeys /\ out[1] \in VerifiedDocument
      BY <1>1, AcceptedDocument
    <2>4. /\ d.issuerAuth = s.issuerAuth /\ d.docType = s.issuerAuth.payload.docType
          /\ BoundToSession(d, m.device.key, m.session)
          /\ \A n \in Namespaces : m.disclose[n] = Absent => d.nameSpaces[n] = Absent
          /\ d.nameSpaces \in MapOf(Namespaces, Seq(ItemBytes))
          /\ \A n \in KeysOf(m.disclose) :
                /\ n \in KeysOf(d.nameSpaces) /\ n \in KeysOf(s.nameSpaces)
                /\ Selected(d.nameSpaces[n], s.nameSpaces[n], m.disclose[n])
      BY <2>2 DEF PresentedFrom, documents, Document
    <2>5. BoundToSession(d, out[1].deviceKey, in.SessionTranscript)
          /\ out[1].deviceKey = d.issuerAuth.payload.deviceKey.pt
      BY <2>3 DEF Acceptable, Reports
    <2>6. m.session = in.SessionTranscript /\ m.device.key = out[1].deviceKey
      <3>1. d.deviceSignature.signature
                = Sign(m.device.key, d.deviceSignature.protected,
                       DeviceAuthentication(m.session, d.docType, d.deviceNameSpaces))
        BY <2>4 DEF BoundToSession, SignedBy
      <3>2. d.deviceSignature.signature
                = Sign(out[1].deviceKey, d.deviceSignature.protected,
                       DeviceAuthentication(in.SessionTranscript, d.docType, d.deviceNameSpaces))
        BY <2>5 DEF BoundToSession, SignedBy
      <3> HIDE DEF d
      <3> QED
        BY <3>1, <3>2 DEF Sign, DeviceAuthentication
    <2>7. ASSUME call # Absent
          PROVE  /\ call.issuer.key \in TrustedKeys
                 /\ call.deviceKey.pt = m.device.key
                 /\ out[1].docType = call.template.docType
      <3>1. /\ SignedBy(s.issuerAuth, call.issuer.key, s.issuerAuth.payload)
            /\ s.issuerAuth.payload.docType = call.template.docType
            /\ SealedKey(s.issuerAuth.payload, call.deviceKey.pt)
        BY <2>2, <2>7 DEF IssuedFrom
      <3>2. SignedBy(s.issuerAuth, asked[1].answer.val, s.issuerAuth.payload)
        BY <2>3, <2>4 DEF Acceptable, IssuerAuthentic
      <3>3. call.issuer.key = asked[1].answer.val
        BY <3>1, <3>2 DEF SignedBy, Sign
      <3>4. call.deviceKey.pt = out[1].deviceKey
        BY <2>4, <2>5, <3>1 DEF SealedKey
      <3> QED
        BY <2>3, <2>4, <2>6, <3>1, <3>3, <3>4 DEF Reports
    <2>8. KeysOf(d.nameSpaces) = KeysOf(m.disclose)
      BY <2>2, <2>4 DEF MapOf, KeysOf
    <2>9. KeysOf(out[1].namespaces) = KeysOf(m.disclose)
      BY <2>3, <2>8 DEF Reports
    <2>10. ASSUME call # Absent, NEW n \in KeysOf(m.disclose)
           PROVE  out[1].namespaces[n] = Released(call.template, m.disclose, n)
      <3>1. n \in Namespaces /\ m.disclose[n] \in SUBSET Elements
        BY <2>2, <2>10 DEF MapOf, KeysOf, Opt
      <3>2. out[1].namespaces[n] \in MapOf(Elements, Values)
        <4>1. out[1].namespaces \in MapOf(Namespaces, MapOf(Elements, Values))
          BY <2>3 DEF VerifiedDocument
        <4>2. out[1].namespaces[n] # Absent
          BY <2>9, <2>10 DEF KeysOf
        <4> HIDE DEF d
        <4> QED
          BY <3>1, <4>1, <4>2 DEF MapOf, Opt
      <3>3. Discloses(out[1].namespaces[n], d.nameSpaces[n], Len(d.nameSpaces[n]))
        BY <2>3, <2>8, <2>10 DEF Reports
      <3>4. Selected(d.nameSpaces[n], s.nameSpaces[n], m.disclose[n]) /\ n \in KeysOf(s.nameSpaces)
        BY <2>4, <2>10
      <3>5. \A l \in 1 .. Len(s.nameSpaces[n]) :
                s.nameSpaces[n][l].elementValue
                    = call.template.namespaces[n][s.nameSpaces[n][l].elementIdentifier]
        BY <2>2, <2>10, <3>4 DEF IssuedFrom
      <3>6. out[1].namespaces[n] = [e \in Elements |-> IF e \in m.disclose[n]
                THEN call.template.namespaces[n][e] ELSE Absent]
        <4> DEFINE v == out[1].namespaces[n]
                   sent == d.nameSpaces[n]
                   held == s.nameSpaces[n]
                   want == m.disclose[n]
                   values == call.template.namespaces[n]
        <4>1. /\ v \in MapOf(Elements, Values) /\ want \in SUBSET Elements
              /\ Selected(sent, held, want) /\ Discloses(v, sent, Len(sent))
              /\ \A l \in 1 .. Len(held) : held[l].elementValue = values[held[l].elementIdentifier]
          BY <3>1, <3>2, <3>3, <3>4, <3>5
        <4> HIDE DEF v, sent, held, want, values
        <4>2. v = [e \in Elements |-> IF e \in want THEN values[e] ELSE Absent]
          BY ONLY <4>1, ReleasedValues
        <4> QED
          BY ONLY <4>2 DEF v, want, values
      <3> QED
        BY <3>6 DEF Released
    <2> QED
      BY <2>1, <2>6, <2>7, <2>9, <2>10
  <1> QED
    BY ExchangeInvariance, <1>1, PTL

\* A credential of this package is never accepted after its template's validUntil, nor a
\* second or more before its validFrom.
THEOREM NeverTooLate == ExchangeSpec => []NeverLate
  <1>1. ASSUME XInv PROVE NeverLate
    <2> SUFFICES ASSUME Accepted, NEW m \in Sent, m.credential.from # Absent
                 PROVE  LET vi == m.credential.from.template.validityInfo
                        IN  at <= vi.validUntil /\ at + TicksPerSecond > vi.validFrom
      BY DEF NeverLate
    <2> DEFINE s == m.credential.issuerSigned
               call == m.credential.from
               vi == call.template.validityInfo
    <2>1. /\ PresentedFrom(in.DeviceResponse, s, m.device, m.disclose, m.session)
          /\ call \in Issuances /\ IssuedFrom(s, call)
      BY <1>1, SentDocument DEF Accepted
    <2>2. Acceptable(documents[1], in, at, asked[1]) /\ at \in Nat
      BY <1>1, AcceptedDocument
    <2>3. documents[1].issuerAuth = s.issuerAuth
      BY <2>1 DEF PresentedFrom, documents
    <2>4. s.issuerAuth.payload.validityInfo = encodeValidity(vi)
      BY <2>1 DEF IssuedFrom
    <2>5. ValidAt(encodeValidity(vi), at)
      BY <2>2, <2>3, <2>4 DEF Acceptable
    <2>6. encodeTime(vi.validFrom) <= at /\ at <= encodeTime(vi.validUntil)
      BY <2>5 DEF ValidAt, encodeValidity
    <2>7. vi.validFrom \in Time /\ vi.validUntil \in Time
      BY <2>1, IssuancesAssumption DEF DocumentTemplate, ValidityInfo
    <2>8. /\ encodeTime(vi.validUntil) <= vi.validUntil
          /\ vi.validFrom < encodeTime(vi.validFrom) + TicksPerSecond
          /\ encodeTime(vi.validUntil) \in Nat /\ encodeTime(vi.validFrom) \in Nat
          /\ TicksPerSecond \in Nat
      BY <2>7, EncodedTime, TicksPerSecondAssumption DEF Time
    <2> HIDE DEF vi
    <2>9. at <= vi.validUntil /\ at + TicksPerSecond > vi.validFrom
      BY <2>2, <2>6, <2>7, <2>8 DEF Time
    <2> QED
      BY <2>9 DEF vi
  <1> QED
    BY ExchangeInvariance, <1>1, PTL

-----------------------------------------------------------------------------
(* The converse: what keeps a presentation from being refused. *)

\* The response under verification is one flawless document for this call.
Flawless ==
    LET d == documents[1]
        claim == issuerClaim(d.issuerAuth)
        sealed == d.issuerAuth.payload
    IN  /\ WellFormedResponse(in) /\ Len(documents) = 1
        /\ in.ExpectedDocType \in {Absent, d.docType}
        /\ claim.err = {}
        /\ IssuerAuthentic(d, Ok(claim.val.x5chain[1].subject))
        /\ ValidAt(sealed.validityInfo, at)
        /\ SealedKey(sealed, sealed.deviceKey.pt)
        /\ ItemsSealed(d)
        /\ BoundToSession(d, sealed.deviceKey.pt, in.SessionTranscript)
        /\ StatusReadable(sealed)

\* The trust layer did not vouch for the first document.
Declined == asked # <<>> /\ asked[1].answer.val = Absent

\* A flawless document is refused only by the trust layer.
FairlyRejected == Rejected => ~Flawless \/ Declined

\* Failing leaves in place what Flawless and Declined speak of.
LEMMA FailsFairly ==
    ASSUME NEW e, Fail(e), ~Flawless \/ Declined
    PROVE  FairlyRejected'
  <1>1. in' = in /\ at' = at /\ asked' = asked
    BY DEF Fail
  <1>2. Flawless' = Flawless
    BY <1>1 DEF Flawless, documents
  <1>3. Declined' = Declined
    BY <1>1 DEF Declined
  <1> QED
    BY <1>2, <1>3 DEF FairlyRejected

LEMMA OnlyDocument ==
    ASSUME IInv, Busy, Flawless, i <= Len(documents)
    PROVE  i = 1 /\ doc = documents[1] /\ mso = documents[1].issuerAuth.payload
  <1>1. i \in Nat /\ i >= 1
    BY DEF IInv, TypeOK, ResponseRead
  <1>2. Len(documents) = 1
    BY DEF Flawless
  <1>3. i = 1
    BY <1>1, <1>2
  <1> QED
    BY <1>3 DEF doc, mso

LEMMA FairVerify == IInv /\ Verify => FairlyRejected'
  <1> SUFFICES ASSUME IInv, Verify PROVE FairlyRejected'
    OBVIOUS
  <1> DEFINE e == IF ~in.IssuerTrust THEN {"ErrUnsupported"}
                  ELSE DecodeDeviceResponse(in.DeviceResponse)
  <1>1. CASE pc' # "done"
    BY <1>1 DEF FairlyRejected, Rejected
  <1>2. CASE pc' = "done"
    <2>1. e # {} /\ Fail(e)
      BY <1>2 DEF Verify
    <2>2. ~Flawless
      BY <2>1, WellFormedPasses DEF Flawless
    <2> QED
      BY <2>1, <2>2, FailsFairly
  <1> QED
    BY <1>1, <1>2

LEMMA FairNextDocument == IInv /\ NextDocument => FairlyRejected'
  <1> SUFFICES ASSUME IInv, NextDocument PROVE FairlyRejected'
    OBVIOUS
  <1> DEFINE e == IF in.ExpectedDocType # Absent /\ doc.docType # in.ExpectedDocType
                  THEN {"ErrDocTypeMismatch"}
                  ELSE issuerClaim(doc.issuerAuth).err
  <1>1. CASE pc' # "done"
    BY <1>1 DEF FairlyRejected, Rejected
  <1>2. CASE pc' = "done"
    <2>1. e # {} /\ Fail(e) /\ Busy /\ i <= Len(documents)
      BY <1>2 DEF NextDocument, Busy
    <2>2. ~Flawless
      <3> SUFFICES ASSUME Flawless PROVE FALSE
        OBVIOUS
      <3>1. doc = documents[1]
        BY <2>1, OnlyDocument
      <3> QED
        BY <2>1, <3>1 DEF Flawless
    <2> QED
      BY <2>1, <2>2, FailsFairly
  <1> QED
    BY <1>1, <1>2

LEMMA FairVerifyIssuerAuth == IInv /\ Vouched /\ verifyIssuerAuth => FairlyRejected'
  <1> SUFFICES ASSUME IInv, Vouched, verifyIssuerAuth PROVE FairlyRejected'
    OBVIOUS
  <1> DEFINE auth == authenticateMSO(doc.issuerAuth, answer, at)
             e == IF auth # {} THEN auth ELSE checkDocType(mso.docType, doc.docType)
  <1>1. CASE pc' # "done"
    BY <1>1 DEF FairlyRejected, Rejected
  <1>2. CASE pc' = "done"
    <2>1. e # {} /\ Fail(e) /\ Busy /\ Answered
      BY <1>2 DEF verifyIssuerAuth, Busy, Answered
    <2>2. ASSUME Flawless, ~Declined PROVE FALSE
      <3>1. /\ answer \in Answer /\ asked # <<>> /\ Len(asked) = i
            /\ asked[Len(asked)].answer = answer
            /\ asked[i].question = issuerClaim(doc.issuerAuth).val
            /\ doc \in Document /\ i \in 1 .. Len(documents) /\ at \in Nat
            /\ documents \in Seq(Document)
        BY <2>1, LastAnswer
      <3>2. i = 1 /\ doc = documents[1] /\ mso = doc.issuerAuth.payload
        BY <2>1, <2>2, <3>1, OnlyDocument
      <3>3. answer.val # Absent
        BY <2>2, <3>1, <3>2 DEF Declined
      <3>4. answer.err = {} /\ answer.val = issuerClaim(doc.issuerAuth).val.x5chain[1].subject
        BY <3>1, <3>2, <3>3 DEF Vouched
      <3>5. /\ issuerClaim(doc.issuerAuth).err = {}
            /\ IssuerAuthentic(doc, Ok(issuerClaim(doc.issuerAuth).val.x5chain[1].subject))
            /\ ValidAt(doc.issuerAuth.payload.validityInfo, at)
            /\ SealedKey(doc.issuerAuth.payload, doc.issuerAuth.payload.deviceKey.pt)
        BY <2>2, <3>2 DEF Flawless
      <3>6. IssuerAuthentic(doc, answer)
        BY <3>4, <3>5 DEF IssuerAuthentic, Ok
      <3>7. auth = {} /\ checkDocType(doc.issuerAuth.payload.docType, doc.docType) = {}
        BY <3>1, <3>5, <3>6, AuthenticPasses
      <3> QED
        BY <2>1, <3>2, <3>7
    <2> QED
      BY <2>1, <2>2, FailsFairly
  <1> QED
    BY <1>1, <1>2

LEMMA FairRangeNamespace == IInv /\ RangeNamespace => FairlyRejected'
  <1> SUFFICES ASSUME IInv, RangeNamespace PROVE FairlyRejected'
    OBVIOUS
  <1>1. CASE pc' # "done"
    BY <1>1 DEF FairlyRejected, Rejected
  <1>2. CASE pc' = "done"
    <2>1. PICK n \in todo : mso.valueDigests[n] = Absent /\ Fail({"ErrIntegrity"})
      BY <1>2 DEF RangeNamespace
    <2>2. pc = "integrity" /\ Busy /\ Reading
      BY DEF RangeNamespace, Busy, Reading
    <2>3. ~ItemsSealed(doc)
      BY <2>1, <2>2, UndeservedNamespace
    <2>4. Flawless => doc = documents[1]
      BY <2>2, OnlyDocument DEF IInv, DocumentRead
    <2>5. ~Flawless
      BY <2>3, <2>4 DEF Flawless
    <2> QED
      BY <2>1, <2>5, FailsFairly
  <1> QED
    BY <1>1, <1>2

LEMMA FairRangeItem == IInv /\ RangeItem => FairlyRejected'
  <1> SUFFICES ASSUME IInv, RangeItem PROVE FairlyRejected'
    OBVIOUS
  <1> DEFINE e == checkItem(items[k], mso.valueDigests[cur], mso.digestAlgorithm)
  <1>1. CASE pc' # "done"
    BY <1>1 DEF FairlyRejected, Rejected
  <1>2. CASE pc' = "done"
    <2>1. e # {} /\ Fail(e) /\ pc = "items" /\ k <= Len(items) /\ Busy /\ Reading
      BY <1>2 DEF RangeItem, Busy, Reading
    <2>2. ~ItemsSealed(doc)
      BY <2>1, UndeservedItem
    <2>3. Flawless => doc = documents[1]
      BY <2>1, OnlyDocument DEF IInv, DocumentRead
    <2>4. ~Flawless
      BY <2>2, <2>3 DEF Flawless
    <2> QED
      BY <2>1, <2>4, FailsFairly
  <1> QED
    BY <1>1, <1>2

LEMMA FairDeviceAuth == IInv /\ DeviceAuth => FairlyRejected'
  <1> SUFFICES ASSUME IInv, DeviceAuth PROVE FairlyRejected'
    OBVIOUS
  <1> DEFINE e == verifyDeviceAuth(doc, parseCOSEKey(mso.deviceKey).val, in.SessionTranscript)
  <1>1. CASE pc' # "done"
    BY <1>1 DEF FairlyRejected, Rejected
  <1>2. CASE pc' = "done"
    <2>1. e # {} /\ Fail(e) /\ pc = "integrity" /\ Busy /\ Reading
      BY <1>2 DEF DeviceAuth, Busy, Reading
    <2>2. ~BoundToSession(doc, mso.deviceKey.pt, in.SessionTranscript)
      BY <2>1, UndeservedDevice
    <2>3. Flawless => doc = documents[1] /\ mso = documents[1].issuerAuth.payload
      BY <2>1, OnlyDocument DEF IInv, DocumentRead
    <2>4. ~Flawless
      BY <2>2, <2>3 DEF Flawless
    <2> QED
      BY <2>1, <2>4, FailsFairly
  <1> QED
    BY <1>1, <1>2

LEMMA FairAppendVerified == IInv /\ AppendVerified => FairlyRejected'
  <1> SUFFICES ASSUME IInv, AppendVerified PROVE FairlyRejected'
    OBVIOUS
  <1>1. CASE pc' # "done"
    BY <1>1 DEF FairlyRejected, Rejected
  <1>2. CASE pc' = "done"
    <2>1. /\ parseMSOStatus(mso.status).err # {} /\ Fail(parseMSOStatus(mso.status).err)
          /\ Busy /\ Reading
      BY <1>2 DEF AppendVerified, Busy, Reading
    <2>2. ~StatusReadable(mso)
      BY <2>1, ReadablePasses
    <2>3. Flawless => mso = documents[1].issuerAuth.payload
      BY <2>1, OnlyDocument DEF IInv, DocumentRead
    <2>4. ~Flawless
      BY <2>2, <2>3 DEF Flawless
    <2> QED
      BY <2>1, <2>4, FailsFairly
  <1> QED
    BY <1>1, <1>2

LEMMA FairEndDocuments == IInv /\ EndDocuments => FairlyRejected'
  <1> SUFFICES ASSUME IInv, EndDocuments PROVE FairlyRejected'
    OBVIOUS
  <1>1. CASE Len(out) # 0
    <2>1. err' = {}
      BY <1>1 DEF EndDocuments, IInv, NoErrorYet
    <2> QED
      BY <2>1 DEF FairlyRejected, Rejected
  <1>2. CASE Len(out) = 0
    <2>1. Fail({"ErrMalformed"}) /\ pc = "document" /\ i > Len(documents)
      BY <1>2 DEF EndDocuments
    <2>2. documents = <<>>
      BY <1>2, <2>1, UndeservedEmpty
    <2>3. ~Flawless
      BY <2>2 DEF Flawless
    <2> QED
      BY <2>1, <2>3, FailsFairly
  <1> QED
    BY <1>1, <1>2

\* Every step keeps to it.
LEMMA FairStep == XInv /\ FairlyRejected /\ [ExchangeNext]_exchangeVars => FairlyRejected'
  <1> SUFFICES ASSUME XInv, FairlyRejected, [ExchangeNext]_exchangeVars PROVE FairlyRejected'
    OBVIOUS
  <1>1. CASE Tick \/ UNCHANGED vars
    <2>1. UNCHANGED <<pc, in, at, err, asked>>
      BY <1>1 DEF Tick, vars
    <2> QED
      BY <2>1 DEF FairlyRejected, Rejected, Flawless, Declined, documents
  <1>2. CASE Deliver \/ Resolve \/ Return \/ EndNamespace
    <2>1. pc' # "done"
      BY <1>2 DEF Deliver, Call, Resolve, ResolveIssuerKey, Return, EndNamespace
    <2> QED
      BY <2>1 DEF FairlyRejected, Rejected
  <1>3. CASE Step
    BY <1>2, <1>3, FairVerify, FairNextDocument, FairVerifyIssuerAuth, FairRangeNamespace,
       FairRangeItem, FairDeviceAuth, FairAppendVerified, FairEndDocuments DEF Step, XInv
  <1> QED
    BY <1>1, <1>2, <1>3
    DEF ExchangeNext, exchangeVars, IssueCredential, ReceiveCredential, PresentCredential, Verifying

\* What Issue and DevicePresent make for this session is flawless while the window and
\* the signer's certificate allow it.
LEMMA RoundTripFlawless ==
    ASSUME XInv, Rejected, NEW m \in Sent, m.credential.from # Absent,
           m.session = in.SessionTranscript,
           m.device.key = m.credential.from.deviceKey.pt,
           in.ExpectedDocType \in {Absent, m.credential.from.template.docType},
           Usable(m.credential.from.template, m.credential.from.issuer, at)
    PROVE  Flawless
  <1> DEFINE s == m.credential.issuerSigned
             call == m.credential.from
             d == documents[1]
             sealed == s.issuerAuth.payload
             chain == call.issuer.x5chain
             vi == encodeValidity(call.template.validityInfo)
  <1>1. /\ Len(documents) = 1 /\ m.disclose \in MapOf(Namespaces, SUBSET Elements)
        /\ PresentedFrom(in.DeviceResponse, s, m.device, m.disclose, m.session)
        /\ call \in Issuances /\ IssuedFrom(s, call) /\ in.IssuerTrust
    BY SentDocument DEF Rejected, XInv, Delivered
  <1>2. /\ d.issuerAuth = s.issuerAuth /\ d.docType = sealed.docType
        /\ BoundToSession(d, m.device.key, m.session)
        /\ in.DeviceResponse \in DeviceResponse /\ in.DeviceResponse.version = "1.0"
        /\ ~in.DeviceResponse.documentErrors /\ in.DeviceResponse.status = 0
        /\ d.nameSpaces \in MapOf(Namespaces, Seq(ItemBytes))
        /\ \A n \in Namespaces : m.disclose[n] = Absent => d.nameSpaces[n] = Absent
        /\ \A n \in KeysOf(m.disclose) :
            n \in KeysOf(s.nameSpaces) /\ Selected(d.nameSpaces[n], s.nameSpaces[n], m.disclose[n])
    BY <1>1 DEF PresentedFrom, documents, Document
  <1>3. /\ sealed \in MobileSecurityObject /\ SignedBy(s.issuerAuth, call.issuer.key, sealed)
        /\ s.issuerAuth.unprotected = ChainHeader(call.issuer)
        /\ sealed.docType = call.template.docType /\ sealed.digestAlgorithm # "SHA-1"
        /\ sealed.validityInfo = vi
        /\ SealedKey(sealed, call.deviceKey.pt) /\ sealed.deviceKey.pt = call.deviceKey.pt
        /\ sealed.status = IF call.template.status = Absent THEN Absent
                           ELSE [statusList |-> call.template.status]
    BY <1>1 DEF IssuedFrom, SealedKey
  <1>4. /\ vi.signed # 0 /\ chain \notin {Absent, <<>>} /\ chain[1] # Malformed
        /\ chain[1].subject = call.issuer.key
        /\ chain[1].notBefore <= vi.signed /\ vi.signed <= chain[1].notAfter
        /\ ValidAt(vi, at)
        /\ call.template.status # Absent => call.template.status.uri # Absent
    BY DEF Usable, Certified, ValidAt
  <1>5. /\ call.issuer.key \in Keys /\ chain \in Seq(Cert)
        /\ call.template.status \in Opt([uri: Opt({"uri"}), idx: Nat])
    BY <1>1, <1>4, IssuancesAssumption DEF Issuer, Opt, DocumentTemplate
  <1>6. issuerClaim(s.issuerAuth) = Ok([x5chain |-> chain, signed |-> vi.signed])
    <2> DEFINE parts == coseParts(s.issuerAuth)
    <2>1. parts.err = {} /\ s.issuerAuth # Malformed /\ s.issuerAuth.len = 4
      BY <1>3 DEF SignedBy, coseParts, Ok
    <2>2. parts.val.unprotected = ChainHeader(call.issuer) /\ parts.val.payload = sealed
      BY <1>3, <2>1, PartsOf
    <2>3. ChainHeader(call.issuer) = [x5chain |-> chain]
      BY <1>4 DEF ChainHeader
    <2>4. chain # Malformed
      BY <1>5, SentinelIssued
    <2>5. [x5chain |-> chain] \notin {Absent, Malformed}
      <3>1. [x5chain |-> chain] \in UnprotectedMap
        BY <1>5 DEF UnprotectedMap, X5Value, Opt, Raw
      <3> QED
        BY <3>1, SentinelIssued
    <2> HIDE DEF parts, chain
    <2>6. x5chainFromMap(parts.val.unprotected) = Ok(chain)
      BY <1>4, <2>2, <2>3, <2>4, <2>5 DEF x5chainFromMap
    <2>7. x5chainFrom(parts.val) = Ok(chain)
      BY <1>4, <2>6 DEF x5chainFrom, Ok
    <2>8. claimedSigningTime(parts.val.payload) = Ok(vi.signed)
      <3>1. sealed \notin {Absent, Malformed}
        BY <1>3, SentinelIssued
      <3> QED
        BY <1>3, <1>4, <2>2, <3>1 DEF claimedSigningTime
    <2>9. checkSignerWindow(chain, vi.signed) = {}
      <3>1. vi.signed \in Nat /\ chain[1].notBefore \in Nat /\ chain[1].notAfter \in Nat
        <4>1. vi.signed \in Nat
          BY <1>3 DEF MobileSecurityObject, ValidityInfo, Time
        <4>2. chain[1] \in Cert
          BY <1>4, <1>5
        <4> QED
          BY <1>4, <4>1, <4>2 DEF Cert, Raw, Time
      <3> QED
        BY <1>4, <3>1 DEF checkSignerWindow
    <2> QED
      BY <2>1, <2>7, <2>8, <2>9 DEF issuerClaim, parts, Ok
  <1>7. IssuerAuthentic(d, Ok(issuerClaim(d.issuerAuth).val.x5chain[1].subject))
    <2>1. issuerClaim(d.issuerAuth).val.x5chain[1].subject = call.issuer.key
      <3>1. issuerClaim(d.issuerAuth) = Ok([x5chain |-> chain, signed |-> vi.signed])
        BY <1>2, <1>6
      <3>2. chain[1].subject = call.issuer.key
        BY <1>4
      <3> HIDE DEF d, chain, vi
      <3>3. issuerClaim(d.issuerAuth).val.x5chain = chain
        BY <3>1 DEF Ok
      <3> QED
        BY <3>2, <3>3
    <2> HIDE DEF d
    <2> QED
      BY <1>2, <1>3, <1>5, <2>1 DEF IssuerAuthentic, Ok
  <1>8. ItemsSealed(d)
    <2> SUFFICES ASSUME NEW n \in KeysOf(d.nameSpaces)
                 PROVE  /\ sealed.valueDigests[n] # Absent
                        /\ \A j \in 1 .. Len(d.nameSpaces[n]) :
                            ItemSealed(d.nameSpaces[n][j], sealed, n)
      BY <1>2 DEF ItemsSealed
    <2>1. n \in Namespaces /\ n \in KeysOf(m.disclose)
      BY <1>1, <1>2 DEF MapOf, KeysOf
    <2>2. n \in KeysOf(s.nameSpaces) /\ Selected(d.nameSpaces[n], s.nameSpaces[n], m.disclose[n])
      BY <1>2, <2>1
    <2>3. /\ sealed.valueDigests[n] # Absent
          /\ \A l \in 1 .. Len(s.nameSpaces[n]) : ItemSealed(s.nameSpaces[n][l], sealed, n)
      BY <1>1, <2>2 DEF IssuedFrom
    <2>4. \A j \in 1 .. Len(d.nameSpaces[n]) : \E l \in 1 .. Len(s.nameSpaces[n]) :
            d.nameSpaces[n][j] = s.nameSpaces[n][l]
      BY <2>2 DEF Selected
    <2> HIDE DEF d, s, sealed
    <2> QED
      BY <2>3, <2>4
  <1>9. StatusReadable(sealed)
    <2>1. CASE call.template.status = Absent
      BY <1>3, <2>1 DEF StatusReadable
    <2>2. CASE call.template.status # Absent
      <3>1. sealed.status = [statusList |-> call.template.status]
        BY <1>3, <2>2
      <3>2. [statusList |-> call.template.status] \in StatusMap
        BY <1>5 DEF StatusMap, Opt
      <3>3. sealed.status # Malformed /\ sealed.status.statusList = call.template.status
        BY <3>1, <3>2, SentinelIssued
      <3> QED
        BY <1>4, <2>2, <3>3 DEF StatusReadable
    <2> QED
      BY <2>1, <2>2
  <1>10. WellFormedResponse(in)
    <2>1. in.DeviceResponse # Malformed /\ "1.0" # Absent
      BY <1>2, SentinelIssued
    <2>2. in.DeviceResponse.documents # <<>>
      <3>1. Len(in.DeviceResponse.documents) = 1
        BY <1>1 DEF documents
      <3>2. Len(<<>>) # 1
        OBVIOUS
      <3> QED
        BY <3>1, <3>2, Zenon
    <2> QED
      BY <1>1, <1>2, <2>1, <2>2 DEF WellFormedResponse
  <1>11. /\ in.ExpectedDocType \in {Absent, d.docType}
         /\ issuerClaim(d.issuerAuth).err = {}
         /\ ValidAt(d.issuerAuth.payload.validityInfo, at)
         /\ SealedKey(d.issuerAuth.payload, d.issuerAuth.payload.deviceKey.pt)
         /\ BoundToSession(d, d.issuerAuth.payload.deviceKey.pt, in.SessionTranscript)
         /\ StatusReadable(d.issuerAuth.payload)
    <2>1. issuerClaim(s.issuerAuth).err = {}
      BY <1>6 DEF Ok
    <2> HIDE DEF d, vi, chain
    <2> QED
      BY <1>2, <1>3, <1>4, <1>9, <2>1
  <1> HIDE DEF s, sealed, chain, vi, call
  <1> QED
    BY <1>1, <1>7, <1>8, <1>10, <1>11 DEF Flawless

\* A response of this package, in its own session, with the sealed key and while the
\* credential is valid, is refused only because the trust layer vouched for nothing,
\* whatever the orders of map iteration on either side.
THEOREM RoundTrips == ExchangeSpec => []RoundTrip
  <1>1. XInv /\ FairlyRejected => RoundTrip
    <2> SUFFICES ASSUME XInv, FairlyRejected, Rejected, NEW m \in Sent,
                        m.credential.from # Absent,
                        m.session = in.SessionTranscript,
                        m.device.key = m.credential.from.deviceKey.pt,
                        in.ExpectedDocType \in {Absent, m.credential.from.template.docType},
                        Usable(m.credential.from.template, m.credential.from.issuer, at)
                 PROVE  asked # <<>> /\ asked[1].answer.val = Absent
      BY DEF RoundTrip
    <2>1. Flawless
      BY RoundTripFlawless
    <2> QED
      BY <2>1 DEF FairlyRejected, Declined
  <1>2. ExchangeInit => FairlyRejected
    BY DEF ExchangeInit, Init, FairlyRejected, Rejected
  <1> QED
    BY ExchangeInvariance, <1>1, <1>2, FairStep, PTL DEF ExchangeSpec
=============================================================================
