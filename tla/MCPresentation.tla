--------------------------- MODULE MCPresentation ---------------------------
(***************************************************************************)
(* An instance of Presentation for TLC: one second is two ticks, every     *)
(* issuer, template, key and request differs from a usable one in one      *)
(* respect.                                                                *)
(***************************************************************************)
EXTENDS Presentation

MCDocTypes == {"mDL", "PID"}
MCNamespaces == {"n1", "n2"}
MCElements == {"name", "age"}
MCValues == {"v1", "v2", "empty"}
MCDigestIDs == {0, 1}
MCWires == {"w1"}
MCKeys == {"kI", "kD", "kX"}
MCTranscripts == {"st1", "st2"}

Leaf == [subject |-> "kI", notBefore |-> 2, notAfter |-> 4]
DS == [key |-> "kI", x5chain |-> <<Leaf>>, ok |-> TRUE]
Signers ==
    {DS, [DS EXCEPT !.x5chain = Absent], [DS EXCEPT !.x5chain = <<[Leaf EXCEPT !.subject = "kX"]>>],
     [DS EXCEPT !.ok = FALSE]}

\* Written with whole seconds, the window 3 .. 5 is 2 .. 4.
Map(v1, v2) == [n \in MCNamespaces |-> IF n = "n1" THEN v1 ELSE v2]
Person == [e \in MCElements |-> IF e = "name" THEN "v1" ELSE "v2"]
Window(s, f, u) == [signed |-> s, validFrom |-> f, validUntil |-> u]
Template == [docType |-> "mDL", namespaces |-> Map(Person, Absent),
             validityInfo |-> Window(3, 3, 5), digestAlg |-> Absent, status |-> Absent]
Templates ==
    {Template, [Template EXCEPT !.docType = Absent],
     [Template EXCEPT !.digestAlg = "SHA-1"],
     [Template EXCEPT !.namespaces = Map(Person, [Person EXCEPT !["name"] = Absent])],
     [Template EXCEPT !.namespaces = Map([Person EXCEPT !["age"] = Malformed], Absent)]}
    \cup {[Template EXCEPT !.validityInfo = w] : w \in {Window(1, 3, 5), Window(3, 4, 5)}}
    \cup {[Template EXCEPT !.status = [uri |-> u, idx |-> 7]] : u \in {"uri", Absent}}

KD == [type |-> "ecdsa", curve |-> 1, pt |-> "kD"]
PublicKeys ==
    {KD, [type |-> "ecdsa", curve |-> 0, pt |-> "kD"],
     [type |-> "other", curve |-> 1, pt |-> "kD"]}
MCIssuances ==
    LET Calls(I, T, K) == [issuer: I, template: T, deviceKey: K]
    IN  Calls(Signers, {Template}, {KD}) \cup Calls({DS}, Templates, {KD})
        \cup Calls({DS}, {Template}, PublicKeys)

MCDevices == {[key |-> "kD", ok |-> TRUE], [key |-> "kX", ok |-> TRUE], [key |-> "kD", ok |-> FALSE]}

\* A credential of another make: n1 holds two items called name, the second sealed too.
ForeignItems ==
    <<[wire |-> "w1", digestID |-> 0, elementIdentifier |-> "name", elementValue |-> "v1"],
      [wire |-> "w1", digestID |-> 1, elementIdentifier |-> "name", elementValue |-> "v2"]>>
ForeignMSO ==
    [version |-> "1.0", digestAlgorithm |-> "SHA-256",
     valueDigests |-> Map([id \in MCDigestIDs |-> Hash("SHA-256", ForeignItems[id + 1])], Absent),
     deviceKey |-> encodeCOSEKey([type |-> "ecdsa", curve |-> 2, pt |-> "kD"]).val,
     docType |-> "PID", validityInfo |-> Window(2, 2, 4), status |-> Absent]
Other == [nameSpaces |-> Map(ForeignItems, Absent),
          issuerAuth |-> signCOSEWithX5Chain(DS, ForeignMSO).val]
MCForeign ==
    {Other, Malformed, [Other EXCEPT !.issuerAuth = Malformed],
     [Other EXCEPT !.issuerAuth.payload = Malformed],
     [Other EXCEPT !.nameSpaces = Map(<<ForeignItems[1], Malformed>>, Absent)]}

MCDisclosures ==
    {Map({"name"}, Absent), Map({"name", "age"}, Absent), Map({"name"}, {"age"}), Map({}, {"name"}),
     Map(Absent, Absent)}
\* Two credentials of one holder, for the run with several responses in flight.
TwoIssuances ==
    LET Small == [Template EXCEPT !.namespaces = Map([Person EXCEPT !["age"] = Absent], Absent)]
    IN  [issuer: {DS}, template: {Small, [Small EXCEPT !.docType = "PID"]}, deviceKey: {KD}]
TwoDisclosures == {Map({"name"}, Absent), Map({}, Absent)}
TwoDevices == {[key |-> "kD", ok |-> TRUE], [key |-> "kX", ok |-> TRUE]}

MCExpected == {Absent, "PID"}
=============================================================================
