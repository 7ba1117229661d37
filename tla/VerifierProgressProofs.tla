----------------------- MODULE VerifierProgressProofs -----------------------
(***************************************************************************)
(* Every step of a call of Verify leaves less to do, of a measure in four  *)
(* natural numbers: all of Termination that is not about scheduling.       *)
(***************************************************************************)
EXTENDS VerifierProofs, FiniteSetTheorems

\* What the invariant of Verify leaves open about the loops: the input is one of the
\* caller's, and finitely many namespaces are still to be ranged over.
LoopsFinite == (pc # "idle" => in \in Inputs) /\ IsFiniteSet(todo)

LEMMA StepLoopsFinite == IInv /\ LoopsFinite /\ [Next]_vars => LoopsFinite'
  <1> SUFFICES ASSUME IInv, LoopsFinite, [Next]_vars PROVE LoopsFinite'
    OBVIOUS
  <1>1. ASSUME NEW input \in Inputs, Call(input) PROVE LoopsFinite'
    BY <1>1 DEF Call, LoopsFinite, loop
  <1>2. ASSUME UNCHANGED in, pc # "idle", todo' \subseteq todo PROVE LoopsFinite'
    BY <1>2, FS_Subset DEF LoopsFinite
  <1>3. ASSUME NEW e, Fail(e), pc # "idle" PROVE LoopsFinite'
    BY <1>2, <1>3 DEF Fail, loop
  <1>4. CASE Verify \/ NextDocument \/ ResolveIssuerKey \/ DeviceAuth \/ AppendVerified
             \/ EndDocuments \/ RangeNamespace \/ RangeItem
    <2>1. UNCHANGED <<in, todo>> /\ pc # "idle"
      BY <1>4 DEF Verify, NextDocument, ResolveIssuerKey, DeviceAuth, AppendVerified, EndDocuments,
            RangeNamespace, RangeItem, Fail, loop
    <2> QED
      BY <1>2, <2>1
  <1>5. CASE EndNamespace
    BY <1>2, <1>5 DEF EndNamespace
  <1>6. CASE verifyIssuerAuth
    <2>1. pc = "answered" /\ UNCHANGED in
          /\ (UNCHANGED todo \/ todo' = KeysOf(doc.nameSpaces))
      BY <1>6 DEF verifyIssuerAuth, Fail, StartLoops, loop
    <2>2. IsFiniteSet(KeysOf(doc.nameSpaces))
      <3>1. Busy /\ Reading
        BY <2>1 DEF Busy, Reading
      <3>2. in \in Inputs /\ in.DeviceResponse # Malformed
        BY <2>1, <3>1 DEF LoopsFinite, IInv, ResponseRead, DecodeDeviceResponse
      <3>3. i \in 1 .. Len(documents)
        BY <3>1, DocumentTyped
      <3> QED
        BY <3>2, <3>3, FiniteMapsAssumption DEF documents, doc
    <2> QED
      BY <2>1, <2>2 DEF LoopsFinite
  <1>7. CASE Return
    BY <1>7, FS_EmptySet DEF Return, StartLoops, LoopsFinite
  <1>8. CASE Tick \/ UNCHANGED vars
    BY <1>8 DEF Tick, vars, loop, LoopsFinite
  <1> QED
    BY <1>1, <1>4, <1>5, <1>6, <1>7, <1>8 DEF Next, Step

-----------------------------------------------------------------------------
(* The measure. *)

\* The documents of the response under way are counted.
LEMMA DocumentsLeft ==
    ASSUME IInv, pc \notin {"idle", "done"}
    PROVE  LET left == IF in.DeviceResponse = Malformed THEN 0 ELSE Len(documents)
           IN  /\ left \in Nat
               /\ Busy => i \in 1 .. left + 1 /\ left = Len(documents)
  <1>1. in \in VerifyInput
    BY DEF IInv, InputRead
  <1>2. ASSUME in.DeviceResponse # Malformed PROVE documents \in Seq(Document)
    BY <1>1, <1>2 DEF VerifyInput, Raw, DeviceResponse, documents
  <1>3. ASSUME Busy PROVE in.DeviceResponse # Malformed /\ i - 1 <= Len(documents) /\ i \in Nat /\ i >= 1
    BY <1>3 DEF IInv, ResponseRead, DocumentsDone, DecodeDeviceResponse, TypeOK
  <1>4. ASSUME in.DeviceResponse # Malformed PROVE Len(documents) \in Nat
    BY <1>2, <1>4
  <1> QED
    BY <1>3, <1>4

\* So are the items of the namespace under way.
LEMMA ItemsLeft ==
    ASSUME IInv, pc = "items"
    PROVE  Len(items) \in Nat /\ k \in 1 .. Len(items) + 1
  <1>1. Genuine /\ cur \in todo
    BY DEF Genuine, IInv, ItemsDone
  <1>2. items \in Seq(ItemBytes)
    BY <1>1, NamespaceTyped DEF items
  <1> QED
    BY <1>2 DEF IInv, ItemsDone

\* The work left, component by component.
DocumentsToDo ==
    LET left == IF in.DeviceResponse = Malformed THEN 0 ELSE Len(documents)
    IN  IF pc = "called" THEN left + 2 ELSE left + 2 - i
StagesToDo ==
    CASE pc = "document" -> 3 [] pc = "trust" -> 2 [] pc = "answered" -> 1 [] OTHER -> 0
TurnsToDo ==
    CASE pc = "integrity" -> 2 * Cardinality(todo) + 1
      [] pc = "items" -> 2 * Cardinality(todo)
      [] OTHER -> 0
ItemsToDo == IF pc = "items" THEN Len(items) + 1 - k ELSE 0

LEMMA WorkOf ==
    ASSUME pc \notin {"idle", "done"}
    PROVE  /\ Work[1] = DocumentsToDo /\ Work[2] = StagesToDo
           /\ Work[3] = TurnsToDo /\ Work[4] = ItemsToDo
           /\ Work = <<DocumentsToDo, StagesToDo, TurnsToDo, ItemsToDo>>
  BY DEF Work, DocumentsToDo, StagesToDo, TurnsToDo, ItemsToDo

\* What is left is four numbers, and a document or the end of the loop is among them as
\* long as the call is under way.
LEMMA WorkTyped ==
    ASSUME IInv, LoopsFinite
    PROVE  /\ Work \in Nat \X Nat \X Nat \X Nat
           /\ pc \notin {"idle", "done"} => Work[1] > 0
  <1>1. CASE pc \in {"idle", "done"}
    BY <1>1 DEF Work
  <1>2. CASE pc \notin {"idle", "done"}
    <2>1. DocumentsToDo \in Nat /\ DocumentsToDo > 0
      <3>1. pc # "called" => Busy
        BY <1>2 DEF Busy
      <3> QED
        BY <1>2, <3>1, DocumentsLeft DEF DocumentsToDo
    <2>2. StagesToDo \in Nat
      BY DEF StagesToDo
    <2>3. TurnsToDo \in Nat
      <3>1. Cardinality(todo) \in Nat
        BY FS_CardinalityType DEF LoopsFinite
      <3> QED
        BY <3>1 DEF TurnsToDo
    <2>4. ItemsToDo \in Nat
      BY ItemsLeft DEF ItemsToDo
    <2> QED
      BY <1>2, <2>1, <2>2, <2>3, <2>4, WorkOf
  <1> QED
    BY <1>1, <1>2

\* Which component decides.
LEMMA LexCases ==
    ASSUME NEW a, NEW b,
           \/ a[1] < b[1]
           \/ a[1] = b[1] /\ a[2] < b[2]
           \/ a[1] = b[1] /\ a[2] = b[2] /\ a[3] < b[3]
           \/ a[1] = b[1] /\ a[2] = b[2] /\ a[3] = b[3] /\ a[4] < b[4]
    PROVE  LexLess(a, b)
  <1>1. CASE a[1] < b[1]
    <2>1. 1 \in 1 .. 4 /\ \A m \in 1 .. 1 - 1 : a[m] = b[m]
      OBVIOUS
    <2> QED
      BY <1>1, <2>1 DEF LexLess
  <1>2. CASE a[1] = b[1] /\ a[2] < b[2]
    <2>1. 2 \in 1 .. 4 /\ \A m \in 1 .. 2 - 1 : m = 1
      OBVIOUS
    <2> QED
      BY <1>2, <2>1 DEF LexLess
  <1>3. CASE a[1] = b[1] /\ a[2] = b[2] /\ a[3] < b[3]
    <2>1. 3 \in 1 .. 4 /\ \A m \in 1 .. 3 - 1 : m = 1 \/ m = 2
      OBVIOUS
    <2> QED
      BY <1>3, <2>1 DEF LexLess
  <1>4. CASE a[1] = b[1] /\ a[2] = b[2] /\ a[3] = b[3] /\ a[4] < b[4]
    <2>1. 4 \in 1 .. 4 /\ \A m \in 1 .. 4 - 1 : m = 1 \/ m = 2 \/ m = 3
      OBVIOUS
    <2> QED
      BY <1>4, <2>1 DEF LexLess
  <1> QED
    BY <1>1, <1>2, <1>3, <1>4

-----------------------------------------------------------------------------
(* The steps. *)

\* A call that fails has nothing left to do.
LEMMA FailAdvances ==
    ASSUME IInv, LoopsFinite, pc \notin {"idle", "done"}, pc' = "done"
    PROVE  LexLess(Work', Work)
  <1>1. Work'[1] = 0
    BY DEF Work
  <1>2. Work[1] > 0 /\ Work[1] \in Nat
    BY WorkTyped
  <1> QED
    BY <1>1, <1>2, LexCases

\* A step on the same document, to a later stage of it.
LEMMA StageAdvances ==
    ASSUME IInv, pc \notin {"idle", "called", "done"}, pc' \notin {"idle", "called", "done"},
           UNCHANGED <<in, i>>, StagesToDo' < StagesToDo
    PROVE  LexLess(Work', Work)
  <1>1. DocumentsToDo' = DocumentsToDo
    BY DEF DocumentsToDo, documents
  <1>2. /\ Work[1] = DocumentsToDo /\ Work[2] = StagesToDo
        /\ Work'[1] = DocumentsToDo' /\ Work'[2] = StagesToDo'
    BY WorkOf DEF Work, DocumentsToDo, StagesToDo
  <1> QED
    BY <1>1, <1>2, LexCases

\* A turn of one of the loops inside a document.
LEMMA TurnAdvances ==
    ASSUME IInv, pc \in {"integrity", "items"}, pc' \in {"integrity", "items", "status"},
           UNCHANGED <<in, i>>,
           \/ TurnsToDo' < TurnsToDo
           \/ TurnsToDo' = TurnsToDo /\ ItemsToDo' < ItemsToDo
    PROVE  LexLess(Work', Work)
  <1>1. DocumentsToDo' = DocumentsToDo
    BY DEF DocumentsToDo, documents
  <1>2. StagesToDo' = StagesToDo
    BY DEF StagesToDo
  <1>3. /\ Work[1] = DocumentsToDo /\ Work[2] = StagesToDo
        /\ Work[3] = TurnsToDo /\ Work[4] = ItemsToDo
        /\ Work'[1] = DocumentsToDo' /\ Work'[2] = StagesToDo'
        /\ Work'[3] = TurnsToDo' /\ Work'[4] = ItemsToDo'
    BY WorkOf DEF Work, DocumentsToDo, StagesToDo, TurnsToDo, ItemsToDo
  <1> QED
    BY <1>1, <1>2, <1>3, LexCases

\* The head of Verify and the end of a document count the documents down.
LEMMA DocumentAdvances ==
    ASSUME IInv, LoopsFinite, pc' = "document", UNCHANGED in,
           \/ pc = "called" /\ i' = 1
           \/ pc = "status" /\ i' = i + 1
    PROVE  LexLess(Work', Work)
  <1> DEFINE left == IF in.DeviceResponse = Malformed THEN 0 ELSE Len(documents)
  <1>1. left \in Nat /\ left' = left
    BY DocumentsLeft DEF documents
  <1>2. Work'[1] = left + 2 - i'
    <2>1. Work'[1] = left' + 2 - i'
      BY DEF Work
    <2> QED
      BY <1>1, <2>1
  <1>3. CASE pc = "called"
    <2>1. Work[1] = left + 2
      BY <1>3 DEF Work
    <2> HIDE DEF left
    <2>2. Work'[1] < Work[1]
      BY <1>1, <1>2, <1>3, <2>1
    <2> QED
      BY <2>2, LexCases
  <1>4. CASE pc = "status"
    <2>1. Work[1] = left + 2 - i
      BY <1>4 DEF Work
    <2>2. i \in Nat
      BY DEF IInv, TypeOK
    <2> HIDE DEF left
    <2>3. Work'[1] < Work[1]
      BY <1>1, <1>2, <1>4, <2>1, <2>2
    <2> QED
      BY <2>3, LexCases
  <1> QED
    BY <1>3, <1>4

LEMMA LoopsAdvance ==
    ASSUME IInv, LoopsFinite, RangeNamespace \/ RangeItem \/ EndNamespace \/ DeviceAuth
    PROVE  LexLess(Work', Work)
  <1>1. Cardinality(todo) \in Nat
    BY FS_CardinalityType DEF LoopsFinite
  <1>2. CASE pc' = "done"
    <2>1. pc \notin {"idle", "done"}
      BY DEF RangeNamespace, RangeItem, EndNamespace, DeviceAuth
    <2> QED
      BY <1>2, <2>1, FailAdvances
  <1>3. CASE RangeNamespace /\ pc' # "done"
    <2>1. pc = "integrity" /\ pc' = "items" /\ UNCHANGED <<in, i, todo>>
      BY <1>3 DEF RangeNamespace, Fail
    <2>2. TurnsToDo = 2 * Cardinality(todo) + 1 /\ TurnsToDo' = 2 * Cardinality(todo)
      BY <2>1 DEF TurnsToDo
    <2>3. TurnsToDo' < TurnsToDo
      BY <1>1, <2>2
    <2> QED
      BY <2>1, <2>3, TurnAdvances
  <1>4. CASE RangeItem /\ pc' # "done"
    <2>1. pc = "items" /\ pc' = "items" /\ UNCHANGED <<in, i, todo, cur>> /\ k' = k + 1
      BY <1>4 DEF RangeItem, Fail
    <2>2. items' = items
      BY <2>1 DEF items, doc, documents
    <2>3. TurnsToDo' = TurnsToDo /\ ItemsToDo = Len(items) + 1 - k
          /\ ItemsToDo' = Len(items) + 1 - (k + 1)
      BY <2>1, <2>2 DEF TurnsToDo, ItemsToDo
    <2>4. ItemsToDo' < ItemsToDo
      BY <2>1, <2>3, ItemsLeft
    <2> QED
      BY <2>1, <2>3, <2>4, TurnAdvances
  <1>5. CASE EndNamespace
    <2>1. pc = "items" /\ pc' = "integrity" /\ UNCHANGED <<in, i>> /\ todo' = todo \ {cur}
          /\ cur \in todo
      BY <1>5 DEF EndNamespace, IInv, ItemsDone
    <2>2. Cardinality(todo') = Cardinality(todo) - 1
      BY <2>1, FS_RemoveElement DEF LoopsFinite
    <2>3. TurnsToDo = 2 * Cardinality(todo) /\ TurnsToDo' = 2 * Cardinality(todo') + 1
      BY <2>1 DEF TurnsToDo
    <2>4. TurnsToDo' < TurnsToDo
      BY <1>1, <2>2, <2>3
    <2> QED
      BY <2>1, <2>4, TurnAdvances
  <1>6. CASE DeviceAuth /\ pc' # "done"
    <2>1. pc = "integrity" /\ pc' = "status" /\ UNCHANGED <<in, i>>
      BY <1>6 DEF DeviceAuth, Fail
    <2>2. TurnsToDo = 2 * Cardinality(todo) + 1 /\ TurnsToDo' = 0
      BY <2>1 DEF TurnsToDo
    <2>3. TurnsToDo' < TurnsToDo
      BY <1>1, <2>2
    <2> QED
      BY <2>1, <2>3, TurnAdvances
  <1> QED
    BY <1>2, <1>3, <1>4, <1>5, <1>6

LEMMA StepAdvances ==
    ASSUME IInv, LoopsFinite, [Next]_vars, pc \notin {"idle", "done"}
    PROVE  vars' = vars \/ clock' # clock \/ LexLess(Work', Work)
  <1>1. CASE pc' = "done"
    BY <1>1, FailAdvances
  <1>2. CASE Verify /\ pc' # "done"
    <2>1. pc = "called" /\ pc' = "document" /\ UNCHANGED in /\ i' = 1
      BY <1>2 DEF Verify, Fail
    <2> QED
      BY <2>1, DocumentAdvances
  <1>3. CASE AppendVerified /\ pc' # "done"
    <2>1. pc = "status" /\ pc' = "document" /\ UNCHANGED in /\ i' = i + 1
      BY <1>3 DEF AppendVerified, Fail
    <2> QED
      BY <2>1, DocumentAdvances
  <1>4. CASE NextDocument /\ pc' # "done"
    <2>1. pc = "document" /\ pc' = "trust" /\ UNCHANGED <<in, i>>
      BY <1>4 DEF NextDocument, Fail
    <2>2. StagesToDo = 3 /\ StagesToDo' = 2
      BY <2>1 DEF StagesToDo
    <2> QED
      BY <2>1, <2>2, StageAdvances
  <1>5. CASE ResolveIssuerKey
    <2>1. pc = "trust" /\ pc' = "answered" /\ UNCHANGED <<in, i>>
      BY <1>5 DEF ResolveIssuerKey
    <2>2. StagesToDo = 2 /\ StagesToDo' = 1
      BY <2>1 DEF StagesToDo
    <2> QED
      BY <2>1, <2>2, StageAdvances
  <1>6. CASE verifyIssuerAuth /\ pc' # "done"
    <2>1. pc = "answered" /\ pc' = "integrity" /\ UNCHANGED <<in, i>>
      BY <1>6 DEF verifyIssuerAuth, Fail
    <2>2. StagesToDo = 1 /\ StagesToDo' = 0
      BY <2>1 DEF StagesToDo
    <2> QED
      BY <2>1, <2>2, StageAdvances
  <1>7. CASE RangeNamespace \/ RangeItem \/ EndNamespace \/ DeviceAuth
    BY <1>7, LoopsAdvance
  <1>8. CASE EndDocuments /\ pc' # "done"
    BY <1>8 DEF EndDocuments, Fail
  <1>9. CASE Tick
    <2>1. clock \in Nat
      BY DEF IInv, TypeOK, Time
    <2> QED
      BY <1>9, <2>1 DEF Tick
  <1>10. CASE Return \/ (\E input \in Inputs : Call(input))
    BY <1>10 DEF Return, Call
  <1> QED
    BY <1>1, <1>2, <1>3, <1>4, <1>5, <1>6, <1>7, <1>8, <1>9, <1>10 DEF Next, Step

\* Every step of a call of Verify leaves less of its loops to run, however many
\* documents, namespaces and items there are (verify.go, integrity.go).
THEOREM Progress == Spec => EveryStepAdvances
  <1>1. Init => LoopsFinite
    BY FS_EmptySet DEF Init, LoopsFinite
  <1>2. Spec => []LoopsFinite
    BY <1>1, StepLoopsFinite, Invariance, PTL DEF Spec
  <1>3. IInv /\ LoopsFinite /\ [Next]_vars
            => [pc \notin {"idle", "done"} => clock' # clock \/ LexLess(Work', Work)]_vars
    BY StepAdvances
  <1> QED
    BY <1>2, <1>3, Invariance, PTL DEF Spec, EveryStepAdvances

\* What is left to do are four natural numbers.
THEOREM WorkIsNumbers == Spec => [](Work \in Nat \X Nat \X Nat \X Nat)
  <1>1. Init => LoopsFinite
    BY FS_EmptySet DEF Init, LoopsFinite
  <1>2. Spec => []LoopsFinite
    BY <1>1, StepLoopsFinite, Invariance, PTL DEF Spec
  <1>3. IInv /\ LoopsFinite => Work \in Nat \X Nat \X Nat \X Nat
    BY WorkTyped
  <1> QED
    BY <1>2, <1>3, Invariance, PTL
=============================================================================
