-------------------------- MODULE VerifierContract --------------------------
(***************************************************************************)
(* What Verify promises its caller: the trust layer is asked about every   *)
(* document in turn until there is a fault or no document is left, and the *)
(* whole response is accepted in the second case and rejected in the       *)
(* first, as of one instant of the call. Whether there is a fault depends  *)
(* on the data and on the trust layer's answers alone.                     *)
(***************************************************************************)
EXTENDS Acceptance

CONSTANT Inputs

VARIABLES
    clock,
    phase,      \* "idle", "busy" or "done"
    in, began,  \* the call and when it began
    asked,      \* the trust layer's answers so far
    out, err    \* the result

cvars == <<clock, phase, in, began, asked, out, err>>

Init ==
    /\ clock = 1 /\ began = 1 /\ phase = "idle" /\ in = Absent
    /\ asked = <<>> /\ out = <<>> /\ err = {}

Call ==
    /\ phase = "idle" /\ phase' = "busy"
    /\ in' \in Inputs /\ began' = clock
    /\ UNCHANGED <<clock, asked, out, err>>

\* What is wrong with the response as of instant t and as far as the trust layer has
\* been asked: with the response itself, with a document it was asked about, or with the
\* next one, which it cannot be asked about at all.
AtFault(t) ==
    \/ ~WellFormedResponse(in)
    \/ LET documents == in.DeviceResponse.documents
       IN  \/ \E j \in 1 .. Len(asked) : ~Acceptable(documents[j], in, t, asked[j])
           \/ /\ Len(asked) < Len(documents)
              /\ ~Askable(documents[Len(asked) + 1], in)

\* The trust layer is asked about the next document and about no other, in the terms of
\* that document and as long as there is no fault; whatever it answers is recorded.
Vouch ==
    /\ phase = "busy" /\ \E t \in began .. clock : ~AtFault(t)
    /\ Len(asked') = Len(asked) + 1
    /\ asked = SubSeq(asked', 1, Len(asked))
    /\ Len(asked') <= Len(in.DeviceResponse.documents)
    /\ Poses(in.DeviceResponse.documents[Len(asked')], asked'[Len(asked')].question)
    /\ UNCHANGED <<clock, phase, in, began, out, err>>

\* The result of the call.
Accept ==
    /\ err' = {}
    /\ Len(out') = Len(asked)
    /\ \A j \in 1 .. Len(asked) : Reports(out'[j], in.DeviceResponse.documents[j])

Reject == err' # {} /\ out' = <<>>

\* One decision, as of one instant of the call: a fault is rejected, and nothing else is;
\* without one the response is accepted, once every document has been asked about.
Decide ==
    /\ phase = "busy" /\ phase' = "done"
    /\ \E t \in began .. clock :
        \/ AtFault(t) /\ Reject
        \/ ~AtFault(t) /\ Len(asked) = Len(in.DeviceResponse.documents) /\ Accept
    /\ UNCHANGED <<clock, in, began, asked>>

Return ==
    /\ phase = "done" /\ phase' = "idle"
    /\ in' = Absent /\ asked' = <<>> /\ out' = <<>> /\ err' = {}
    /\ UNCHANGED <<clock, began>>

Tick == clock' > clock /\ UNCHANGED <<phase, in, began, asked, out, err>>

Next == Call \/ Vouch \/ Decide \/ Return \/ Tick

Spec == Init /\ [][Next]_cvars
=============================================================================
