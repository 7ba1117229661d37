---------------------------- MODULE Presentation ----------------------------
(***************************************************************************)
(* Issuers, a holder, a network and relying parties: Issue and             *)
(* DevicePresent composed with the Verifier state machine. The network     *)
(* never forgets a response: what was sent may be delivered late, again,   *)
(* to another session, or never.                                           *)
(***************************************************************************)
EXTENDS Issuance, VerifierProperties

CONSTANTS
    Issuances,      \* calls of Issue: an issuer, a template, a device key
    Foreign,        \* IssuerSigned of issuers that are not this package
    Devices,        \* [key, ok] of each wallet signer
    Disclosures,    \* the disclose arguments of DevicePresent
    Expected,       \* the ExpectedDocTypes of relying parties
    TrustedKeys,    \* document signers the trust layer knows
    MaxCredentials, MaxResponses    \* bounds on the wallet and on the network

ASSUME HoldersAssumption ==
    /\ Foreign \subseteq IssuerSigned
    /\ Devices \subseteq [key: Keys, ok: BOOLEAN]
    /\ Disclosures \subseteq MapOf(Namespaces, SUBSET Elements)
    /\ Expected \subseteq Opt(DocTypes)
ASSUME IssuancesAssumption ==
    /\ Issuances \subseteq [issuer: Issuer, template: DocumentTemplate, deviceKey: PublicKey]
    /\ Absent \notin Issuances

VARIABLES
    wallet,         \* credentials held, with what they were issued from
    net             \* responses sent, with the call of DevicePresent that made each

exchangeVars == <<vars, wallet, net>>

ExchangeInit == Init /\ wallet = {} /\ net = {}

\* An issuer issues a credential; the holder keeps it, an error leaves nothing.
IssueCredential ==
    /\ Cardinality(wallet) < MaxCredentials
    /\ \E call \in Issuances :
       \E order \in RangeOrders(call.template), salts \in [Namespaces -> [Elements -> Wires]] :
        LET issued == Issue(call.issuer, call.template, call.deviceKey, order, salts)
        IN  wallet' = IF issued.err # {} THEN wallet
                      ELSE wallet \cup {[issuerSigned |-> issued.val, from |-> call]}
    /\ UNCHANGED <<vars, net>>

\* The holder gets a credential from an issuer of another make.
ReceiveCredential ==
    /\ Cardinality(wallet) < MaxCredentials
    /\ \E issuerSigned \in Foreign :
        wallet' = wallet \cup {[issuerSigned |-> issuerSigned, from |-> Absent]}
    /\ UNCHANGED <<vars, net>>

\* The holder answers a session with elements of a credential.
PresentCredential ==
    /\ Cardinality(net) < MaxResponses
    /\ \E credential \in wallet, device \in Devices, disclose \in Disclosures,
          st \in Transcripts :
       \E presented \in DevicePresent(device, credential.issuerSigned, disclose, st) :
        net' = IF presented.err # {} THEN net
               ELSE net \cup {[response |-> presented.val, credential |-> credential,
                               device |-> device, disclose |-> disclose, session |-> st]}
    /\ UNCHANGED <<vars, wallet>>

\* The network delivers a response to some session, which calls Verify.
Deliver ==
    /\ \E m \in net, st \in Transcripts, t \in Expected :
        Call([DeviceResponse |-> m.response, SessionTranscript |-> st,
                IssuerTrust |-> TRUE, ExpectedDocType |-> t])
    /\ UNCHANGED <<wallet, net>>

\* A trust layer that vouches for the leaf's key, and for no signer it does not know.
Resolve ==
    /\ ResolveIssuerKey
    /\ answer'.err = {} /\ answer'.val # Absent =>
        LET leaf == asked'[Len(asked')].question.x5chain[1]
        IN  answer'.val = leaf.subject /\ leaf.subject \in TrustedKeys
    /\ UNCHANGED <<wallet, net>>

Verifying == (Step \/ Return \/ Tick) /\ UNCHANGED <<wallet, net>>

ExchangeNext == IssueCredential \/ ReceiveCredential \/ PresentCredential \/ Deliver
                \/ Resolve \/ Verifying

ExchangeSpec == ExchangeInit /\ [][ExchangeNext]_exchangeVars

-----------------------------------------------------------------------------
Credential == [issuerSigned: IssuerSigned, from: Opt(Issuances)]

\* Credentials and responses are of their types; of what Issue made every part decodes.
HoldingsOK ==
    /\ wallet \subseteq Credential
    /\ \A c \in wallet : c.from # Absent =>
        /\ c.issuerSigned # Malformed
        /\ \A n \in KeysOf(c.issuerSigned.nameSpaces) :
            \A j \in 1 .. Len(c.issuerSigned.nameSpaces[n]) :
                c.issuerSigned.nameSpaces[n][j].elementValue \in Values
    /\ \A m \in net : m.response \in DeviceResponse /\ m.credential \in wallet

\* The deliveries that may stand behind the call under way.
Sent == {m \in net : m.response = in.DeviceResponse}

\* What a holder discloses of a template.
Released(template, disclose, n) ==
    [e \in Elements |-> IF e \in disclose[n] THEN template.namespaces[n][e] ELSE Absent]

\* Issue, DevicePresent and Verify together: what a relying party accepts, the holder
\* of the sealed key presented to this very session, from a credential of a signer the
\* trust layer knows, and the values returned are the issuer's own, of the elements
\* the holder chose to disclose.
Agreement ==
    Accepted =>
        \E m \in Sent :
            /\ m.session = in.SessionTranscript
            /\ m.device.key = out[1].deviceKey
            /\ m.credential.from # Absent =>
                /\ m.credential.from.issuer.key \in TrustedKeys
                /\ m.credential.from.deviceKey.pt = m.device.key
                /\ out[1].docType = m.credential.from.template.docType
                /\ KeysOf(out[1].namespaces) = KeysOf(m.disclose)
                /\ \A n \in KeysOf(m.disclose) :
                    out[1].namespaces[n] = Released(m.credential.from.template, m.disclose, n)

\* selectDisclosed: a response holds the requested elements, each of them once, and
\* nothing else of the credential; so it cannot matter that Verify reports the last
\* item of a repeated identifier.
MinimalDisclosure ==
    \A m \in net : \A n \in Namespaces :
        LET sent == m.response.documents[1].nameSpaces[n]
        IN  IF m.disclose[n] = Absent THEN sent = Absent
            ELSE /\ {sent[j].elementIdentifier : j \in 1 .. Len(sent)} = m.disclose[n]
                 /\ Len(sent) = Cardinality(m.disclose[n])

\* The leaf of the chain the issuer stamps is its own certificate and covers t.
Certified(issuer, t) ==
    /\ issuer.x5chain \notin {Absent, <<>>} /\ issuer.x5chain[1] # Malformed
    /\ issuer.x5chain[1].subject = issuer.key
    /\ issuer.x5chain[1].notBefore <= t /\ t <= issuer.x5chain[1].notAfter

\* A template whose credentials can be valid at t, in whole seconds.
Usable(template, issuer, t) ==
    LET vi == encodeValidity(template.validityInfo)
    IN  /\ vi.signed # 0 /\ Certified(issuer, vi.signed)
        /\ vi.validFrom # 0 /\ vi.validFrom < vi.validUntil
        /\ vi.validFrom <= t /\ t <= vi.validUntil
        /\ template.status # Absent => template.status.uri # Absent

\* The round trip: whatever order the maps were ranged in, a response delivered to its
\* own session, presented with the sealed key while the credential is valid, is refused
\* only because the trust layer vouched for nothing.
RoundTrip ==
    Rejected =>
        \A m \in Sent :
            \/ m.credential.from = Absent
            \/ m.session # in.SessionTranscript
            \/ m.device.key # m.credential.from.deviceKey.pt
            \/ in.ExpectedDocType \notin {Absent, m.credential.from.template.docType}
            \/ ~Usable(m.credential.from.template, m.credential.from.issuer, at)
            \/ asked # <<>> /\ asked[1].answer.val = Absent

\* Times are cut to whole seconds when a credential is issued: a relying party may
\* accept it up to a second before the template's validFrom, and never after its
\* validUntil.
NeverLate ==
    Accepted =>
        \A m \in Sent : m.credential.from # Absent =>
            /\ at <= m.credential.from.template.validityInfo.validUntil
            /\ at + TicksPerSecond > m.credential.from.template.validityInfo.validFrom
=============================================================================
