---------------------------- MODULE GatewayRequest ----------------------------
(***************************************************************************)
(* A request of the gateway client before the server sees it: what the     *)
(* client checks itself (gateway.go), the assertion that is signed for it  *)
(* (assertion.go), with the rules of GatewayPath and CanonicalJSON, and    *)
(* the connection it needs (MTLSReload).  The token is left out: AuthRetry *)
(* has it.                                                                 *)
(*                                                                         *)
(* Time is in half seconds, an object's keys are sequences of code points. *)
(***************************************************************************)
EXTENDS MTLSReload, CanonicalJSON, GatewayPath

CONSTANT Calls          \* the calls an application may make

\* A call as an application can make it; a section that is no JSON has no document.
Forms == {"value", "nil", "empty", "garbage", "trailing"}
IsSection(raw) == raw.form \in Forms /\ IsDocument(raw.document)
IsCall(c) ==
    /\ c.route \in Routes
    /\ c.ids \in Seq(Seq(STRING)) /\ c.actor \in Seq(STRING) /\ c.key \in Seq(STRING)
    /\ Method(c.route) = "GET" => c.key = <<>>               \* the two take no key
    /\ c.request.blank \in BOOLEAN
    /\ IsSection(c.request.input) /\ IsSection(c.request.parameters)
    /\ c.clock \in Nat /\ c.clock >= 2 /\ c.ttl \in Int       \* after 1970

ASSUME CallAssumption == \A c \in Calls : IsCall(c)

VARIABLES
    call,               \* the call that is made
    phase,              \* how far it is
    complaint,          \* what it was refused for
    claims              \* the assertion that was signed

requestVars == <<call, phase, complaint, claims, mtlsVars>>
-----------------------------------------------------------------------------
(* What the client refuses before it asks for a token.                     *)

Complaint(section, reason, named) ==
    [section |-> section, reason |-> reason, named |-> named]
NoName == <<NoKey>>
If(bad, section, reason) ==
    Complaint(section, IF bad THEN reason ELSE "none", NoName)

\* How json.Marshal takes spec.input and spec.parameters: nil is null, a
\* RawMessage that is not one JSON value is an error.
Marshals(raw) == raw.form \in {"value", "nil"}
IsNull(raw) == raw.form = "nil" \/ raw.document = Leaf("null")

\* encoding/json keeps the last of two members with one key, and what is in it.
LastWins(d) ==
    {p \in DOMAIN d :
        \A k \in 1..Len(p) : \A q \in DOMAIN d :
            Siblings(Way(p, k), q) /\ IsMember(d, q) /\ d[q].key = d[Way(p, k)].key
                => At(q) <= p[k]}

\* locateUncanonicalizableNumber: the first unfit number of the tree that is
\* left, with the keys in order; an item of an array is named by its index.
Unfit(d) == {p \in DOMAIN d : d[p].value \in Fractions \cup OutOfRange}
NameBefore(m, n) == Lexical(m, n, Precedes)
Locate(d) ==
    LET there == {Name(d, p) : p \in Unfit(d) \cap LastWins(d)}
    IN IF there = {} THEN NoName
       ELSE CHOOSE name \in there : \A other \in there : ~NameBefore(other, name)

\* validateGatewayCanonicalizable: a field is named if jcs refused a number.
NumberRejectionMutant(fault) == TRUE
NumberRejection(fault) == fault \in {"fraction", "range"}
Canonicalizable(section, raw) ==
    LET fault == Fault(Raw(raw.document, "none")) IN
        Complaint(section, fault,
            IF fault # "none" /\ NumberRejection(fault)
            THEN Locate(raw.document) ELSE NoName)

\* GatewayCreateRequest.Validate, its checks in order.
ValidateMutant(request) ==              \* the parameters are looked at, the input is not
    << If(request.blank, "request", "blank"),
       If(~Marshals(request.input) \/ IsNull(request.input), "input", "null"),
       If(~Marshals(request.parameters) \/ IsNull(request.parameters), "parameters", "null"),
       If(request.parameters.document[<<>>].value # "object", "parameters", "no object"),
       Canonicalizable("parameters", request.parameters) >>
Validate(request) ==
    << If(request.blank, "request", "blank"),
       If(~Marshals(request.input) \/ IsNull(request.input), "input", "null"),
       If(~Marshals(request.parameters) \/ IsNull(request.parameters), "parameters", "null"),
       Canonicalizable("input", request.input),
       If(request.parameters.document[<<>>].value # "object", "parameters", "no object"),
       Canonicalizable("parameters", request.parameters) >>

\* The checks of create, Cancel, DownloadArtifact and GetWithETag, in order.
Checks(c) ==
    (IF c.route = "create" THEN Validate(c.request) ELSE <<>>)
    \o (IF Method(c.route) = "GET" THEN <<>> ELSE <<If(~KeyOK(c.key), "key", "invalid")>>)
    \o <<If(~IdsOK(c), "ids", "invalid")>>
Failing(c) == {k \in DOMAIN Checks(c) : Checks(c)[k].reason # "none"}
Refused(c) == Failing(c) # {}
Refusal(c) == Checks(c)[CHOOSE k \in Failing(c) : \A l \in Failing(c) : k <= l]
-----------------------------------------------------------------------------
(* The assertion.                                                          *)

\* The body create marshals: four fields, named by as many letters as tell
\* them apart ("m", "sk", "sp", "t", "i", "p", "sc"); a GET and a DELETE have none.
Body(c) ==
    IF c.route # "create" THEN EmptyRaw
    ELSE Raw(Object(<< Member(<<115, 107>>, Leaf("text")), Member(<<116>>, Leaf("text")),
                       Member(<<115, 112>>, Object(<<
                            Member(<<115, 99>>, Leaf("text")),
                            Member(<<105>>, c.request.input.document),
                            Member(<<112>>, c.request.parameters.document) >>)),
                       Member(<<109>>, Leaf("text")) >>), "none")

\* RequestFingerprint; the digest separates what it is taken of.
Fingerprint(c) ==
    [line |-> Line(c), body |-> CanonicalizeJSON(Body(c))]

\* IssuedAt and ExpiresAt are Unix seconds; no TTL is the default one.
DefaultTTL == 120
TTL(c) == IF c.ttl = 0 THEN DefaultTTL ELSE c.ttl
IssuedAt(c) == c.clock \div 2
ExpiresAt(c) == (c.clock + TTL(c)) \div 2
LifetimeOK(c) ==
    /\ TTL(c) \in 1..DefaultTTL
    /\ ExpiresAt(c) - IssuedAt(c) \in 1..60
ClaimsOf(c) ==
    [operation |-> c.route, subject |-> c.actor, fingerprint |-> Fingerprint(c),
     iat |-> IssuedAt(c), exp |-> ExpiresAt(c)]

\* SignAssertion's checks, of what it is told and not of what was checked before.
Signable(c) ==
    /\ AddressOK(c) /\ ActorOK(c.actor)
    /\ Fault(Body(c)) = "none"
    /\ LifetimeOK(c)
-----------------------------------------------------------------------------
NoClaims == [iat |-> 0, exp |-> 0]
Fine == Complaint("none", "none", NoName)

Init ==
    /\ MTLSInit
    /\ call \in Calls
    /\ phase = "new"
    /\ complaint = Fine
    /\ claims = NoClaims

\* create, GetWithETag, DownloadArtifact, Cancel up to doInvocation.
Check ==
    /\ phase = "new"
    /\ IF Refused(call)
       THEN phase' = "refused" /\ complaint' = Refusal(call)
       ELSE phase' = "checked" /\ UNCHANGED complaint
    /\ UNCHANGED <<call, claims, mtlsVars>>

\* doInvocation: SignAssertion.
Sign ==
    /\ phase = "checked"
    /\ IF Signable(call)
       THEN phase' = "signed" /\ claims' = ClaimsOf(call)
       ELSE phase' = "unsigned" /\ UNCHANGED claims
    /\ UNCHANGED <<call, complaint, mtlsVars>>

\* The transport dials for a request and has one to send it on, or fails it.
Dial(d) ==
    /\ phase = "signed" /\ dial[d] # "failed" /\ Handshake(d)
    /\ UNCHANGED <<call, phase, complaint, claims>>
Transmit(d) ==
    /\ phase = "signed"
    /\ \/ dial[d] = "open" /\ phase' = "arrived"
       \/ dial[d] = "failed" /\ phase' = "failed"
    /\ UNCHANGED <<call, complaint, claims, mtlsVars>>

\* Meanwhile: the operator, and a connection that is lost.
Elsewhere ==
    /\ Rotation \/ \E d \in Dials : Drop(d)
    /\ UNCHANGED <<call, phase, complaint, claims>>

Next == Check \/ Sign \/ (\E d \in Dials : Dial(d) \/ Transmit(d)) \/ Elsewhere
Spec == Init /\ [][Next]_requestVars
-----------------------------------------------------------------------------
(* Properties.                                                             *)

\* What passed the client's own checks is signed, unless the actor or the
\* lifetime is no good, which it does not check: nothing about the path, the
\* key or the body is left for the digest, whose error names no field.
\* (GatewayCreateRequest.Validate, gateway.go:98-101)
SignerRefusesOnlyItsOwn ==
    phase = "unsigned" => ~ActorOK(call.actor) \/ ~LifetimeOK(call)

\* A server with its own jcs and the claims' rules agrees with what arrives: the
\* canonical body says what was sent, in the order of RFC 8785, and the window is
\* of at most 60 s in the whole seconds the claims have.
\* (CanonicalizeJSON, jcs.go:36; validateClaims, assertion.go:499)
ServerAgrees ==
    phase = "arrived" =>
        /\ InRFCOrder(claims.fingerprint.body)
        /\ SameValue(claims.fingerprint.body, Body(call).document)
        /\ 0 < claims.iat /\ claims.exp - claims.iat \in 1..60

\* Two requests of which the SDK signs both have one fingerprint exactly if they
\* are one request: route, ids, actor, key, and the value of the body, however
\* its members are ordered and whatever encoding/json would make of its texts.
\* (RequestFingerprint, assertion.go:280; validateRawJSONUnicode, jcs.go:61)
Said(c) ==
    [route |-> c.route, ids |-> c.ids, actor |-> c.actor, key |-> c.key,
     value |-> Value(Body(c).document)]
Signed == {c \in Calls : ~Refused(c) /\ Signable(c)}
Fingerprints == {[said |-> Said(c), print |-> Fingerprint(c)] : c \in Signed}
FingerprintSeparates ==
    phase = "arrived" =>
        LET said == Said(call) IN
            \A f \in Fingerprints : (f.print = claims.fingerprint) = (f.said = said)

\* A field is named only if jcs refused a number, and then it holds, as it is
\* written, one that is unfit; none is named only if a later member with the same
\* key hides it.  (validateGatewayCanonicalizable, gateway.go:786)
UnfitNames(d) == {Name(d, p) : p \in Unfit(d)}
Section == IF complaint.section = "input" THEN call.request.input.document
           ELSE call.request.parameters.document
NamedFieldIsToBlame ==
    /\ complaint.named # NoName =>
        /\ complaint.named \in UnfitNames(Section)
        /\ DecodeFault(Section) \in {"fraction", "range"}
    /\ complaint.reason \in {"fraction", "range"} /\ complaint.named = NoName
            => \E p \in DOMAIN Section : Repeats(Section, p)

\* What the phase, the complaint and the claims have to do with the call.
RequestInv ==
    /\ call \in Calls
    /\ phase \in {"new", "refused", "checked", "unsigned", "signed", "arrived", "failed"}
    /\ phase \in {"checked", "unsigned", "signed", "arrived", "failed"} => ~Refused(call)
    /\ phase = "refused" => Refused(call)
    /\ phase \in {"signed", "arrived", "failed"} => Signable(call)
    /\ phase = "unsigned" => ~Signable(call)
    /\ complaint = IF phase = "refused" THEN Refusal(call) ELSE Fine
    /\ claims = IF phase \in {"signed", "arrived", "failed"} THEN ClaimsOf(call) ELSE NoClaims
=============================================================================
