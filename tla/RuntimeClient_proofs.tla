------------------------ MODULE RuntimeClient_proofs ------------------------
(***************************************************************************)
(* Proofs about RuntimeClient, for all actors, keys and contents, any      *)
(* number of calls and any errors.                                         *)
(***************************************************************************)
EXTENDS RuntimeClient, TLAPS

\* What was signed is what the call captured, under a nonce nobody has seen;
\* once it has passed the identity check the message still fits.
SignedFits ==
    (pc \in {"check", "sent"} /\ Signs(call.method)) =>
        /\ signed.nonce = nonce /\ nonce > 0 /\ nonce \notin seen
        /\ <<call.method, signed.operation>> \in Operations
        /\ signed.fingerprint = Fingerprint(call.method, call.message)
        /\ pc = "sent" => SameIdentity

\* The error a call ends with, before it is normalized.
Received == IF exchange THEN Wrapped(fault) ELSE fault

\* A result is there between calls only, and an error is the normalized error
\* of the last answer, which calls for no refresh any more unless it was the
\* exchange of the token that was refused.
OutcomeFits ==
    /\ pc # "idle" => outcome = NoOutcome
    /\ pc = "failed" => fault \in Faults
    /\ outcome.kind = "rpc" =>
          /\ fault \in Faults /\ outcome = Normalize(Received)
          /\ exchange \/ ~Refreshes(fault)
    /\ pc # "idle" => ~exchange
    /\ outcome.kind # "rpc" => outcome.code = NoCode

Inv == TypeOK /\ SignedFits /\ OutcomeFits
-----------------------------------------------------------------------------
\* A method that signs has an operation in the signer's table.
LEMMA SigningMethods ==
    ASSUME NEW method, Signs(method)
    PROVE  \E op \in Operations : method = op[1]
BY DEF Signs, Signing, Operations

\* What normalizeRuntimeError returns is an RPC error.
LEMMA NormalizeKind ==
    ASSUME NEW err
    PROVE  Normalize(err).kind = "rpc"
BY DEF Normalize, Outcome

\* The server only remembers nonces that were drawn.
LEMMA ServerRemembers ==
    ASSUME TypeOK, SignedFits, pc = "sent",
           seen' = IF Signs(call.method) THEN seen \cup {signed.nonce} ELSE seen
    PROVE  seen' \subseteq 1..nonce
<1>1. nonce \in Nat /\ seen \subseteq 1..nonce
  BY DEF TypeOK
<1>2. Signs(call.method) => signed.nonce \in 1..nonce
  BY <1>1 DEF SignedFits
<1> QED
  BY <1>1, <1>2

LEMMA InitInv == Init => Inv
<1> SUFFICES ASSUME Init PROVE Inv
  OBVIOUS
<1> USE ClientAssumption DEF Init
<1>1. TypeOK
  <2>1. call \in [method : Methods, message : Messages]
    BY DEF Methods, Bearer
  <2>2. signed.nonce \in 0..nonce /\ seen \subseteq 1..nonce /\ nonce \in Nat
    BY DEF Unsigned
  <2>3. outcome.kind = "none" /\ ~outcome.retryable
    BY DEF NoOutcome, Outcome
  <2>4. exchange \in BOOLEAN
    OBVIOUS
  <2>5. /\ request \in Messages /\ pc = "idle" /\ attempt = 0 /\ calls \in 0..MaxCalls
        /\ invalidates \in BOOLEAN /\ fault \in Faults \cup {NoFault}
    OBVIOUS
  <2> HIDE DEF Init
  <2> QED
    BY <2>1, <2>2, <2>3, <2>4, <2>5 DEF TypeOK
<1>2. SignedFits
  BY DEF SignedFits
<1>3. OutcomeFits
  BY DEF OutcomeFits, NoOutcome, Outcome
<1> QED
  BY <1>1, <1>2, <1>3 DEF Inv

LEMMA StepInv == Inv /\ [Next]_clientVars => Inv'
<1> SUFFICES ASSUME Inv, [Next]_clientVars PROVE Inv'
  OBVIOUS
<1> USE ClientAssumption DEF Inv
<1>1. CASE UNCHANGED clientVars
  BY <1>1 DEF clientVars, TypeOK, SignedFits, OutcomeFits, SameIdentity,
              Refreshes, Received
<1>2. CASE Change
  BY <1>2 DEF Change, TypeOK, SignedFits, OutcomeFits, Refreshes, Received
<1>3. ASSUME NEW method \in Methods, Begin(method) PROVE Inv'
  <2> USE <1>3 DEF Begin, Return, LocalError, NoOutcome, Outcome
  <2>1. call' \in [method : Methods, message : Messages]
    BY DEF TypeOK
  <2>1a. exchange' \in BOOLEAN
    OBVIOUS
  <2>2. TypeOK'
    <3>1. /\ pc' \in {"idle", "token"} /\ attempt' = 0 /\ calls' \in 0..MaxCalls
          /\ fault' \in Faults \cup {NoFault}
          /\ outcome'.kind \in {"none", "local"} /\ ~outcome'.retryable
      BY DEF TypeOK
    <3>2. UNCHANGED <<request, signed, nonce, seen, invalidates>>
      OBVIOUS
    <3> HIDE DEF Begin
    <3> QED
      BY <2>1, <2>1a, <3>1, <3>2 DEF TypeOK
  <2>3. SignedFits' /\ OutcomeFits'
    BY DEF SignedFits, OutcomeFits
  <2> QED
    BY <2>2, <2>3
<1>4. CASE Resubmit
  <2>1. call.method \in Methods /\ Begin(call.method)
    BY <1>4 DEF Resubmit, TypeOK
  <2> QED
    BY <2>1, <1>3
<1>5. CASE GetToken
  <2>1. TypeOK'
    BY <1>5, SigningMethods DEF GetToken, TypeOK
  <2>2. SignedFits' /\ OutcomeFits'
    BY <1>5 DEF GetToken, SignedFits, OutcomeFits, Refreshes, NoOutcome, Outcome
  <2> QED
    BY <2>1, <2>2
<1>6. CASE TokenFails
  BY <1>6 DEF TokenFails, Return, LocalError, Outcome, TypeOK, SignedFits, OutcomeFits
<1>6a. ASSUME NEW err \in Faults, ExchangeRefused(err) PROVE Inv'
  <2>1. /\ outcome' = Normalize(Wrapped(err)) /\ outcome'.kind = "rpc"
        /\ fault' = err /\ exchange' = TRUE /\ pc' = "idle"
    BY <1>6a, NormalizeKind DEF ExchangeRefused, Return
  <2>2. TypeOK'
    BY <1>6a, <2>1 DEF ExchangeRefused, TypeOK
  <2>3. SignedFits'
    BY <1>6a, <2>1 DEF ExchangeRefused, SignedFits
  <2>4. OutcomeFits'
    BY <2>1 DEF OutcomeFits, Received
  <2> QED
    BY <2>2, <2>3, <2>4
<1>7. CASE Sign
  <2>1. PICK op \in Signing :
          /\ call.method = op[1]
          /\ IF SignRules(op[1], op[2], KeyOf(op[1], call.message))
             THEN /\ nonce' = nonce + 1
                  /\ signed' = [nonce |-> nonce + 1, operation |-> op[2],
                                fingerprint |-> Fingerprint(op[1], call.message)]
                  /\ pc' = "check" /\ UNCHANGED outcome
             ELSE Return(LocalError) /\ UNCHANGED <<nonce, signed>>
    BY <1>7 DEF Sign
  <2>2. /\ pc = "sign"
        /\ UNCHANGED <<request, call, attempt, seen, invalidates, fault,
                       exchange, calls>>
    BY <1>7 DEF Sign
  <2>3. TypeOK'
    BY <2>1, <2>2 DEF TypeOK, Return, LocalError, Outcome
  <2>4. SignedFits'
    BY <2>1, <2>2 DEF SignedFits, SignRules, TypeOK, Return
  <2>5. OutcomeFits'
    BY <2>1, <2>2 DEF OutcomeFits, Return, LocalError, Outcome, NoOutcome
  <2> QED
    BY <2>3, <2>4, <2>5
<1>8. CASE Check
  <2>1. TypeOK'
    BY <1>8 DEF Check, TypeOK, Return, LocalError, Outcome
  <2>2. SignedFits'
    BY <1>8 DEF Check, SignedFits, Return, SameIdentity
  <2>3. OutcomeFits'
    BY <1>8 DEF Check, OutcomeFits, Return, LocalError, Outcome, NoOutcome
  <2> QED
    BY <2>1, <2>2, <2>3
<1>9. CASE Succeeds
  <2>0. seen' \subseteq 1..nonce
    BY <1>9, ServerRemembers DEF Succeeds, SignedFits
  <2>1. TypeOK'
    BY <1>9, <2>0 DEF Succeeds, TypeOK, Return, Outcome
  <2>2. SignedFits' /\ OutcomeFits'
    BY <1>9 DEF Succeeds, SignedFits, OutcomeFits, Return, Outcome
  <2> QED
    BY <2>1, <2>2
<1>10. ASSUME NEW err \in Faults, Fails(err) PROVE Inv'
  <2>0. seen' \subseteq 1..nonce
    BY <1>10, ServerRemembers DEF Fails, SignedFits
  <2>1. TypeOK'
    BY <1>10, <2>0 DEF Fails, TypeOK
  <2>2. SignedFits' /\ OutcomeFits'
    BY <1>10 DEF Fails, SignedFits, OutcomeFits, NoOutcome, Outcome
  <2> QED
    BY <2>1, <2>2
<1>11. CASE Retry
  BY <1>11 DEF Retry, TypeOK, SignedFits, OutcomeFits, NoOutcome, Outcome
<1>12. CASE ReturnError
  <2>1. outcome'.kind = "rpc" /\ outcome' = Normalize(fault)
    BY <1>12, NormalizeKind DEF ReturnError, Return
  <2>2. TypeOK'
    BY <1>12, <2>1 DEF ReturnError, Return, TypeOK
  <2>3. SignedFits'
    BY <1>12 DEF ReturnError, Return, SignedFits
  <2>4. OutcomeFits'
    BY <1>12, <2>1 DEF ReturnError, Return, OutcomeFits, Refreshes, Received
  <2> QED
    BY <2>2, <2>3, <2>4
<1> QED
  BY <1>1, <1>2, <1>3, <1>4, <1>5, <1>6, <1>7, <1>8, <1>9, <1>10, <1>11, <1>12, <1>6a
  DEF Next

LEMMA SpecInv == Spec => []Inv
BY InitInv, StepInv, PTL DEF Spec
-----------------------------------------------------------------------------
\* Every variable of the client has its type, in every call and its retry.
THEOREM ClientTypeCorrect == Spec => []TypeOK
<1>1. Inv => TypeOK
  BY DEF Inv
<1> QED
  BY <1>1, SpecInv, PTL

\* The content that ReadIdentity puts in the place of an equal one.
LEMMA SameContent ==
    ASSUME TypeOK, request.content = call.message.content
    PROVE  [request EXCEPT !.content = call.message.content] = request
BY DEF TypeOK, Messages

\* A message that nobody changed passes the identity check.
LEMMA UnchangedPasses ==
    ASSUME TypeOK, request = call.message
    PROVE  SameIdentity
<1>1. request.content = call.message.content
  OBVIOUS
<1>2. [request EXCEPT !.content = call.message.content] = request
  BY <1>1, SameContent
<1>3. Fingerprint(call.method, request) = Fingerprint(call.method, call.message)
  OBVIOUS
<1> QED
  BY <1>2, <1>3 DEF SameIdentity

\* SameIdentity means the same fingerprint, but for the content of
\* ConfirmRegistration, which the client cannot see.
LEMMA IdentityIsFingerprint ==
    ASSUME TypeOK, SameIdentity,
           call.method = "ConfirmRegistration" =>
               request.content = call.message.content
    PROVE  Fingerprint(call.method, request) = Fingerprint(call.method, call.message)
<1>1. CASE call.method = "ConfirmRegistration"
  <2>1. [request EXCEPT !.content = call.message.content] = request
    BY <1>1, SameContent
  <2> QED
    BY <1>1, <2>1 DEF SameIdentity
<1>2. CASE call.method # "ConfirmRegistration"
  BY <1>2 DEF SameIdentity
<1> QED
  BY <1>1, <1>2

\* The server can verify every assertion that invokeAssertion lets out: it is of
\* the message that is sent, for its operation, and under a new nonce.
THEOREM AssertionsVerifyHolds == Spec => []AssertionsVerify
<1>1. Inv => AssertionsVerify
  <2> SUFFICES ASSUME Inv, pc = "sent", Signs(call.method),
                      call.method = "ConfirmRegistration" =>
                          request.content = call.message.content
               PROVE  Verified
    BY DEF AssertionsVerify
  <2>1. /\ signed.nonce \notin seen \cup {0} /\ SameIdentity
        /\ <<call.method, signed.operation>> \in Operations
        /\ signed.fingerprint = Fingerprint(call.method, call.message)
    BY DEF Inv, SignedFits, TypeOK
  <2>2. Fingerprint(call.method, request) = signed.fingerprint
    BY <2>1, IdentityIsFingerprint DEF Inv
  <2>3. Fingerprint(call.method, request) = Expected(call.method, request)
    BY DEF Fingerprint, Expected, Verb, KeyOf, BodyOf
  <2> QED
    BY <2>1, <2>2, <2>3 DEF Verified
<1> QED
  BY <1>1, SpecInv, PTL

\* An error the client receives is one of the forms it knows, and a wrapped one
\* has kept its code and what its ErrorInfo says of retrying.
LEMMA ReceivedFault ==
    ASSUME Inv, outcome.kind = "rpc"
    PROVE  /\ fault \in Fault /\ Received \in Fault
           /\ outcome = Normalize(Received)
           /\ Received.code = fault.code /\ fault.code # NoCode
           /\ Metadata(Received) = Metadata(fault)
<1>1. fault \in Fault /\ outcome = Normalize(Received)
  BY FaultsAssumption DEF Inv, OutcomeFits
<1>2. /\ Wrapped(fault) \in Fault /\ Wrapped(fault).code = fault.code
      /\ Metadata(Wrapped(fault)) = Metadata(fault)
  BY <1>1 DEF Wrapped, Fault, Carriers, Metadata
<1>3. fault.code # NoCode
  BY <1>1 DEF Fault, NoCode, AuthCodes, InviteCodes
<1> QED
  BY <1>1, <1>2, <1>3 DEF Received

\* Whatever the server answers, Retryable never says yes to a hopeless call nor
\* against the server, and passes the server's yes on with the code.
THEOREM RetryIsSoundHolds == Spec => []RetryIsSound
<1>1. Inv => RetryIsSound
  <2> SUFFICES ASSUME Inv, outcome.kind = "rpc"
               PROVE  /\ outcome.retryable =>
                            /\ fault.code \notin InviteCodes \cup AuthCodes
                            /\ Metadata(fault) # "false"
                      /\ (/\ fault.code \notin InviteCodes \cup AuthCodes
                          /\ Metadata(fault) = "true"
                          /\ outcome.code # NoCode) => outcome.retryable
    BY DEF RetryIsSound
  <2> DEFINE err == Received
  <2>1. /\ outcome = Normalize(err) /\ err.code = fault.code
        /\ fault.code # NoCode /\ Metadata(err) = Metadata(fault)
    BY ReceivedFault
  <2> HIDE DEF err
  <2>2. ErrorCode(err) \in {err.code, NoCode} /\ StableCode(err) \in {err.code, NoCode}
    BY DEF StableCode, ErrorCode
  <2>3. StableCode(err) = NoCode => outcome.code = NoCode /\ ~outcome.retryable
    BY <2>1 DEF Normalize, Outcome, StableCode
  <2> QED
    BY <2>1, <2>2, <2>3 DEF Normalize, Outcome, Retryable
<1> QED
  BY <1>1, SpecInv, PTL

\* The application is told the code the server named, in every form that one
\* of the two parsers reads.
THEOREM CodeReachesApplicationHolds == Spec => []CodeReachesApplication
<1>1. Inv => CodeReachesApplication
  <2> SUFFICES ASSUME Inv, outcome.kind = "rpc"
               PROVE  outcome.code =
                        IF \/ fault.carrier \in {"hidden", "metadata"}
                           \/ fault.carrier = "delimited" /\ fault.code \in AuthCodes
                           \/ exchange /\ fault.carrier # "reason"
                        THEN NoCode ELSE fault.code
    BY DEF CodeReachesApplication
  <2>1. /\ fault \in Fault /\ outcome = Normalize(Received)
        /\ fault.code # NoCode
    BY ReceivedFault
  <2>2. fault.carrier \in Carriers
    BY <2>1 DEF Fault
  <2>3. CASE exchange
    <3>1. Received = Wrapped(fault)
      BY <2>3 DEF Received
    <3>2. /\ Wrapped(fault).code = fault.code
          /\ Wrapped(fault).carrier =
                IF fault.carrier = "reason" THEN "reason"
                ELSE IF fault.carrier \in {"mixed", "metadata"} THEN "metadata"
                     ELSE "hidden"
      BY <2>1, <2>2 DEF Wrapped, Carriers, Fault
    <3> QED
      BY <2>1, <2>3, <3>1, <3>2 DEF Normalize, Outcome, StableCode, ErrorCode
  <2>4. CASE ~exchange
    BY <2>1, <2>2, <2>4 DEF Received, Normalize, Outcome, StableCode, ErrorCode, Carriers
  <2> QED
    BY <2>3, <2>4
<1> QED
  BY <1>1, SpecInv, PTL

\* Whoever is told runtime_unauthenticated has had the refresh, if the token
\* source can be invalidated, or was refused the exchange of the token.
THEOREM UnauthenticatedMeansRefreshedHolds ==
    Spec => []UnauthenticatedMeansRefreshed
<1>1. Inv => UnauthenticatedMeansRefreshed
  <2> SUFFICES ASSUME Inv, outcome.code = "runtime_unauthenticated", invalidates,
                      ~exchange
               PROVE  attempt = 1
    BY DEF UnauthenticatedMeansRefreshed
  <2>1. outcome.kind = "rpc" /\ outcome = Normalize(fault) /\ ~Refreshes(fault)
    BY DEF Inv, OutcomeFits, NoCode, Received
  <2>2. ErrorCode(fault) = "runtime_unauthenticated"
    BY <2>1 DEF Normalize, Outcome, AuthCodes
  <2> QED
    BY <2>1, <2>2 DEF Refreshes, Inv, TypeOK
<1> QED
  BY <1>1, SpecInv, PTL

\* The tables of path.go let pass what the typed methods assert.
LEMMA TablesAgree ==
    ASSUME NEW op \in Signing, NEW message
    PROVE  SignRules(op[1], op[2], KeyOf(op[1], message))
<1>1. op \in Operations
  BY DEF Signing, Operations
<1>2. op[1] \in RuntimeMethods /\ <<op[1], op[2]>> \in Operations
  BY <1>1 DEF Operations, RuntimeMethods, QueryMethods
<1>3. op[1] \in QueryMethods => KeyOf(op[1], message) = NoKey
  BY DEF Signing, QueryMethods, KeyOf
<1> QED
  BY <1>2, <1>3 DEF SignRules, Idempotency

\* A typed call is signed whatever it asks for, and the identity check lets an
\* unchanged message pass.
THEOREM ValidCallsAreSentHolds == Spec => ValidCallsAreSent
<1> DEFINE Step == /\ (pc = "sign" /\ pc' # "sign" => pc' = "check")
                   /\ (pc = "check" /\ pc' = "idle" => request # call.message)
<1>1. ASSUME Inv, [Next]_clientVars PROVE [Step]_clientVars
  <2>1. CASE UNCHANGED clientVars
    BY <2>1
  <2>2. CASE Sign
    <3>1. pc = "sign" /\ pc' = "check"
      BY <2>2, TablesAgree DEF Sign
    <3> QED
      BY <3>1
  <2>3. CASE Check
    <3>1. pc = "check" /\ (pc' = "idle" => ~SameIdentity)
      BY <2>3 DEF Check, Return
    <3>2. request = call.message => SameIdentity
      BY <1>1, UnchangedPasses DEF Inv
    <3> QED
      BY <3>1, <3>2
  <2>4. ASSUME NEW method \in Methods, Begin(method) PROVE Step
    BY <2>4 DEF Begin
  <2>5. CASE Resubmit
    <3>1. pc = "idle"
      BY <2>5 DEF Resubmit
    <3> QED
      BY <3>1
  <2>6. CASE Change \/ GetToken \/ TokenFails \/ Succeeds \/ Retry \/ ReturnError
    BY <2>6 DEF Change, GetToken, TokenFails, Succeeds, Retry, ReturnError
  <2>7. ASSUME NEW err \in Faults, Fails(err) PROVE Step
    BY <2>7 DEF Fails
  <2>8. ASSUME NEW err \in Faults, ExchangeRefused(err) PROVE Step
    <3>1. pc = "token"
      BY <2>8 DEF ExchangeRefused
    <3> QED
      BY <3>1
  <2> QED
    BY <1>1, <2>1, <2>2, <2>3, <2>4, <2>5, <2>6, <2>7, <2>8 DEF Next
<1> QED
  BY <1>1, SpecInv, PTL DEF Spec, ValidCallsAreSent
=============================================================================
