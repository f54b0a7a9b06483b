---------------------------- MODULE RuntimeClient ----------------------------
(***************************************************************************)
(* The typed calls of RuntimeClient (runtime_client.go): what they sign    *)
(* (assertion.go), the rules a signature must meet (path.go), the identity *)
(* check of InvokeWithAssertion (client.go) and the error they return.     *)
(*                                                                         *)
(* One goroutine makes calls with one request message, which is the        *)
(* application's: its token source and its signer run inside the call and  *)
(* may change it.  Of the token only the error of its exchange is here,    *)
(* the rest is AuthRetry.  A call whose arguments fail validation for their*)
(* format never begins.                                                    *)
(***************************************************************************)
EXTENDS Naturals

CONSTANTS
    Actors, Keys,       \* actors; idempotency keys
    Contents,           \* prices, order ids, pages, intents: what is asked for
    Faults,             \* errors the server may answer with
    MaxCalls            \* bound: calls

NoKey == "no key"
ASSUME ClientAssumption == NoKey \notin Keys /\ MaxCalls \in Nat

VARIABLES
    request,            \* the message: actor, idempotency key, content
    call,               \* what the call captured when it began
    pc, attempt,
    signed,             \* what ActorAssertion of the message asserts
    nonce,              \* nonces drawn so far
    seen,               \* server: nonces it has seen
    invalidates,        \* the token source implements TokenInvalidator
    fault,              \* the error the server answered with
    exchange,           \* and it answered the exchange of the token so
    outcome,            \* what the call returned
    calls               \* calls so far

clientVars == <<request, call, pc, attempt, signed, nonce, seen, invalidates,
                fault, exchange, outcome, calls>>
-----------------------------------------------------------------------------
(* The tables of path.go.                                                  *)

QueryMethods == {"GetOrder", "GetBalance", "ListLedger", "GetSkuCatalog",
                 "GetOfferCatalog", "ListSiteBranding"}
RuntimeMethods == QueryMethods \cup
    {"ExchangeRuntimeToken", "ResolveRegistration", "ConfirmRegistration",
     "CreateOrder", "VerifyAndConfirmPayment", "SyncIdentity",
     "SyncVerificationStatus", "DisableIdentity"}
Operations ==
    {<<"ConfirmRegistration", "registration:confirm">>,
     <<"CreateOrder", "order:create">>, <<"GetOrder", "order:get">>,
     <<"GetBalance", "balance:get">>, <<"ListLedger", "ledger:list">>}

\* A query carries no idempotency key.
IdempotencyMutant(method, key) ==       \* whatever carries an assertion
    method \notin QueryMethods \cup {"ConfirmRegistration"} \/ key = NoKey
Idempotency(method, key) == method \notin QueryMethods \/ key = NoKey

\* What SignAssertion demands of its input.
SignRules(method, operation, key) ==
    /\ method \in RuntimeMethods
    /\ <<method, operation>> \in Operations
    /\ Idempotency(method, key)

(* The typed methods of runtime_client.go.                                 *)

\* A typed method and the operation it asserts.
Signing ==
    {<<"ConfirmRegistration", "registration:confirm">>,
     <<"CreateOrder", "order:create">>, <<"GetOrder", "order:get">>,
     <<"GetBalance", "balance:get">>, <<"ListLedger", "ledger:list">>}
\* Those that send a Bearer token and nothing else.
Bearer == {"ResolveRegistration", "VerifyAndConfirmPayment", "SyncIdentity",
           "SyncVerificationStatus", "DisableIdentity", "GetSkuCatalog",
           "GetOfferCatalog", "ListSiteBranding"}
Signs(method) == \E op \in Signing : method = op[1]
NeedsKey == {"CreateOrder", "VerifyAndConfirmPayment"}

\* The method component of a fingerprint.
Verb == "GRPC"

\* The idempotency key and the body a method asserts.  The key of
\* ConfirmRegistration is the actor.
KeyOf(method, message) ==
    CASE method = "ConfirmRegistration" -> message.actor
      [] method = "CreateOrder" -> message.key
      [] OTHER -> NoKey
BodyOf(method, message) ==
    IF method = "GetBalance" THEN "{}" ELSE message.content

\* RequestFingerprint, of what a method asserts of a message.
Fingerprint(method, message) ==
    [verb |-> Verb, method |-> method, actor |-> message.actor,
     key |-> KeyOf(method, message), body |-> BodyOf(method, message)]

\* ReadIdentity: the message as it is now, against the call.  The body of
\* ConfirmRegistration comes from the intent the call was given, the rest is
\* read again.
SameIdentityMutant == request.actor = call.message.actor    \* the actor alone
SameIdentity ==
    LET fixed == IF call.method = "ConfirmRegistration"
                 THEN [request EXCEPT !.content = call.message.content] ELSE request
    IN  Fingerprint(call.method, fixed) = Fingerprint(call.method, call.message)
-----------------------------------------------------------------------------
(* Errors.  The server names a code in ErrorInfo ("reason"), in an older   *)
(* form in front of the message ("message", or "mixed" with an ErrorInfo   *)
(* without reason), there with another delimiter than a colon or a space   *)
(* ("delimited"), or where the client does not look: in somebody else's    *)
(* ErrorInfo, or further inside the message, with an ErrorInfo of ours that*)
(* has no reason ("metadata") or without one ("hidden").                   *)

AuthCodes == {"runtime_unauthenticated", "actor_assertion_invalid",
              "actor_assertion_replayed"}
InviteCodes == {"registration_code_not_found", "registration_code_invalid",
                "registration_code_merchant_mismatch", "registration_code_expired"}
Carriers == {"reason", "message", "mixed", "delimited", "metadata", "hidden"}
Fault == [code : AuthCodes \cup InviteCodes \cup {"registration_unavailable", "other"},
          carrier : Carriers, retryable : {"true", "false", "absent"}]
ASSUME FaultsAssumption == Faults \subseteq Fault

\* runtimeErrorInfo: the retryable field of our own ErrorInfo.
Metadata(err) ==
    IF err.carrier \in {"reason", "mixed", "metadata"}
    THEN err.retryable ELSE "absent"

\* exchangeRuntimeToken puts words of its own in front of the message; the
\* ErrorInfo of an error it wraps can still be read.
Wrapped(err) ==
    [err EXCEPT !.carrier = CASE err.carrier = "reason" -> "reason"
                              [] err.carrier \in {"mixed", "metadata"} -> "metadata"
                              [] OTHER -> "hidden"]

NoCode == "no code"

\* ErrorCode: the reason, or an authentication code in front of the message.
ErrorCode(err) ==
    IF \/ err.carrier = "reason"
       \/ err.carrier \in {"message", "mixed"} /\ err.code \in AuthCodes
    THEN err.code ELSE NoCode

\* The code normalizeRuntimeError finds: stableRuntimeCodeFromMessage looks at
\* every code in front of the message, whatever comes after it.
StableCode(err) ==
    IF ErrorCode(err) # NoCode THEN ErrorCode(err)
    ELSE IF err.carrier \in {"message", "mixed", "delimited"} THEN err.code ELSE NoCode

\* runtimeRetryable: an invite code is never retryable, otherwise the server
\* knows, and if it does not say registration_unavailable is.
RetryableMutant(err, code) ==           \* the server's word comes first
    \/ Metadata(err) = "true"
    \/ Metadata(err) = "absent" /\ code = "registration_unavailable"
Retryable(err, code) ==
    /\ code \notin InviteCodes
    /\ \/ Metadata(err) = "true"
       \/ Metadata(err) = "absent" /\ code = "registration_unavailable"

Outcome(kind, code, retryable) == [kind |-> kind, code |-> code, retryable |-> retryable]
NoOutcome == Outcome("none", NoCode, FALSE)

\* normalizeRuntimeError: an authentication code, or none, leaves the error as
\* it is, and then it has no Retryable.
NormalizeMutant(err) ==                 \* every code is wrapped
    Outcome("rpc", StableCode(err),
            StableCode(err) # NoCode /\ Retryable(err, StableCode(err)))
NormalizeLateMutant(err) ==             \* the message is not looked at
    IF ErrorCode(err) \in AuthCodes \cup {NoCode}
    THEN Outcome("rpc", ErrorCode(err), FALSE)
    ELSE Outcome("rpc", ErrorCode(err), Retryable(err, ErrorCode(err)))
Normalize(err) ==
    IF StableCode(err) \in AuthCodes \cup {NoCode}
    THEN Outcome("rpc", ErrorCode(err), FALSE)
    ELSE Outcome("rpc", StableCode(err), Retryable(err, StableCode(err)))
-----------------------------------------------------------------------------
Messages == [actor : Actors, key : Keys \cup {NoKey}, content : Contents]
Methods == {op[1] : op \in Signing} \cup Bearer
NoFault == [code |-> NoCode, carrier |-> "none", retryable |-> "absent"]
Unsigned == [nonce |-> 0]

Init ==
    /\ request \in Messages
    /\ call = [method |-> "GetSkuCatalog", message |-> request]
    /\ pc = "idle" /\ attempt = 0
    /\ signed = Unsigned /\ nonce = 0 /\ seen = {}
    /\ invalidates \in BOOLEAN
    /\ fault = NoFault /\ exchange = FALSE
    /\ outcome = NoOutcome /\ calls = 0

\* The application fills the message between two calls; during a call its
\* token source, and its signer, run and may do so too.
Change ==
    /\ pc \in {"idle", "token", "sign"}
    /\ request' \in Messages
    /\ UNCHANGED <<call, pc, attempt, signed, nonce, seen, invalidates, fault,
                   exchange, outcome, calls>>

Return(result) == pc' = "idle" /\ outcome' = result
LocalError == Outcome("local", NoCode, FALSE)

\* A typed method is called.  Without the key it needs it goes no further.
Begin(method) ==
    /\ pc = "idle" /\ calls < MaxCalls
    /\ calls' = calls + 1 /\ attempt' = 0
    /\ fault' = NoFault /\ exchange' = FALSE
    /\ call' = [method |-> method, message |-> request]
    /\ IF method \in NeedsKey /\ request.key = NoKey
       THEN Return(LocalError)
       ELSE pc' = "token" /\ outcome' = NoOutcome
    /\ UNCHANGED <<request, signed, nonce, seen, invalidates>>

\* The application follows Retryable: the same call again.
Resubmit == pc = "idle" /\ outcome.retryable /\ Begin(call.method)

GetToken ==
    /\ pc = "token"
    /\ pc' = IF Signs(call.method) THEN "sign" ELSE "sent"
    /\ UNCHANGED <<request, call, attempt, signed, nonce, seen, invalidates,
                   fault, exchange, outcome, calls>>

\* There is no token, and no answer of the server is to blame.
TokenFails ==
    /\ pc = "token"
    /\ Return(LocalError)
    /\ UNCHANGED <<request, call, attempt, signed, nonce, seen, invalidates,
                   fault, exchange, calls>>

\* The server refuses the exchange of the token: the call ends with that error,
\* and nothing is refreshed, whatever its code.
ExchangeRefused(err) ==
    /\ pc = "token"
    /\ fault' = err /\ exchange' = TRUE
    /\ Return(Normalize(Wrapped(err)))
    /\ UNCHANGED <<request, call, attempt, signed, nonce, seen, invalidates, calls>>

\* SignAssertion, of the input captured when the call began; ApplyAssertion
\* puts the result in the message.
Sign ==
    /\ pc = "sign"
    /\ \E op \in Signing :
          /\ call.method = op[1]
          /\ IF SignRules(op[1], op[2], KeyOf(op[1], call.message))
             THEN /\ nonce' = nonce + 1
                  /\ signed' = [nonce |-> nonce + 1, operation |-> op[2],
                                fingerprint |-> Fingerprint(op[1], call.message)]
                  /\ pc' = "check" /\ UNCHANGED outcome
             ELSE Return(LocalError) /\ UNCHANGED <<nonce, signed>>
    /\ UNCHANGED <<request, call, attempt, seen, invalidates, fault,
                   exchange, calls>>

Check ==
    /\ pc = "check"
    /\ IF SameIdentity THEN pc' = "sent" /\ UNCHANGED outcome
                       ELSE Return(LocalError)
    /\ UNCHANGED <<request, call, attempt, signed, nonce, seen, invalidates,
                   fault, exchange, calls>>

(* The server, by its contract: the operation, the fingerprint and the     *)
(* nonce of an assertion.                                                  *)

Expected(method, message) ==
    [verb |-> "GRPC", method |-> method, actor |-> message.actor,
     key |-> IF method = "ConfirmRegistration" THEN message.actor
             ELSE IF method = "CreateOrder" THEN message.key ELSE NoKey,
     body |-> IF method = "GetBalance" THEN "{}" ELSE message.content]

Verified ==
    /\ signed.nonce \notin seen \cup {0}
    /\ <<call.method, signed.operation>> \in Operations
    /\ signed.fingerprint = Expected(call.method, request)

\* It answers, or fails; with an assertion it cannot verify it has to.
Succeeds ==
    /\ pc = "sent"
    /\ Signs(call.method) => Verified
    /\ seen' = IF Signs(call.method) THEN seen \cup {signed.nonce} ELSE seen
    /\ Return(Outcome("ok", NoCode, FALSE))
    /\ UNCHANGED <<request, call, attempt, signed, nonce, invalidates, fault,
                   exchange, calls>>

Fails(err) ==
    /\ pc = "sent"
    /\ seen' = IF Signs(call.method) THEN seen \cup {signed.nonce} ELSE seen
    /\ fault' = err
    /\ pc' = "failed"
    /\ UNCHANGED <<request, call, attempt, signed, nonce, invalidates, exchange,
                   outcome, calls>>

(* The rest of Invoke and InvokeWithAssertion.                             *)

Refreshes(err) ==
    ErrorCode(err) = "runtime_unauthenticated" /\ attempt = 0 /\ invalidates

Retry ==
    /\ pc = "failed" /\ Refreshes(fault)
    /\ attempt' = 1 /\ pc' = "token"
    /\ UNCHANGED <<request, call, signed, nonce, seen, invalidates, fault,
                   exchange, outcome, calls>>

ReturnError ==
    /\ pc = "failed" /\ ~Refreshes(fault)
    /\ Return(Normalize(fault))
    /\ UNCHANGED <<request, call, attempt, signed, nonce, seen, invalidates,
                   fault, exchange, calls>>

Next ==
    \/ Change \/ Resubmit \/ \E method \in Methods : Begin(method)
    \/ GetToken \/ TokenFails \/ Sign \/ Check
    \/ Succeeds \/ \E err \in Faults : Fails(err) \/ ExchangeRefused(err)
    \/ Retry \/ ReturnError

Spec == Init /\ [][Next]_clientVars
-----------------------------------------------------------------------------
(* What the typed client promises.                                         *)

\* Every variable has its type; only the methods that assert an actor sign,
\* and an assertion's nonce was drawn for it.
TypeOK ==
    /\ request \in Messages
    /\ call \in [method : Methods, message : Messages]
    /\ pc \in {"idle", "token", "sign", "check", "sent", "failed"}
    /\ pc \in {"sign", "check"} => \E op \in Operations : call.method = op[1]
    /\ attempt \in {0, 1} /\ calls \in 0..MaxCalls
    /\ nonce \in Nat /\ signed.nonce \in 0..nonce /\ seen \subseteq 1..nonce
    /\ invalidates \in BOOLEAN
    /\ fault \in Faults \cup {NoFault} /\ exchange \in BOOLEAN
    /\ outcome.kind \in {"none", "ok", "local", "rpc"}
    /\ outcome.retryable => outcome.kind = "rpc"

\* The server can verify every assertion that leaves: fingerprint and operation
\* fit the message as it is sent, though callbacks may have changed it since it
\* was signed, and the nonce is new, also in the retry and when the message is
\* used for another call.  What the intent token of ConfirmRegistration stands
\* for the client cannot see.
AssertionsVerify ==
    (/\ pc = "sent" /\ Signs(call.method)
     /\ (call.method = "ConfirmRegistration" =>
            request.content = call.message.content)) => Verified

\* The tables agree: what a typed method asserts, SignAssertion signs; and the
\* identity check turns a call back only if its message was changed.
ValidCallsAreSent ==
    [][/\ (pc = "sign" /\ pc' # "sign" => pc' = "check")
       /\ (pc = "check" /\ pc' = "idle" => request # call.message)]_clientVars

\* Whatever form the server names its code in, the application is told that
\* code; a code of somebody else's never.  (An authentication code with another
\* delimiter than a colon or a space behind it stays unread, and so does a code
\* in the message of a refused token exchange, which has exchangeRuntimeToken's
\* own words in front.)
CodeReachesApplication ==
    outcome.kind = "rpc" =>
        outcome.code =
            IF \/ fault.carrier \in {"hidden", "metadata"}
               \/ fault.carrier = "delimited" /\ fault.code \in AuthCodes
               \/ exchange /\ fault.carrier # "reason"
            THEN NoCode ELSE fault.code

\* An application that calls again while Retryable says so never repeats a call
\* with a hopeless invite code, nor one the server said not to repeat; and it
\* does repeat what the server called retryable, if the code has reached it.
RetryIsSound ==
    outcome.kind = "rpc" =>
        /\ outcome.retryable =>
              /\ fault.code \notin InviteCodes \cup AuthCodes
              /\ Metadata(fault) # "false"
        /\ (/\ fault.code \notin InviteCodes \cup AuthCodes
            /\ Metadata(fault) = "true"
            /\ outcome.code # NoCode) => outcome.retryable

\* Who is told runtime_unauthenticated has had the one refresh, in whatever form
\* the code comes: the loop reads it as the returned error does.  The exception
\* is a token that the server refuses to exchange.  Nothing is refreshed then,
\* and the error looks the same; after the refresh it ends the call too.
UnauthenticatedMeansRefreshed ==
    outcome.code = "runtime_unauthenticated" /\ invalidates =>
        attempt = 1 \/ exchange
=============================================================================
