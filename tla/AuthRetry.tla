------------------------------ MODULE AuthRetry ------------------------------
(***************************************************************************)
(* One authenticated call and its single retry: AuthenticatedClient.Invoke *)
(* and InvokeWithAssertion (client.go) and GatewayClient.doInvocation      *)
(* (gateway.go), composed with the token cache they share.                 *)
(*                                                                         *)
(* The three loops have one shape: Token, sign, send; on the stable code   *)
(* runtime_unauthenticated, and only then, Invalidate and go round once    *)
(* more.  Token is the Token of TokenCache, step by step, so every         *)
(* interleaving of the calls, of their exchanges and of the server's       *)
(* revocations is there.  Argument checks that return before the first     *)
(* Token call touch nothing shared: a call that fails them never begins.   *)
(***************************************************************************)
EXTENDS TokenCache, FiniteSets

\* Invoke; InvokeWithAssertion without a ReadIdentity, and doInvocation, whose
\* body nobody else holds; InvokeWithAssertion with one.
Kinds == {"plain", "signed", "checked"}

CONSTANTS
    Loops,              \* the kinds of call the callers may make
    MaxRevocations      \* bound: revocations by the server

ASSUME AuthAssumption ==
    Loops \subseteq [Callers -> Kinds] /\ MaxRevocations \in Nat

VARIABLES
    phase,          \* where each caller is in its call
    kind,           \* which loop it runs, see Kinds
    attempt,        \* the loop counter
    invalidates,    \* the token source implements TokenInvalidator
    changed,        \* Args no longer has the identity the call declared
    assertion,      \* the assertion in Args, see Assertions
    code,           \* the error the latest attempt ended with
    result,         \* how the caller's latest call ended
    revoked,        \* server: generations up to this one are refused
    revocations,    \* server: how many revocations so far
    executed,       \* server: executions of the caller's latest call
    rejectedGen     \* history: generation refused at the first attempt

callVars == <<phase, kind, attempt, changed, assertion, code, result, executed,
              rejectedGen>>
serverVars == <<revoked, revocations>>
authVars == <<phase, kind, attempt, invalidates, changed, assertion, code, result,
              revoked, revocations, executed, rejectedGen>>
allVars == <<cacheVars, authVars>>

\* Not sent so far; sent; sent, and left there by ApplyAssertion ever since.
Assertions == {"unsent", "sent", "left"}
Phases == {"idle", "token", "sign", "send", "sent", "failed", "retry"}
Codes == {"none", "runtime_unauthenticated", "other"}
Results == {"none", "ok", "identity_error"} \cup Codes

\* The server takes a token that is neither revoked nor expired.
ServerAccepts(token) == token.gen > revoked /\ token.exp > clock
-----------------------------------------------------------------------------
AuthInit ==
    /\ Init
    /\ phase = [c \in Callers |-> "idle"]
    /\ kind \in Loops
    /\ attempt = [c \in Callers |-> 0]
    /\ invalidates \in BOOLEAN
    /\ changed = [c \in Callers |-> FALSE]
    /\ assertion = [c \in Callers |-> "unsent"]
    /\ code = [c \in Callers |-> "none"]
    /\ result = [c \in Callers |-> "none"]
    /\ revoked = 0 /\ revocations = 0
    /\ executed = [c \in Callers |-> 0]
    /\ rejectedGen = [c \in Callers |-> 0]

\* The call ends and the caller is told r.
Finish(c, r) ==
    /\ phase' = [phase EXCEPT ![c] = "idle"]
    /\ result' = [result EXCEPT ![c] = r]

\* A call begins its first attempt.  Room is kept for the retry's Token call.
BeginCall(c, ctxDone) ==
    /\ phase[c] = "idle" /\ calls[c] + 2 <= MaxCalls
    /\ BeginToken(c, ctxDone)
    /\ phase' = [phase EXCEPT ![c] = "token"]
    /\ attempt' = [attempt EXCEPT ![c] = 0]
    /\ changed' = [changed EXCEPT ![c] = FALSE]
    /\ assertion' = [assertion EXCEPT ![c] = "unsent"]
    /\ code' = [code EXCEPT ![c] = "none"]
    /\ result' = [result EXCEPT ![c] = "none"]
    /\ executed' = [executed EXCEPT ![c] = 0]
    /\ rejectedGen' = [rejectedGen EXCEPT ![c] = 0]
    /\ UNCHANGED <<kind, invalidates, serverVars>>

\* The second attempt asks the same source, with the same context.
BeginRetry(c) ==
    /\ phase[c] = "retry"
    /\ BeginToken(c, cancelled[c])
    /\ phase' = [phase EXCEPT ![c] = "token"]
    /\ UNCHANGED <<kind, attempt, invalidates, changed, assertion, code, result,
                   serverVars, executed, rejectedGen>>

\* Token is at work for the call.
InsideToken(c) ==
    /\ phase[c] = "token"
    /\ JoinFlight(c) \/ StartFlight(c) \/ ExchangeStep(c)
    /\ UNCHANGED authVars

\* Token returns.  Its error is the call's, at once, also when the exchange
\* itself was refused with runtime_unauthenticated, which token.go:251 wraps.
TokenReturns(c) ==
    /\ phase[c] = "token"
    /\ Return(c)
    /\ \/ /\ outcome'[c] = "token"
          /\ phase' = [phase EXCEPT ![c] =
                          IF kind[c] = "plain" THEN "send" ELSE "sign"]
          /\ UNCHANGED result
       \/ outcome'[c] # "token" /\ Finish(c, "other")
       \/ outcome'[c] = "exchange_error" /\ Finish(c, "runtime_unauthenticated")
    /\ UNCHANGED <<kind, attempt, invalidates, changed, assertion, code, serverVars,
                   executed, rejectedGen>>

\* The call has a ReadIdentity, and it no longer finds the declared key and
\* fingerprint in Args.
IdentityLostMutant(c, changes) == FALSE     \* checked before the loop only
IdentityLost(c, changes) == kind[c] = "checked" /\ (changed[c] \/ changes)

\* A fresh assertion is signed.  InvokeWithAssertion then runs the caller's
\* ApplyAssertion on Args -- the caller's code, which may change more than the
\* assertion field, or leave in it what is there -- and reads the identity back
\* before anything is sent.  (doInvocation always stores and changes nothing.)
Sign(c, changes, stores) ==
    /\ phase[c] = "sign"
    /\ changed' = [changed EXCEPT ![c] = @ \/ changes]
    /\ assertion' = [assertion EXCEPT ![c] =
                        IF stores THEN "unsent"
                        ELSE IF @ = "sent" THEN "left" ELSE @]
    /\ IF IdentityLost(c, changes) THEN Finish(c, "identity_error")
       ELSE /\ phase' = [phase EXCEPT ![c] = "send"]
            /\ UNCHANGED result
    /\ UNCHANGED <<cacheVars, kind, attempt, invalidates, code, serverVars,
                   executed, rejectedGen>>

\* The token is no Bearer token, or Sign, ApplyAssertion or ReadIdentity fails.
SignFails(c) ==
    /\ phase[c] = "sign"
    /\ Finish(c, "other")
    /\ UNCHANGED <<cacheVars, kind, attempt, invalidates, changed, assertion, code,
                   serverVars, executed, rejectedGen>>

\* The request leaves with the Bearer token and the assertion.
Send(c) ==
    /\ phase[c] = "send"
    /\ phase' = [phase EXCEPT ![c] = "sent"]
    /\ assertion' = [assertion EXCEPT ![c] = "sent"]
    /\ UNCHANGED <<cacheVars, kind, attempt, invalidates, changed, code, result,
                   serverVars, executed, rejectedGen>>

\* The attempt fails on the client's side with error e.
Fails(c, e) ==
    /\ phase' = [phase EXCEPT ![c] = "failed"]
    /\ code' = [code EXCEPT ![c] = e]

\* The server refuses the token before doing anything, and says so.
ServerRejects(c) ==
    /\ phase[c] = "sent" /\ ~ServerAccepts(got[c])
    /\ Fails(c, "runtime_unauthenticated")
    /\ UNCHANGED <<cacheVars, kind, attempt, invalidates, changed, assertion,
                   result, serverVars, executed, rejectedGen>>

\* The attempt fails with anything else: another code, a broken connection,
\* the context.  The server may have executed the request before its answer
\* was lost.
NoAnswer(c) ==
    /\ phase[c] = "sent"
    /\ Fails(c, "other")
    /\ \/ UNCHANGED executed
       \/ /\ ServerAccepts(got[c])
          /\ executed' = [executed EXCEPT ![c] = @ + 1]
    /\ UNCHANGED <<cacheVars, kind, attempt, invalidates, changed, assertion,
                   result, serverVars, rejectedGen>>

\* The server executes the request and its answer reaches the caller.
Answered(c) ==
    /\ phase[c] = "sent" /\ ServerAccepts(got[c])
    /\ executed' = [executed EXCEPT ![c] = @ + 1]
    /\ Finish(c, "ok")
    /\ UNCHANGED <<cacheVars, kind, attempt, invalidates, changed, assertion, code,
                   serverVars, rejectedGen>>

\* The loop goes round again: the stable code, at the first attempt, from a
\* source that can invalidate.
RetriesAnyErrorMutant(c) == attempt[c] = 0 /\ invalidates
Retries(c) ==
    code[c] = "runtime_unauthenticated" /\ attempt[c] = 0 /\ invalidates

\* First refusal: drop the cached token, whichever it is by now, and go round.
Retry(c) ==
    /\ phase[c] = "failed" /\ Retries(c)
    /\ Invalidate
    /\ phase' = [phase EXCEPT ![c] = "retry"]
    /\ attempt' = [attempt EXCEPT ![c] = @ + 1]
    /\ rejectedGen' = [rejectedGen EXCEPT ![c] = got[c].gen]
    /\ UNCHANGED <<kind, invalidates, changed, assertion, code, result,
                   serverVars, executed>>

\* Any other error, a second refusal, or a source that cannot invalidate: the
\* error is the call's.
GiveUp(c) ==
    /\ phase[c] = "failed" /\ ~Retries(c)
    /\ Finish(c, code[c])
    /\ UNCHANGED <<cacheVars, kind, attempt, invalidates, changed, assertion, code,
                   serverVars, executed, rejectedGen>>

\* The server revokes every token it has minted, a token whose reply has not
\* been stored by the client yet included.
Revoke ==
    /\ revocations < MaxRevocations
    /\ revocations' = revocations + 1
    /\ revoked' = IF \E c \in Callers : pc[c] = "commit"
                  THEN Len(flights) ELSE newest
    /\ UNCHANGED <<cacheVars, callVars, invalidates>>

Environment == Tick \/ \E c \in Callers : Cancel(c)

CallStep(c) ==
    \/ BeginRetry(c) \/ InsideToken(c) \/ TokenReturns(c)
    \/ \E changes, stores \in BOOLEAN : Sign(c, changes, stores)
    \/ SignFails(c) \/ Send(c)
    \/ ServerRejects(c) \/ NoAnswer(c) \/ Answered(c)
    \/ Retry(c) \/ GiveUp(c)

AuthNext ==
    \/ Environment /\ UNCHANGED authVars
    \/ Revoke
    \/ \E c \in Callers :
          \/ \E ctxDone \in BOOLEAN : BeginCall(c, ctxDone)
          \/ CallStep(c)

AuthSpec == AuthInit /\ [][AuthNext]_allVars

\* A goroutine that can run runs.  An RPC or a request ends when its context
\* does, but nothing promises that the server answers one whose context lives.
OwnStep(c) ==
    \/ BeginRetry(c) \/ TokenReturns(c)
    \/ /\ phase[c] = "token" /\ UNCHANGED authVars
       /\ JoinFlight(c) \/ StartFlight(c) \/ SendExchange(c)
    \/ \E changes, stores \in BOOLEAN : Sign(c, changes, stores)
    \/ SignFails(c) \/ Send(c) \/ Retry(c) \/ GiveUp(c)
ContextEnds(c) ==
    /\ cancelled[c]
    /\ \/ phase[c] = "token" /\ ExchangeFailed(c) /\ UNCHANGED authVars
       \/ NoAnswer(c)

AuthFairSpec ==
    /\ AuthSpec
    /\ \A c \in Callers : WF_allVars(OwnStep(c)) /\ WF_allVars(ContextEnds(c))
-----------------------------------------------------------------------------
(* What a call promises.                                                   *)

\* Every variable of a call has its type, and Token is active only in the
\* phase that called it.
AuthTypeOK ==
    /\ phase \in [Callers -> Phases]
    /\ kind \in [Callers -> Kinds]
    /\ attempt \in [Callers -> {0, 1}]
    /\ invalidates \in BOOLEAN
    /\ changed \in [Callers -> BOOLEAN]
    /\ assertion \in [Callers -> Assertions]
    /\ code \in [Callers -> Codes]
    /\ result \in [Callers -> Results]
    /\ revoked \in Nat /\ revocations \in Nat
    /\ executed \in [Callers -> Nat]
    /\ rejectedGen \in [Callers -> Nat]

\* The token of the second attempt comes from a later exchange than the one
\* the server refused, whatever the other callers invalidated, exchanged or
\* were still waiting for in between: the one retry is never spent on the
\* refused token.
RetryUsesNewerToken ==
    \A c \in Callers :
        attempt[c] = 1 /\ phase[c] \in {"sign", "send", "sent", "failed"}
            => got[c].gen > rejectedGen[c]

\* The retry never executes a request twice, and what the caller is told is
\* what happened: "ok" is one execution, runtime_unauthenticated none.
ResultMatchesExecution ==
    \A c \in Callers :
        /\ executed[c] <= 1
        /\ result[c] = "ok" => executed[c] = 1
        /\ result[c] = "runtime_unauthenticated" => executed[c] = 0

\* No attempt sends an assertion that an earlier one sent, except one that the
\* caller's own ApplyAssertion left in Args; and a call with a ReadIdentity
\* sends nothing once Args lost the declared idempotency key or fingerprint,
\* whatever the callback did to them, at either attempt.  (client.go:88-96)
AssertionDiscipline ==
    [][\A c \in Callers :
          phase[c] = "send" /\ phase'[c] = "sent" =>
              /\ kind[c] # "plain" => assertion[c] # "sent"
              /\ kind[c] = "checked" => ~changed[c]]_allVars

\* A refusal storm is bounded: of all tokens ever fetched, at most one more is
\* still usable than Invalidate was called -- callers that are refused
\* together cause at most one exchange each, and callers that are not cause
\* none.
LiveTokensBounded ==
    Cardinality({i \in DOMAIN flights : UsableAt(flights[i].token, clock)})
        <= 1 + invalidations

\* If exchanges and requests end, every call returns, through at most one
\* retry, those that wait for another's exchange included.  (client.go:60-85)
CallReturns ==
    (\A c \in Callers : []<>(pc[c] # "rpc") /\ []<>(phase[c] # "sent"))
        => \A c \in Callers : phase[c] # "idle" ~> phase[c] = "idle"

\* A call whose context ends returns, even if the server never answers anybody:
\* a waiter gives up on an exchange that its leader goes on waiting for.
\* (CachedTokenSource.Token, token.go:183-191)
CancelledCallReturns ==
    \A c \in Callers : phase[c] # "idle" /\ cancelled[c] ~> phase[c] = "idle"
=============================================================================
