# A TLA+ development of musereel-sdk

The Go SDK for MuseReel instances talks to two services: the runtime control
plane (gRPC over mTLS) and the invocation gateway (HTTP).  This directory holds
TLA+ models of the parts of the SDK that keep state or take more than one step,
the TLC runs that check them on small instances, and TLAPS proofs of their main
promises for every instance.  `PROJECT.json` maps every definition that models
code to the lines it models, and lists runs, mutants, hazards, findings and
theorems.

## 1. The system

| Component | Source | State | Operations | Interacts with |
|---|---|---|---|---|
| Token cache | `token.go` | cached token, current `tokenRefresh`, mutex | `Token`, `Invalidate`, exchange | clock, runtime server, every authenticated call |
| Authenticated call | `client.go`, `gateway.go` `doInvocation`, `errors.go` | loop counter, the call's assertion | `Invoke`, `InvokeWithAssertion`, `doInvocation` | token cache, signer, `ApplyAssertion` callback, both servers |
| SSE stream | `sse.go` | parser fields, order flags, pinned ids, `closed`, mutex | `Next`, `Close`, `Terminal`, `Pending` | the body of a create response |
| Poller | `gateway.go` 356-481 | `etag`, `nextPoll`, mutex | `Poll`, `ETag` | `GetWithETag`, the gateway's snapshots |
| Create and its errors | `gateway.go` 230-338, `gateway_errors.go` | none kept; the error carries the recovered id | `CreateAsync`, `CreateStream`, `IsRetryable` | the server's idempotency table, the application's retry loop |
| Cancel, artifact download, snapshots | `gateway.go` | none | `Cancel`, `DownloadArtifact`, `GetWithETag`, snapshot rules | `doInvocation` |
| Request validation, gateway paths | `gateway.go`, `path.go` | none | `Validate`, `CanonicalGatewayPath`, key rule | `jcs` |
| Runtime client | `runtime_client.go` | none; the application's request message | typed RPC methods, error table | `InvokeWithAssertion`, the signer, the application's retry |
| Assertions, paths | `assertion.go`, `path.go` | none | `SignAssertion`, `RequestFingerprint`, path and idempotency rules | `jcs`, signer |
| Canonical JSON | `jcs/jcs.go` | none | `CanonicalizeJSON` | assertions |
| mTLS | `mtls.go` | certificate files | `NewTLSConfig`, per-handshake reload | the file system |
| Conformance harness | `conformance/conformance.go` | one run's progress, its markers on the console | `run` | every operation of the SDK, a live deployment |
| Secrets, generated code, scripts | `secret.go`, `runtime/`, `scripts/` | none of its own | | |

What is hard, and what makes each part correct:

- **Token cache.** The clock is read before the lock, the exchange runs outside
  it, waiters wake late, `Invalidate` comes at any time.  Correct means: one
  exchange at a time, one result for all who waited, nobody is left waiting,
  nobody is given a token that was discarded or superseded before the call
  began, no exchange without need, every cancelled call returns.
- **Authenticated call.** One retry, only after `runtime_unauthenticated`, over
  a cache that other callers fill and drop meanwhile, and callbacks that may
  change the message or leave the last assertion in it.  Correct means: the retry
  carries a newer token, a request is never executed twice, the SDK itself repeats
  no assertion, and a call that asked for the identity check is only sent with the
  identity it declared.
- **SSE stream.** Frames in any order, bad lines, a body that ends or breaks
  inside a frame, `Close` while another goroutine reads.  Correct means: the
  events handed out are a legal life of one invocation, nothing legal is turned
  away, flags agree with what was handed out, the end of the body frees
  everybody.
- **Poller.** Goroutines share a validator and a poll time.  Correct means:
  versions ascend, the validator is what was delivered, `Retry-After` is kept,
  a cancelled call gives the mutex back, waiting or sending.
- **Create.** Answers that are lost, out of place or only partly readable, errors
  before a request leaves.  Correct means:
  the id returned is the stored one, an application that follows `IsRetryable`
  neither creates twice nor gives up blindly.

- **Runtime client.** Values captured before callbacks run, three tables that
  must agree, two parsers of error codes.  Correct means: what leaves can be
  verified against the message it leaves with, a valid call is sent, the code
  and its retryability reach the application in every form a server uses.
- **Gateway request.** Four places look at the same call: the client's checks,
  the path builder, the canonicalizer and the signer.  Correct means: what passes
  the first is not refused by the last for anything the first should have named,
  different requests never share a fingerprint, equal ones always do, and the
  server's own canonicalizer agrees.
- **Certificate reload.** Two files are read at each handshake while they are
  replaced.  Correct means: a handshake presents the one current pair or fails.
- **Conformance run.** Its verdict and its markers are evidence for a release.
  Correct means: a pass certifies what it claims, a marker has its leg, a failure
  has a reason, and the run ends.

## 2. Plan

Modules, in the order of importance; all of them are written.

1. `TokenCache` (core); proofs.
2. `AuthRetry`, composing the cache with the calls; proofs.
3. `SSEProtocol` (abstract) and `SSEStream` (detailed); proofs.
4. `GatewayPoller`; proofs.
5. `GatewayCreate`; proofs.
6. `RuntimeClient`; proofs.
7. `GatewayResponses` (operators) and `Conformance`, which composes the life of
   an invocation -- moderation, create, poll, replay, download, cancel -- over one
   deployment; proofs.
8. `CertificatePair` (abstract) and `MTLSReload` (detailed); proofs.
9. `GatewayPath` (addresses and lines), `CanonicalJSON` (documents by their
   places; proofs) and `GatewayRequest`, which takes a call through the client's
   checks, the signature and a handshake of `MTLSReload`; proofs of all three.

## 3. The modules

### TokenCache (`token.go`)

`Token(ctx)` is cut where the code can be interrupted: `BeginToken` reads the
clock (before the lock); `ReturnCached`, `JoinFlight` and `StartFlight` are the
first critical section; `SendExchange`, `ExchangeAnswered` and `ExchangeFailed`
are the RPC outside the lock, with its second clock reading; `Commit` is the
second critical section together with `close(done)`; `WaitDone` and
`WaitCancelled` are the two branches of the `select`.  `Invalidate` is one step.
`flights` holds every `tokenRefresh` ever created, so that a waiter can hold one
that is no longer current; a token is named by the flight that fetched it.
`newest` and `floor` are history: what was already superseded when a call began.

### AuthRetry (`client.go`, `gateway.go` `doInvocation`)

EXTENDS `TokenCache`; a call's `Token` is that module's `Token`, step by step
(`InsideToken`, `BeginRetry`, `TokenReturns`), so a call is interleaved with
other calls' exchanges and with `Revoke` by the server.  `kind` is the loop a
call runs: `Invoke`; `InvokeWithAssertion` without a `ReadIdentity`, or
`doInvocation`; `InvokeWithAssertion` with one, which alone reads the identity
back (`IdentityLost`).  `changed` is what an `ApplyAssertion` callback did to the
declared identity, `assertion` what it did with the assertion of this attempt:
store it, or leave in `Args` the one an earlier attempt sent (`Sign`).
`invalidates` is whether the token source is a `TokenInvalidator`.  A call takes
the cache's own steps and no other, so that what is proved of the cache carries
over (`CacheStep` in the proofs) holds by the shape of the composition and is no
property of its own.

### SSEProtocol and SSEStream (`sse.go`)

`SSEProtocol` is what a consumer may rely on: two variables, the delivered
events and whether `io.EOF` was returned, and one predicate, `Legal`.
`SSEStream` is the code: a queue of received items (field lines, blank line, a
line that is not UTF-8), the lines waiting for their blank line (`fields`), the
flags and pins of `dispatchEvent`/`validateEventOrder`, the mutex `Next` holds
while it blocks, and `Close`, which does not take it and whose effect on the
buffered bytes is a choice of how much `bufio` had taken over.  A frame is a
record of what the checks tell apart; a second set of lines on waiting ones is
no document (`Accumulate`).  Pins move before the order check, as in the code.

### GatewayPoller (`gateway.go` 356-481)

`Lock` takes the mutex and computes the wait; `Send`, the server's answer and
`Arrives` follow under the mutex; `WaitCancelled` and `GetFails` are the early
returns.  The HTTP client has no timeout
(`newGatewayHTTPClient`), so a GET ends by its answer or by its context and by
nothing else.  `Update` is the assignment to `etag` and `nextPoll`, after success
only.  The server (external) answers from its current version.  `asked` is
history: when the last response, failed ones included, allows the next GET.

### GatewayCreate (`gateway.go` 230-338, `gateway_errors.go`)

`CreateResult` is the whole reading of a response, `Recovered` the id that is
saved from a half-readable 202, `OutOfPlace` the branches for a status or a content
type that the mode does not expect, which drop a `Location` unread, and
`RetryableByCode` the table behind `IsRetryable`.  `LocalError` is `doInvocation`
failing in `ActorFunc`, the token source or the signer: a plain error that
`IsRetryable` knows nothing of.  Server and application are external: one
invocation per key, answers with one part missing, wrong or out of place, requests
and answers lost or late, an application that resubmits while `IsRetryable` says
so, with the same key or a fresh one.

### RuntimeClient (`runtime_client.go`, `assertion.go`, `path.go`, `errors.go`)

`Begin` is a typed method up to `InvokeWithAssertion`: it captures the message
(`call`), because key, body and fingerprint are computed before the token source
and the signer run.  `Change` is what those callbacks, or the application between
two calls, do to the message.  `Sign` signs the captured input under the rules
of `SignRules`; `Check` is the second `ReadIdentity`; `Retry` and `ReturnError`
are the end of the loop with `normalizeRuntimeError`.  A message has an actor, a
key and a content (price, order, page or intent), and a fingerprint is the
record of what goes into the hash.  The server (external) verifies operation,
fingerprint and nonce, and may fail with a code in any of six forms: as the
reason of its ErrorInfo, in front of the message with or without an ErrorInfo,
with a delimiter only one of the parsers knows, and where neither looks, with or
without an ErrorInfo of ours.  The server may also refuse the exchange of the token
(`ExchangeRefused`): `exchangeRuntimeToken` wraps that error with `%w`, behind
words of its own, so an ErrorInfo can still be read and a code in front of the
message cannot (`Wrapped`), and the loop returns it without a refresh.  The rest
of the token cache is left out here: `AuthRetry` has it.

### GatewayResponses and Conformance (`gateway.go`, `conformance/conformance.go`)

`GatewayResponses` is what the client makes of one response: `ValidSnapshot` with
its rules on states, units and results, `LocationId`, and the results of GET,
create, cancel and download, with `DigestVerifies`.  A JSON value is absent, null
or in brackets with its fields, because the code's tests for "non-empty" and its
search for unit fields differ on exactly that.

`Conformance` is the harness: one goroutine, one action per call (`Mint`,
`PollOnce`, `CreateMain`, `Probe`, `Replay`, `DownloadNext`, `CreateCancel`,
`CancelIt`, the runtime reads), the checks on each answer and the markers.  The
deployment (external) keeps invocations and receipts, advances on its own, and
may break the contract once, in about thirty ways that `defect` names; every
answer goes through the operators of `GatewayResponses`, so a defect the SDK
catches never reaches the harness.  An id in an event that no path can hold is one
of them: `NewPoller` and `Cancel` refuse it before they send anything (`IdFits`).
A call may also be lost (`CallFails`).

### CertificatePair and MTLSReload (`mtls.go`)

`CertificatePair` is the promise: there is one current pair and a handshake
presents it.  `MTLSReload` reads the certificate file, then the key file, while
an operator (external) replaces the two in either order, each atomically.  The
refinement maps the current pair to the older of the two files.

### GatewayPath, CanonicalJSON and GatewayRequest (`jcs/jcs.go`, `gateway.go`, `path.go`, `assertion.go`)

`GatewayPath` has the path of a call as the client builds it (`IdsOK`, `Path`), as
the signer takes it apart (`Registered`, `Operation`), the rule for keys, and the
lines a fingerprint is taken of (`Line`).  Keys, actors, ids and paths are
sequences of symbols, among them a slash and a line end.

`CanonicalJSON` has the document as it is written, as a function from places to
what is there: a place is the way to a value, `<<2, 1>>` the first part of the
second part.  Members keep their order, a key may come twice, a leaf is one of the
texts and numbers at the edges.  The code's recursion over the tree becomes a
quantifier over places: a fault is at a place (`FaultAt`), the first one in the order
of reading is reported (`DecodeFault`), and the canonical form writes each value at
its `Seat`, which has a step for each step of the way: an item's number, or the
number of keys beside a member that `lessUTF16` puts before its own.  The order of
the checks is the code's (Unicode before decoding, then the first fault of the
document, then what trails it, then keys).  `IsDocument` says which functions
are documents; every call is made of such.

`GatewayRequest` takes one call through `Check` (the client's own checks, in
their order, with the field a refusal names), `Sign` (the rules of
`SignAssertion`, which look at the call again) and a handshake of `MTLSReload`,
which it extends.  Time is in half seconds, so that truncation shows.  `IsCall` is
what an application can make; that a GET has no key is part of it, since the two
pass none (`gateway.go:371`, `495`), and without that the signer could refuse a key
that nobody had checked.

## 4. The runs

| Run | Instance | Shows |
|---|---|---|
| `token_cache` | 4 callers with a call each, 1 `Invalidate`, 2 ticks | single flight, freshness, shared result, no orphan wait, no needless exchange |
| `token_expiry` | 2 callers | *violation:* a leader returns an expired token |
| `auth_retry` | 2 callers, a call and its retry each, every kind of loop beside one that checks the identity, 1 revocation (676,024 states) | the retry's safety, what is sent of a callback's doing, bounded refusals, every call returns, a cancelled one although no server answers |
| `sse_stream` | 2 goroutines, 7 frames (a life of one invocation in its three endings, a foreign identity), in any order and number, one buffered item | refinement of `SSEProtocol`, completeness, flags, late events, liberation by the end of the body |
| `sse_disconnect` | as above | *violation:* a reset is not reported as a disconnect |
| `poller` | 2 goroutines, 2 versions, 2 ticks, Retry-After of a tick | ascending versions, validator, Retry-After, every call returns if GETs end, a cancelled one that has its turn though none does, whoever keeps polling gets the final snapshot |
| `poller_errors` | as above | *violation:* the Retry-After of an error response is dropped |
| `create` | 2 intents, 2 keys | the truth of the returned id, no second shot, no blind end |
| `create_liveness` | 1 intent, 2 keys | the retry loop ends |
| `runtime_client` | 2 actors, 1 key, 2 contents, 2 calls, 4 codes in 6 forms, of the call or the exchange (3,056,908 states) | assertions verify, tables agree, codes and retryability reach the application, who must authenticate has had the refresh |
| `conformance` | every SKU in both modes and 13 odd configurations, 3 polls an invocation, up to 2 images (372,363 states) | what a pass certifies, what a marker testifies, why a run fails, that it ends |
| `gateway_request` | 383 calls at the edges of every rule, 2 generations of certificates, one dial (9,884 states) | agreement of checks and signer, agreement with the server, separation of requests, the named field, the presented pair |

**Bounds.** Four callers of the cache are a leader, a waiter, a call that comes
after an invalidation and its own waiter, the most that one `Invalidate` can
tell apart; the fixed lifetime of 2 ticks with a refresh window of 1 makes a
token leave its window and then expire within the clock's range.  In
`auth_retry` both callers can be refused by the same revocation, which is the
race between two retries.  Two goroutines on a stream or a poller are a holder
of the mutex and a competitor (or `Close`); one buffered item
is enough because lines already read wait in `fields`: a `Close` can come before,
between and after the lines and the blank line of a frame.  Two versions make a
repeated one and a step back possible, and hiding the final one; the proofs of
section 6 have any number.  Two intents with two keys may share a key or not, and an
application may move from one key to the other.  Three polls of the conformance run are
one too early, one in between and one too late; two images are the first and one
more, and two runs of the loop that downloads them.  The calls of
`gateway_request` differ from a plain one in one or two things; key lengths 2 and
3 stand for 16 and 128, so below, at, between and above are all there; two
generations of certificates are one rotation, and `GatewayRequest_proofs` has any
number, and any ids, actors, keys and documents.  Two calls of the runtime client
are a call and its repetition with the same message, two actors and contents
what a callback can exchange; of the eight named codes one of each kind is
enough, because the tables treat a kind alike, and the two forms that hide a code
are given to `runtime_unauthenticated` alone, since what cannot be read is the same
whatever it is.  The proofs of section 6 remove
the bounds for the properties they cover.

`CHECK_DEADLOCK FALSE` is set where a bounded system comes to rest: all calls
made, the stream closed, all intents ended.

## 5. Fairness

- `AuthFairSpec`: a goroutine that can run runs (`OwnStep`), and whatever waits
  for a server fails once its context has ended (`ContextEnds`).  Nothing is
  assumed of the servers: `CancelledCallReturns` holds though none ever answers,
  and `CallReturns` names in its premise that exchanges and requests end.  The
  cache alone has no liveness run of its own: a call of `AuthRetry` contains its
  steps one by one.
- `SSEStream!Fairness`: strong fairness for those waiting for the mutex, because
  `sync.Mutex` hands over to a starving waiter; weak fairness for a goroutine
  that reads or closes; none for the server, so a silent open connection may
  block a reader for ever.
- `GatewayPoller!Scheduling`: strong fairness for the mutex, weak fairness for time,
  for a waiting goroutine, and for a GET whose context has ended.  Nothing makes a
  GET end that the server leaves open under a live context, since the HTTP client
  has no timeout; `CancelledPollReturns` holds all the same.  `EveryCallReturns`
  names as its premise that no GET is out for ever (`GetsEnd`); without it one
  silent answer keeps the mutex, and every other `Poll` and `ETag`, waiting.
  `Polling` adds what a polling application relies on: the invocation ends and
  again and again a GET succeeds.
- `GatewayCreate!FairSpec`: the application goes on, and again and again an
  answer in the frozen form gets through.
- `Conformance!FairSpec`: the run goes on (weak fairness of `Goes`), because each
  call is answered or fails by its context; that a call fails is not assumed, so
  `RunEnds` rests on the polling budget alone.
- `GatewayRequest` and `MTLSReload` state no fairness and no liveness.

## 6. Proofs

`*_proofs.tla` are checked by TLAPS, for all values of the constants that meet
the modules' named assumptions.  There are eight modules of them.

**AuthRetry_proofs**, first part, about `TokenCache` alone: types, `SingleFlight`,
`NotOlderThanCall`, `SharedResult`, `NoOrphanWait`, `ExchangeOnlyWhenNeeded`.  None
of them is inductive alone.  The invariant adds that the one open flight is the one in
`refreshing` and its leader is between `StartFlight` and `Commit`; that a flight
in use by a call is newer than the call's `floor`, because `refreshing` always
names the newest flight and stored generations only grow; and that readings of
the clock are never ahead of it, which is why an early reading can only make an
exchange late.

Second part, about the composition: types, `RetryUsesNewerToken`,
`ResultMatchesExecution`, `AssertionDiscipline`, `LiveTokensBounded`.  The cache's invariant is
carried over because a call only takes the cache's steps (`CacheStep`).  The retry's freshness follows from it:
`Invalidate` puts everything stored so far below the `floor` of the next `Token`
call, and the refused token was stored (or is older) by then.
`LiveTokensBounded` is about a cardinality; `StormInv` says that no other token
than the cached one is usable unless it was dropped, and that nothing usable is
cached while an exchange is under way, so a commit never hides a live token.

**SSEStream_proofs**: types, `FlagsMatchDelivered`, `ImplementsProtocol`,
`AcceptsEveryLegalFrame` and `AtMostOneLateEvent`.
The invariant relates the parser's memory to the delivered events: `accepted`
says there is one, `usageFinal` and `terminal` that such an event is among them,
the pins bound all ids and sequence numbers (rejected frames may have moved
them, so they are bounds and not equalities).  `LegalAppend` shows that a frame
which passes the code's checks in such a state keeps the events legal, hence
every step of the stream is a step of the protocol or a stutter.  `LegalNext` is
the converse, what legality says of the next event, and with pins that are those
of the last event it gives completeness.  A late event leaves nobody reading and
`closed` lets nobody in.

**GatewayPoller_proofs**: types, `VersionsAscend`, `ETagIsDelivered`,
`RetryAfterHonoured`.  The invariant rests on the mutex: only its holder waits
or has an answer, so the answer still fits the validator, and the timer still
fits `nextPoll`, when they are used.

**GatewayCreate_proofs**: types, `ToldTheTruth`, `EndsInformed`, `NoSecondShot`.
The invariant says that an answer on its way names what is stored under its
caller's key or nothing, which needs that a stored invocation never changes, and
that an intent that is not done has not been named by an answer that did not ask
for another try; `ResultSound` is the reading
of one such answer, case by case.

**GatewayRequest_proofs**: all five properties of the run, for any calls that
`IsCall` admits, any dials and any number of rotations.
`MTLSReload`: the type invariant and `PresentsOnePair`, the refinement of
`CertificatePair`.  Because nothing newer than the certificate on disk was ever
read and the files are at most one rotation apart, a key that fits a certificate
read earlier is of the complete generation; a request only takes the reload's steps,
so this holds under it (`RequestPresentsOnePair`).
`GatewayPath`, for sequences over any set of symbols: the signer finds the
operation the caller meant exactly when the client's check let the ids pass
(`SignerKnowsThePath`), refuses neither path nor key that passed the client's
checks (`SignerAcceptsAddress`), and takes no gateway path but one the client can
build (`SignerTakesOnlyBuiltPaths`); calls with the same lines under their
fingerprints are the same but for their bodies (`LineSeparates`).  The argument is
one of first occurrences: an id has no slash and a path or an actor no line end, so
what is in front of the first one is determined (`ArtifactPathTells`, `FirstLine`).
`GatewayRequest`: its invariant, `RequestInv`, only says what phase, complaint and
claims have to do with the call; the work is in the operators.  The client's checks
are a set, of which a refusal is the first that fails (`ChecksAre`, `RefusalIs`).  An
object of sound documents under keys of its own is sound, so nothing is wrong with a
body but what is wrong with a section (`BodySound`): the two checks of
`validateGatewayCanonicalizable` leave the signer nothing, which is
`SignerRefusesOnlyItsOwn`.  `ServerAgrees` and `FingerprintSeparates` are the
theorems on canonical forms below, with `LineSeparates` (`FingerprintTells`).  For
`NamedFieldIsToBlame`, names are in an order, so there is a first one, and a number
that encoding/json drops has a later member of its key (`LocateIs`, `HiddenIs`).

**CanonicalJSON_proofs**, for documents of any depth and width: the canonical form
says what the document says (`CanonicalSays`), in the order of RFC 8785
(`CanonicalInOrder`), is the same for two documents exactly if they say the same
(`CanonicalSeparates`), is its own canonical form (`CanonicalAgain`) and is never
refused (`CanonicalIsTaken`).  All of it is about documents that are not refused
themselves for a key or a text: of a key that comes twice, or an unpaired surrogate,
it would not be true.  Underneath
is `LessIsBefore`: comparing UTF-16 units, as `lessUTF16` does, is comparing code
points with the supplementary planes before U+E000.  A key's units are those of its
points one after the other (`UnitsAre`), so where two keys differ first, their units
do.  A member's seat counts the keys before its own; that needs only the set of keys,
so it does not depend on the order they are written in, and two members have two
seats because the order is total.  Because a document is a function of places, none
of this is an induction over trees: two different ways of one length part at a least
step (`Parting`), and there they lead to two parts of one whole.

**RuntimeClient_proofs**: types and all five properties of the run.  The
invariant says what the steps between `Sign` and the server may rely on: what was
signed is what was captured, under the newest nonce, which the server has not
seen; after `Check` the message has the captured fingerprint
(`IdentityIsFingerprint`).  `TablesAgree` is the agreement of the three tables.
For errors it says that a returned error is the normalized last answer (`Received`:
as it came, or wrapped by the token exchange) and that this answer asked for no
further refresh unless it refused the exchange.

**Conformance_proofs**: types, `MarkersTestify`, `PassCertifies`, `NoFalseAlarm`,
for any configurations, any polling budget and any number of images.  The proof
goes in three layers.  First, what the client makes of every answer the
deployment may give (`FreshCreate`, `KnownCreate`, `PollAnswers`,
`DownloadAnswers`, `CancelAnswers`): through the operators of
`GatewayResponses`, so that a breach the SDK catches comes out as an error.
Second, what each action can then do: it goes on (`Moves`) or it stops the run
and the failure is no false alarm (`Stops`).  Third, the inductive invariant of
a run that has not failed, part by part: which keys are still unused, what every
invocation was asked for and may hold, which invocation is looked at, that a
receipt is its own moderation's, that the result is the main invocation's and
each of its artifacts is fetched or still to be fetched, which markers are
printed, and -- `DefectInv`, the part that makes `PassCertifies` true -- that a
breach is one of the `Unnoticed` or is still in front of a check that notices it
(an id that fits no path: in front of `NewPoller` or of `Cancel`).
The three properties are not inductive without it: a marker stays, so what is
behind it must not change later (`Kept`: no invocation is forgotten, none that has
ended changes, no key changes its invocation).

The type invariants are proved and are no longer checked by a run.

`RequestInv` was model-checked on the calls of `gateway_request` before it was proved.

**Only model-checked:** the liveness properties (`CallReturns`,
`CancelledCallReturns`, `EndUnblocks`, `EveryCallReturns`, `CancelledPollReturns`,
`FinalSnapshotDelivered`, `EveryIntentEnds`, `RunEnds`): liveness under fairness and ENABLED are out of the
prover's reach.  Every safety property of the passing runs is also a theorem.  No
proof goes by induction over data that is more than a number: documents have no
recursive definition in these modules.

## 7. Findings

Three places where the code does something else than its comments say; each has
a run in which TLC finds the behaviour.

1. `token.go:20` promises "a currently usable runtime token".
   `exchangeRuntimeToken` compares the expiry with a clock reading taken before
   the RPC and `Token` returns the result unchecked, so a token that expires
   during its own exchange is returned (`token_expiry`).
2. `sse.go:27` promises `GatewaySSEDisconnectError` for "a disconnect before a
   terminal event".  A read error other than `io.EOF` -- a reset, a chunked body
   cut short -- gives the protocol error instead (`sse_disconnect`).
3. `gateway.go:435` promises that `Poll` "first blocks until the previous
   response's Retry-After has elapsed".  An error response returns before the
   header is stored, so after a 429 or 503 the next GET leaves at once
   (`poller_errors`).

## 8. What the models say beside their properties

- **What a conformance pass does not certify** (`Unnoticed` in `Conformance`): the
  run does not compare the snapshot's id with the one it asked about, so another
  invocation's snapshot passes; it does not notice a 304 that names a version
  nobody saw, or one that hides a new version; it looks neither at the id in the
  answer to a cancel nor at whether the cancellation comes to pass; a body with
  the right digest of the wrong bytes passes; so does a receipt probe that is
  answered without an id, and of the moderation SKU's result neither the kind nor
  the receipt is read.
- **What a call without a `ReadIdentity` risks**: nothing looks at what
  `ApplyAssertion` did to the message, so it may be sent with another key or
  fingerprint than the caller declared; and with or without one, an assertion that
  the callback leaves in `Args` is sent a second time, since only the key and the
  fingerprint are read back.  `AssertionDiscipline` allows these and nothing else.
- **A silent server and the poller**: `Poll` holds its mutex while its GET is out.
  A server that accepts the request and says nothing keeps it as long as that one
  context lives, and the `Poll` and `ETag` calls queued behind it cannot be
  cancelled.
- **What an application of `create` may not learn**: after a create that was stored
  and whose answer was lost, a resubmission can fail in `ActorFunc`, the token
  source or the signer, and that error says nothing about the invocation: the
  application only knows its key.  An answer with a status or a stream content type
  out of place is a retryable error without the id its `Location` names; and
  `rate_limited`, `upstream_unavailable` and an explicit `retryable` are retried
  although the answer named an invocation.  An application that then takes a fresh
  key creates a second one.
- **`runtime_unauthenticated` without a refresh**: when the server refuses the
  exchange of the token itself, the call ends with that error, which looks like one
  that came after the refresh; if its code stands only in the message it is not
  found behind the words of `exchangeRuntimeToken`.
- **`RECEIPT_CHAIN=blocked` after the moderation was stored**: the harness reads
  `invalid_invocation_request` from polling too.  A stream that names its
  invocation by an id no path can hold, or a GET that the hub refuses with this
  code, is reported as the hub not moderating the target (`NoFalseAlarm` names both).
- A claim window can only be refused for a TTL that a direct caller of
  `SignAssertion` chose: 60 s, which the clients use, always passes.
- `create` replaces the error of `Validate` by a fixed text, so the field that
  `NamedFieldIsToBlame` speaks of reaches only callers of `Validate`.
- `CanonicalizeJSON` does not notice trailing data that begins with a closing
  bracket.  The clients only hand it the output of `json.Marshal`.
- `-0` stays `-0` in the canonical form, where RFC 8785 has `0`.  Both sides of the
  contract would have to agree on that; the model's server uses the same rule.
- Amounts in the catalogs are strings by their generated types, so the harness's
  check of them cannot fail.

## 9. Not modelled

- Panics of user callbacks (the exchange included), cryptographic strength, TLS
  itself, encodings: string escapes, JWS, base64, number syntax.
- Of `assertion.go`: signatures, key loading and `VerifyCompactJWS`; they are
  pure functions over bytes.  What they are told to sign is modelled.
- Of `mtls.go`: CA pools, server names, `DialRuntime` and the minimal TLS version;
  they are read once and never change.
- Of the certificate reload: a certificate renewed for the same key, which fits
  either way.
- Of the harness: a server that mints one receipt for both legs (a receipt is
  identified with its moderation), and an id in the event of the receipt probe,
  which the run never reads.
- Of the gateway client: line ends in the configured instance, tenant and session
  ids, blanks around an actor, which the HTTP transport trims,
  response bodies beyond their size limit other than as unreadable, and the
  wording of errors.
- Of the runtime client: calls whose arguments fail a format check (they end
  before anything happens), the gRPC status put on an error, a message changed by
  another goroutine during a call (a data race), and the intent token of
  `ConfirmRegistration`: the assertion covers the fingerprint of the intent the
  caller passes, and that the token belongs to it only the server can tell.  An
  authentication code followed by a tab or a line end is left unread by
  `ErrorCode`; `CodeReachesApplication` names that exception.
- `secret.go` (formatting), generated protobuf code (`runtime/*.pb.go`, almost half
  of the Go lines) and scripts.
- For the poller, a server that breaks its own contract, such as a 304 that names
  another version than the one asked about, or versions that go back.

## 10. Running

In this directory: `tlc -config MCTokenCache.cfg MCTokenCache` (and so on, one
`.cfg` per run of `PROJECT.json`), `tlapm AuthRetry_proofs.tla` (and so on) for the
proofs.
