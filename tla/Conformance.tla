----------------------------- MODULE Conformance -----------------------------
(***************************************************************************)
(* The conformance run (conformance/conformance.go) against a deployment.  *)
(* One goroutine calls the SDK, checks each answer, prints a marker when a *)
(* leg is done and stops at the first failure; a call is one action.       *)
(*                                                                         *)
(* The deployment is not this repository's code.  It stores invocations,   *)
(* mints receipts and moves the invocation the run is looking at on its    *)
(* own.  It answers by the contract, or once -- defect names how -- not.   *)
(* An invocation is its number, a receipt the moderation that minted it.   *)
(***************************************************************************)
EXTENDS GatewayResponses

CONSTANTS
    Configs,            \* environments the run may be started in
    MaxAttempts,        \* polls of one invocation, 120 in the code
    MaxImages           \* images one invocation may deliver

Artifactual == {"video", "image", "music", "speech"}    \* skuProducesArtifacts
SKUs == Artifactual \cup {"text", "moderation", "lyrics"}
NoReceipt == 0

AllConfigs ==
    [missing : BOOLEAN, mode : {"async", "stream", "other"}, sku : SKUs \cup {"other"},
     schema : {"registered", "override"},
     input : {"default", "fraction", "garbage"}, certificate : BOOLEAN,
     key : {"ed25519", "p256", "sec1 p256", "p384", "rsa", "no pem"}]

ASSUME ConfigsAssumption == Configs \subseteq AllConfigs
ASSUME BoundsAssumption == MaxAttempts \in Nat \ {0} /\ MaxImages \in Nat \ {0}

VARIABLES
    inv,                \* server: its invocations, in the order of creation
    defect,             \* server: how it broke the contract
    cfg,                \* the configuration
    pc,                 \* the call the run makes next
    how,                \* what the error of a failed run says
    streams,            \* keys of creates whose event stream is still open
    leg,                \* "main", then "cancel"
    id, attempts, etag, \* the invocation looked at, and its poller
    mainId, result,     \* the main invocation and its result
    refs,               \* artifacts still to download
    first, nonces,      \* the first answer of two; assertions signed so far
    receipts,           \* the receipt minted in each leg
    fetched,            \* artifacts downloaded and verified
    printed             \* the markers

server == <<inv, defect>>
progress == <<leg, id, attempts, etag, mainId, result, refs, first, nonces>>
evidence == <<receipts, fetched, printed>>
vars == <<cfg, server, pc, how, streams, progress, evidence>>
-----------------------------------------------------------------------------
(* Requests.                                                               *)

\* The specification is built once: it is what is moderated and what is then
\* created, in both legs.  The moderation SKU moderates a text.
Subject == [sku |-> IF cfg.sku = "moderation" THEN "text" ELSE cfg.sku,
            schema |-> cfg.schema, input |-> cfg.input]
Request(sku, receipt) == [sku |-> sku, subject |-> Subject, receipt |-> receipt]

ModerationReceiptForSKU(sku, receipt) ==
    IF sku = "moderation" THEN NoReceipt ELSE receipt

MintRequest == Request("moderation", NoReceipt)
TargetRequest(l) ==
    Request(cfg.sku, ModerationReceiptForSKU(cfg.sku, receipts[l]))

\* GatewayCreateRequest.Validate: numbers are integers (module GatewayRequest).
Validates(request) == request.subject.input # "fraction"
-----------------------------------------------------------------------------
(* The server's answers: a result as the client reports it, the            *)
(* invocations afterwards, and the defect if the contract was broken.      *)

Answer(outcome, after) == [result |-> outcome, inv |-> after, defect |-> defect]
Defect(name, outcome, after) ==
    IF defect = "none" THEN {[result |-> outcome, inv |-> after, defect |-> name]}
    ELSE {}

Location(n) == [origin |-> "relative", path |-> "invocation", plain |-> n # NoId,
                id |-> n]
Reply(status, tag, location, body) ==
    [status |-> status, etag |-> tag, media |-> TRUE, location |-> location,
     body |-> body, digest |-> [form |-> "none"]]
Code(code) == [kind |-> "code", code |-> code]
ErrorReply(status, code) == Reply(status, NoTag, Location(NoId), Code(code))
Holds(snapshot) == [kind |-> "snapshot", snapshot |-> snapshot]
Nothing == [kind |-> "empty"]

\* Until it is completed the lot deductions of an invocation are [].
SnapshotOf(n, i) ==
    [id |-> n, version |-> i.version, named |-> TRUE, state |-> i.state,
     terminal |-> i.state \in TerminalStates, units |-> "decimal",
     result |-> i.result,
     lots |-> IF i.state = "completed" THEN Brackets([settled_units |-> "decimal"])
              ELSE Brackets(NoFields)]

\* Create: an event stream names its invocation in an event.
NewInvocation(request, k) ==
    [key |-> k, request |-> request, state |-> "accepted", version |-> 1,
     result |-> Null]
StoredReply(n, i) ==
    IF cfg.mode = "async" THEN Reply(202, NoTag, Location(n), Holds(SnapshotOf(n, i)))
    ELSE Reply(200, NoTag, Location(NoId), [kind |-> "events", id |-> n])

\* createForMode and invocationIDFromCreate, which closes the stream again.
CreateForMode(reply) ==
    LET created == CreateResult(reply, cfg.mode) IN
        IF created.ok /\ created.id = NoId THEN [created EXCEPT !.id = reply.body.id]
        ELSE created

\* CanonicalGatewayPath, of the id the run works with.  An id is its number, but
\* the event of a stream may name one that no path can hold.
IdFits == defect # "malformed_id"
BadId == Failure(0, "invalid_invocation_request")

Passed(value) ==
    value.form = "brackets" /\ "verdict" \in DOMAIN value.fields
    /\ value.fields.verdict = "pass"
MintedFor(receipt, subject) ==
    /\ receipt \in DOMAIN inv
    /\ inv[receipt].request.subject = subject
    /\ inv[receipt].state = "completed" /\ Passed(inv[receipt].result)
Spent(receipt) == \E n \in DOMAIN inv : inv[n].request.receipt = receipt

MustRefuse(request) ==
    IF request.sku = "moderation"
    THEN IF request.receipt = NoReceipt THEN {} ELSE {"internal_error"}
    ELSE IF MintedFor(request.receipt, request.subject) THEN {}
    ELSE {"moderation_invalid_request"}
MayRefuse(request) ==
    (IF request.subject.schema = "override" THEN {"invalid_invocation_request"} ELSE {})
    \cup
    (IF request.sku # "moderation"
     THEN IF Spent(request.receipt)
          THEN {"moderation_invalid_request", "compliance_rejected"} ELSE {}
     ELSE IF request.subject.sku \in {"text", "video"} THEN {}
     ELSE {"invalid_invocation_request"})

\* A known key is answered with the invocation it stands for, a new one with a
\* new invocation or a refusal.
ReplayAnswers(n, request, k) ==
    LET other == NewInvocation(request, k)
        next == Len(inv) + 1
    IN  {Answer(CreateForMode(Reply(303, NoTag, Location(n), Nothing)), inv)}
        \cup Defect("second_create", CreateForMode(StoredReply(next, other)),
                    Append(inv, other))
        \cup Defect("other_location",
                    CreateForMode(Reply(303, NoTag, Location(next), Nothing)),
                    Append(inv, other))
FreshAnswers(request, k) ==
    LET new == NewInvocation(request, k)
        next == Len(inv) + 1
        after == Append(inv, new)
        Refused(code) == CreateForMode(
            ErrorReply(IF code = "internal_error" THEN 500 ELSE 400, code))
    IN  IF MustRefuse(request) # {}
        THEN {Answer(Refused(code), inv) : code \in MustRefuse(request)}
        ELSE {Answer(Refused(code), inv) : code \in MayRefuse(request)}
             \cup {Answer(CreateForMode(StoredReply(next, new)), after)}
             \cup Defect("exists_already",
                         CreateForMode(Reply(303, NoTag, Location(next), Nothing)), after)
             \cup Defect(IF k = "receipt-replay" THEN "unnamed_probe" ELSE "unnamed",
                         CreateForMode(StoredReply(NoId, new)), after)
             \cup (IF cfg.mode = "stream" /\ k # "receipt-replay"
                   THEN Defect("malformed_id", CreateForMode(StoredReply(next, new)), after)
                   ELSE {})
Create(request, k) ==
    LET known == {n \in DOMAIN inv : inv[n].key = k} IN
        IF ~Validates(request)
        THEN {Answer(Failure(0, "invalid_invocation_request"), inv)}
        ELSE IF known # {} THEN UNION {ReplayAnswers(n, request, k) : n \in known}
        ELSE FreshAnswers(request, k)

\* Poll.  A 304 that names a version nobody has seen is believed.
GetAnswers(n) ==
    LET s == SnapshotOf(n, inv[n])
        Got(reply) == GetResult(reply, etag)
        Shows(tag, snapshot) == Got(Reply(200, tag, Location(NoId), Holds(snapshot)))
        Same(tag) == Got(Reply(304, tag, Location(NoId), Nothing))
    IN  (IF etag = s.version THEN {Answer(Same(tag), inv) : tag \in {NoTag, s.version}}
         ELSE {Answer(Shows(s.version, s), inv)})
        \cup (IF etag \notin {NoTag, s.version} THEN Defect("stale", Same(etag), inv) ELSE {})
        \cup (IF etag = s.version /\ ~s.terminal
              THEN Defect("ahead", Same(s.version + 1), inv) ELSE {})
        \cup Defect("terminal_flag",
                    Shows(s.version, [s EXCEPT !.terminal = ~s.terminal]), inv)
        \cup Defect("unknown_state", Shows(s.version, [s EXCEPT !.state = "paused"]), inv)
        \cup Defect("other_etag", Shows(s.version + 1, s), inv)
        \cup Defect("vanished", Got(ErrorReply(404, "invocation_not_found")), inv)
        \cup Defect("get_refused", Got(ErrorReply(400, "invalid_invocation_request")), inv)
        \cup (IF s.terminal THEN {} ELSE
              Defect("early_result", Shows(s.version,
                     [s EXCEPT !.result = Brackets([kind |-> "text"])]), inv))
        \cup (IF s.state # "completed" THEN {} ELSE
              Defect("bare_units", Shows(s.version,
                     [s EXCEPT !.lots = Brackets([settled_units |-> "number"])]), inv))
        \cup UNION {Defect("foreign", Shows(inv[m].version, SnapshotOf(m, inv[m])), inv) :
                        m \in DOMAIN inv \ {n}}

\* NewPoller refuses the id before there is a GET.
Poll(n) == IF IdFits THEN GetAnswers(n) ELSE {Answer(BadId, inv)}

\* Artifacts are numbered within their invocation; a reference names both.
Ref(n, a) == [of |-> n, id |-> a]
Refs(n, count) == [a \in 1..count |-> Ref(n, a)]
Bytes(ref) == <<ref.of, ref.id>>
Moderation(verdict, receipt) ==
    Brackets([kind |-> "moderation", verdict |-> verdict, receipt |-> receipt])
Images(images, count) == Brackets([artifacts |-> images, delivered |-> count])

\* The results an invocation of this SKU may complete with, and the wrong ones.
Results(n, sku) ==
    CASE sku = "moderation" -> {Moderation("pass", n), Moderation("block", NoReceipt)}
      [] sku = "image" -> {Images(Refs(n, c), c) : c \in 1..MaxImages}
      [] sku \in Artifactual \ {"image"} -> {Brackets([artifact |-> Ref(n, 1)])}
      [] OTHER -> {Brackets([text |-> "text"])}
WrongResults(n, sku) ==
    {<<"no_result", Null>>} \cup
    CASE sku = "moderation" -> {<<"no_receipt", Moderation("pass", NoReceipt)>>,
                                <<"no_kind", Brackets([verdict |-> "pass"])>>}
      [] sku = "image" -> {<<"no_images", Images(<<>>, 0)>>,
                           <<"miscounted", Images(Refs(n, 1), 2)>>,
                           <<"foreign_ref", Images(<<Ref(n + 1, 1)>>, 1)>>}
      [] sku \in Artifactual \ {"image"} ->
            {<<"no_artifact", Brackets([text |-> "text"])>>,
             <<"foreign_ref", Brackets([artifact |-> Ref(n + 1, 1)])>>,
             <<"both_shapes", Brackets([artifact |-> Ref(n, 1), artifacts |-> <<>>])>>}
      [] OTHER -> {<<"stray_artifact", Brackets([artifact |-> Ref(n, 1)])>>}

Download(ref) ==
    LET body == [kind |-> "bytes", bytes |-> Bytes(ref)]
        other == [kind |-> "bytes", bytes |-> <<0, 0>>]
        Sha(bytes) == [form |-> "sha-256", bytes |-> bytes]
        Sent(status, b, digest) ==
            DownloadResult([Reply(status, NoTag, Location(NoId), b) EXCEPT !.digest = digest])
    IN  {Answer(Sent(200, body, Sha(Bytes(ref))), inv)}
        \cup Defect("corrupted", Sent(200, other, Sha(Bytes(ref))), inv)
        \cup Defect("no_digest", Sent(200, body, [form |-> "none"]), inv)
        \cup Defect("redirected", Sent(302, Nothing, [form |-> "none"]), inv)
        \cup Defect("lost_artifact",
                    Sent(404, Code("invocation_not_found"), [form |-> "none"]), inv)
        \cup Defect("other_bytes", Sent(200, other, Sha(<<0, 0>>)), inv)

DeleteAnswers(n) ==
    LET To(state) == [inv EXCEPT ![n].state = state, ![n].version = @ + 1]
        Shows(status, after) ==
            Reply(status, NoTag, Location(n), Holds(SnapshotOf(n, after[n])))
    IN  (IF inv[n].state \in TerminalStates
         THEN {Answer(CancelResult(reply), inv) : reply \in
                {ErrorReply(409, "invocation_transition_conflict"), Shows(200, inv)}}
         ELSE {Answer(CancelResult(Reply(202, NoTag, Location(n), Nothing)),
                      To("cancel_pending")),
               Answer(CancelResult(Shows(202, To("cancel_pending"))), To("cancel_pending")),
               Answer(CancelResult(Shows(200, To("cancelled"))), To("cancelled"))})
        \cup Defect("other_conflict", CancelResult(ErrorReply(409, "compliance_rejected")), inv)
        \cup Defect("empty_ok", CancelResult(Reply(200, NoTag, Location(n), Nothing)), inv)
        \cup Defect("redirected", CancelResult(Reply(303, NoTag, Location(n), Nothing)), inv)
        \cup (IF inv[n].state \in TerminalStates THEN {} ELSE
              Defect("renamed_cancel",
                     CancelResult(Reply(202, NoTag, Location(n + 1), Nothing)),
                     To("cancel_pending")))
        \cup Defect("not_cancelled",
                    CancelResult(Reply(202, NoTag, Location(n), Nothing)), inv)
Cancel(n) == IF IdFits THEN DeleteAnswers(n) ELSE {Answer(BadId, inv)}
-----------------------------------------------------------------------------

(* The run.                                                                *)

Init ==
    /\ inv = <<>> /\ defect = "none"
    /\ cfg \in Configs
    /\ pc = "config" /\ how = "none" /\ streams = {}
    /\ leg = "main" /\ id = NoId /\ attempts = 0 /\ etag = NoTag
    /\ mainId = NoId /\ result = Null /\ refs = <<>>
    /\ first = <<>> /\ nonces = 0
    /\ receipts = [l \in {"main", "cancel"} |-> NoReceipt]
    /\ fetched = {} /\ printed = {}

Continue(next) == pc' = next /\ UNCHANGED <<how, streams>>

\* The cancel leg's stream is closed when runGateway returns.
FailsWith(why) ==
    /\ pc' = "failed" /\ how' = why /\ streams' = streams \ {"cancel"}
    /\ UNCHANGED <<progress, evidence>>

Prints(marker) == printed' = printed \cup {marker}

\* What the server did is done, whatever the run makes of the answer.
Receives(answer) ==
    inv' = answer.inv /\ defect' = answer.defect /\ UNCHANGED cfg

\* loadConfig: nothing missing is ever a skip.
ConfigLoads ==
    /\ ~cfg.missing /\ cfg.mode \in {"async", "stream"} /\ cfg.sku \in SKUs
LoadConfig ==
    /\ pc = "config"
    /\ IF ConfigLoads THEN Continue("setup") /\ UNCHANGED <<progress, evidence>>
       ELSE FailsWith("config")
    /\ UNCHANGED <<cfg, server>>

\* NewTLSConfig and loadSigner: a PKCS8 key, or SEC1, of a registered kind.
SignerLoads == cfg.key \in {"ed25519", "p256", "sec1 p256"}

\* run up to runGateway's first call: json.Marshal refuses a spec that is no JSON.
Setup ==
    /\ pc = "setup"
    /\ IF ~cfg.certificate \/ ~SignerLoads \/ cfg.input = "garbage"
       THEN FailsWith("config")
       ELSE IF cfg.sku = "moderation"
       THEN /\ Prints(<<"receipt", "skipped">>) /\ Continue("create")
            /\ UNCHANGED <<progress, receipts, fetched>>
       ELSE Continue("mint") /\ UNCHANGED <<progress, evidence>>
    /\ UNCHANGED <<cfg, server>>

\* pollToTerminal starts with a new poller.
LookAt(n) == id' = n /\ attempts' = 0 /\ etag' = NoTag

\* receiptMintInvocationFailure, targetCreateFailure.
MintFailure(failure) ==
    IF failure.code = "invalid_invocation_request" THEN "blocked" ELSE "mint_failed"
TargetFailure(failure) ==
    IF failure.code = "moderation_invalid_request" THEN "receipt_rejected" ELSE "failed"

\* createForMode for a fresh key, and the id it made known.
IsNew(outcome) == outcome.ok /\ outcome.status # 303 /\ outcome.id # NoId

MintKey == IF leg = "main" THEN "receipt-main" ELSE "receipt-cancel"
Mint ==
    /\ pc = "mint"
    /\ \E answer \in Create(MintRequest, MintKey) :
        /\ Receives(answer)
        /\ IF IsNew(answer.result)
           THEN /\ LookAt(answer.result.id) /\ Continue("poll mint")
                /\ UNCHANGED <<leg, mainId, result, refs, first, nonces, evidence>>
           ELSE FailsWith(IF answer.result.ok THEN "mint_failed"
                          ELSE MintFailure(answer.result))

\* parseModerationInvocationResult and receiptFromModerationResult.
Receipt(value) ==
    IF /\ value.form = "brackets"
       /\ {"kind", "verdict", "receipt"} \subseteq DOMAIN value.fields
       /\ value.fields.kind = "moderation" /\ value.fields.verdict = "pass"
    THEN value.fields.receipt ELSE NoReceipt

MintedReceipt(snapshot) ==
    /\ receipts' = [receipts EXCEPT ![leg] = Receipt(snapshot.result)]
    /\ Prints(<<"minted", leg>>)
    /\ Continue(IF leg = "main" THEN "create" ELSE "create cancel")
    /\ UNCHANGED <<progress, fetched>>

\* The main invocation is done; the moderation SKU has no receipt to replay.
MainCompleted(snapshot) ==
    /\ result' = snapshot.result
    /\ Continue(IF cfg.sku = "moderation" THEN "replay" ELSE "probe")
    /\ UNCHANGED <<leg, id, attempts, etag, mainId, refs, first, nonces, evidence>>

\* assertSuccessfulGatewayTerminal.
Successful(snapshot) == snapshot.state = "completed"

\* Every poll counts, one that is told nothing new as well.
CountedMutant(got) == IF got.etag = etag THEN attempts ELSE attempts + 1
Counted(got) == attempts + 1

\* pollToTerminal, one attempt.
PollOnce ==
    /\ pc \in {"poll mint", "poll main"} /\ attempts < MaxAttempts
    /\ \E answer \in Poll(id) :
        /\ Receives(answer)
        /\ LET got == answer.result IN
            IF ~got.ok
            THEN FailsWith(IF pc = "poll mint" THEN MintFailure(got) ELSE "failed")
            ELSE IF ~got.snapshot.terminal
            THEN /\ etag' = got.etag /\ attempts' = Counted(got)
                 /\ Continue(pc)
                 /\ UNCHANGED <<leg, id, mainId, result, refs, first, nonces, evidence>>
            ELSE IF ~Successful(got.snapshot)
            THEN FailsWith(IF pc = "poll mint" THEN "mint_failed" ELSE "failed")
            ELSE IF pc = "poll main" THEN MainCompleted(got.snapshot)
            ELSE IF Receipt(got.snapshot.result) = NoReceipt THEN FailsWith("mint_failed")
            ELSE MintedReceipt(got.snapshot)

OutOfBudget ==
    /\ pc \in {"poll mint", "poll main"} /\ attempts = MaxAttempts
    /\ FailsWith("budget")
    /\ UNCHANGED <<cfg, server>>

\* The markers of the receipt chain are not for the moderation SKU.
PrintsPresented ==
    IF cfg.sku = "moderation" THEN UNCHANGED printed ELSE Prints(<<"presented", leg>>)

CreateMain ==
    /\ pc = "create"
    /\ \E answer \in Create(TargetRequest("main"), "create") :
        /\ Receives(answer)
        /\ IF IsNew(answer.result)
           THEN /\ mainId' = answer.result.id /\ LookAt(answer.result.id)
                /\ PrintsPresented /\ Continue("poll main")
                /\ UNCHANGED <<leg, result, refs, first, nonces, receipts, fetched>>
           ELSE FailsWith(IF answer.result.ok THEN "failed" ELSE TargetFailure(answer.result))

\* replayProbeMarker: the receipt again under a new key; either answer is one.
Probe ==
    /\ pc = "probe"
    /\ \E answer \in Create(TargetRequest("main"), "receipt-replay") :
        /\ Receives(answer)
        /\ LET got == answer.result
               Rejected == ~got.ok /\ got.code \in
                    {"moderation_invalid_request", "compliance_rejected"}
           IN IF Rejected \/ (got.ok /\ got.status # 303)
              THEN /\ Prints(<<"replay", IF Rejected THEN "rejected" ELSE "accepted">>)
                   /\ Continue("replay")
                   /\ UNCHANGED <<progress, receipts, fetched>>
              ELSE FailsWith("failed")

\* artifactRefsFromResult: the shape the SKU has, and only that.
RefsParse(sku, n, value) ==
    LET has == DOMAIN value.fields IN
        /\ value.form = "brackets"
        /\ CASE sku = "image" ->
                    /\ "artifact" \notin has
                    /\ {"artifacts", "delivered"} \subseteq has
                    /\ Len(value.fields.artifacts) = value.fields.delivered
                    /\ \A a \in DOMAIN value.fields.artifacts :
                            value.fields.artifacts[a].of = n
             [] sku \in Artifactual \ {"image"} ->
                    /\ "artifact" \in has /\ "artifacts" \notin has
                    /\ value.fields.artifact.of = n
             [] OTHER -> has \cap {"artifact", "artifacts"} = {}
RefsOf(sku, value) ==
    CASE sku = "image" -> value.fields.artifacts
      [] sku \in Artifactual \ {"image"} -> <<value.fields.artifact>>
      [] OTHER -> <<>>

\* artifactLegMarker.
LegAgrees(sku, found) == (sku \in Artifactual) = (found # <<>>)

\* The same key must lead back to the same invocation.
SameInvocationMutant(outcome) == outcome.ok /\ outcome.status = 303
SameInvocation(outcome) ==
    outcome.ok /\ outcome.status = 303 /\ outcome.id = mainId

\* A stream the replay is answered with is not closed.
Replay ==
    /\ pc = "replay"
    /\ \E answer \in Create(TargetRequest("main"), "create") :
        /\ Receives(answer)
        /\ IF /\ SameInvocation(answer.result)
              /\ RefsParse(cfg.sku, mainId, result)
              /\ LegAgrees(cfg.sku, RefsOf(cfg.sku, result))
           THEN /\ refs' = RefsOf(cfg.sku, result)
                /\ Continue("download")
                /\ UNCHANGED <<leg, id, attempts, etag, mainId, result, first, nonces, evidence>>
           ELSE /\ pc' = "failed" /\ how' = "failed"
                /\ streams' = IF answer.result.ok /\ answer.result.status = 200
                              THEN {"create"} ELSE {}
                /\ UNCHANGED <<progress, evidence>>

DownloadNext ==
    /\ pc = "download" /\ refs # <<>>
    /\ \E answer \in Download(Head(refs)) :
        /\ Receives(answer)
        /\ IF answer.result.ok
           THEN /\ fetched' = fetched \cup {Head(refs)} /\ refs' = Tail(refs)
                /\ Continue("download")
                /\ UNCHANGED <<leg, id, attempts, etag, mainId, result, first, nonces,
                               receipts, printed>>
           ELSE FailsWith("failed")

\* The marker is printed when the leg is over; then the second leg begins.
DownloadedMutant == TRUE                \* printed before the downloads
Downloaded == refs = <<>>
ArtifactsDone ==
    /\ pc = "download" /\ Downloaded
    /\ Prints(<<"artifacts",
                IF cfg.sku \in Artifactual THEN "downloaded" ELSE "skipped">>)
    /\ leg' = "cancel"
    /\ Continue(IF cfg.sku = "moderation" THEN "create cancel" ELSE "mint")
    /\ UNCHANGED <<cfg, server, id, attempts, etag, mainId, result, refs, first, nonces,
                   receipts, fetched>>

\* createForCancel keeps the stream.
CreateCancel ==
    /\ pc = "create cancel"
    /\ \E answer \in Create(TargetRequest("cancel"), "cancel") :
        /\ Receives(answer)
        /\ IF IsNew(answer.result)
           THEN /\ id' = answer.result.id
                /\ PrintsPresented
                /\ pc' = "cancel" /\ UNCHANGED how
                /\ streams' = IF cfg.mode = "stream" THEN {"cancel"} ELSE {}
                /\ UNCHANGED <<leg, attempts, etag, mainId, result, refs, first, nonces,
                               receipts, fetched>>
           ELSE FailsWith(IF answer.result.ok THEN "failed" ELSE TargetFailure(answer.result))

\* cancelLegMarker: that it was too late is a result, no other error is.
TooLate(failure) ==
    failure.status = 409 /\ failure.code = "invocation_transition_conflict"
CancelIt ==
    /\ pc = "cancel"
    /\ \E answer \in Cancel(id) :
        /\ Receives(answer)
        /\ LET got == answer.result IN
            IF got.ok \/ TooLate(got)
            THEN /\ Prints(<<"cancel", IF got.ok THEN "accepted" ELSE "already_terminal">>)
                 /\ pc' = "token" /\ streams' = {} /\ UNCHANGED how
                 /\ UNCHANGED <<progress, receipts, fetched>>
            ELSE FailsWith("failed")

\* runRuntime: the token, the two catalogs, then balance, ledger and identity,
\* each asked for twice.
RuntimeCalls == <<"token", "sku catalog", "offer catalog", "balance", "balance again",
                  "ledger", "ledger again", "sync", "sync again", "passed">>
Following(call) ==
    RuntimeCalls[1 + CHOOSE c \in DOMAIN RuntimeCalls : RuntimeCalls[c] = call]

\* Amounts in a catalog are strings by the generated types.
AskOnce ==
    /\ pc \in {"token", "sku catalog", "offer catalog"}
    /\ Continue(Following(pc))
    /\ UNCHANGED <<cfg, server, progress, evidence>>

\* RuntimeClient signs every call, into the same request; the first assertion is
\* copied before it is overwritten.
Sign(operation) == [operation |-> operation, nonce |-> nonces + 1]
StrictNonce(one, other, operation) ==
    /\ one.operation = operation /\ other.operation = operation
    /\ one.nonce # other.nonce
Read(operation) ==
    /\ pc = operation
    /\ first' = Sign(operation) /\ nonces' = nonces + 1
    /\ Continue(Following(pc))
    /\ UNCHANGED <<cfg, server, leg, id, attempts, etag, mainId, result, refs, evidence>>
ReadAgain(operation) ==
    /\ pc = Following(operation)
    /\ IF StrictNonce(first, Sign(operation), operation)
       THEN /\ first' = <<>> /\ nonces' = nonces + 1
            /\ Continue(Following(pc))
            /\ UNCHANGED <<leg, id, attempts, etag, mainId, result, refs, evidence>>
       ELSE FailsWith("failed")
    /\ UNCHANGED <<cfg, server>>

\* SyncIdentity: the event's facts are the same again, the transport's are not.
Identity(event, fact, request) == [event |-> event, fact |-> fact, request |-> request]
Sync ==
    /\ pc = "sync"
    /\ \E answer \in {Answer(Identity("ours", 1, 1), inv)}
                     \cup Defect("other_event", Identity("other", 1, 1), inv) :
        /\ Receives(answer)
        /\ first' = answer.result
        /\ Continue(Following(pc))
        /\ UNCHANGED <<leg, id, attempts, etag, mainId, result, refs, nonces, evidence>>
IdentityReplay(one, other) ==
    /\ one.event = other.event /\ one.fact = other.fact
    /\ one.request # other.request
    /\ one.event = "ours"
SyncAgain ==
    /\ pc = "sync again"
    /\ \E answer \in {Answer(Identity(first.event, 1, 2), inv)}
                     \cup Defect("other_fact", Identity(first.event, 2, 2), inv)
                     \cup Defect("same_request", Identity(first.event, 1, 1), inv) :
        /\ Receives(answer)
        /\ IF IdentityReplay(first, answer.result)
           THEN Continue(Following(pc)) /\ UNCHANGED <<progress, evidence>>
           ELSE FailsWith("failed")

\* Any call may not get through, and the run's context may end.
Calls == {"mint", "poll mint", "create", "poll main", "probe", "replay", "download",
          "create cancel", "cancel"} \cup {RuntimeCalls[c] : c \in 1..9}
CallFails ==
    /\ pc \in Calls /\ (pc = "download" => refs # <<>>)
    /\ FailsWith("lost")
    /\ UNCHANGED <<cfg, server>>

Goes ==
    \/ LoadConfig \/ Setup \/ Mint \/ PollOnce \/ OutOfBudget \/ CreateMain \/ Probe
    \/ Replay \/ DownloadNext \/ ArtifactsDone \/ CreateCancel \/ CancelIt
    \/ AskOnce \/ Sync \/ SyncAgain
    \/ \E operation \in {"balance", "ledger"} : Read(operation) \/ ReadAgain(operation)
Run == Goes \/ CallFails

\* The server moves on with the invocation the run is looking at; once per
\* deployment a completed one has a result that breaks the contract.
Completed(i, value) ==
    [i EXCEPT !.state = "completed", !.version = @ + 1, !.result = value]
Advance ==
    /\ pc \in {"poll mint", "poll main", "cancel"}
    /\ LET i == inv[id] IN
        \/ /\ i.state = "accepted"
           /\ \E state \in {"running", "reconciling"} :
                inv' = [inv EXCEPT ![id].state = state, ![id].version = @ + 1]
           /\ UNCHANGED defect
        \/ /\ i.state \in {"running", "reconciling"}
           /\ \/ inv' = [inv EXCEPT ![id].state = "failed", ![id].version = @ + 1]
                 /\ UNCHANGED defect
              \/ \E value \in Results(id, i.request.sku) :
                    inv' = [inv EXCEPT ![id] = Completed(i, value)] /\ UNCHANGED defect
              \/ /\ defect = "none" /\ pc # "cancel"
                 /\ \E wrong \in WrongResults(id, i.request.sku) :
                    inv' = [inv EXCEPT ![id] = Completed(i, wrong[2])]
                    /\ defect' = wrong[1]
    /\ UNCHANGED <<cfg, pc, how, streams, progress, evidence>>

Done == pc \in {"passed", "failed"} /\ UNCHANGED vars

Next == Run \/ Advance \/ Done
Spec == Init /\ [][Next]_vars

\* Every call is answered or fails: the context ends.  That one fails is not
\* needed for the run to go on.
FairSpec == Spec /\ WF_vars(Goes)
-----------------------------------------------------------------------------
(* Properties.                                                             *)

\* What a run does not look for: another invocation's snapshot, a skipped
\* version, the id in the answer to a cancel and whether it comes to pass, what
\* the bytes with the right digest are, a probe that names nothing, and, of the
\* moderation SKU, what its result says.
Unnoticed ==
    {"stale", "ahead", "foreign", "renamed_cancel", "not_cancelled", "other_bytes",
     "unnamed_probe"}
    \cup (IF cfg.sku = "moderation" THEN {"no_receipt", "no_kind"} ELSE {})

Under(k) == {n \in DOMAIN inv : inv[n].key = k}
ExpectedMarkers ==
    IF cfg.sku = "moderation" THEN {<<"receipt", "skipped">>, <<"artifacts", "skipped">>}
    ELSE {<<"minted", l>> : l \in {"main", "cancel"}}
         \cup {<<"presented", l>> : l \in {"main", "cancel"}}
         \cup {<<"artifacts", IF cfg.sku \in Artifactual THEN "downloaded" ELSE "skipped">>}

\* A run that passes has seen one invocation, completed, for two creates with
\* one key, has every artifact of it, has used a receipt of its own in each leg,
\* has printed a marker for every leg and closed every stream -- and a server
\* that broke the contract in any way but the Unnoticed does not get that far.
PassCertifies ==
    pc = "passed" =>
        /\ defect \in {"none"} \cup Unnoticed
        /\ streams = {}
        /\ Under("create") = {mainId}
        /\ ExpectedMarkers \subseteq printed
        /\ defect # "foreign" =>
            /\ inv[mainId].state = "completed" /\ inv[mainId].result = result
            /\ fetched = {RefsOf(cfg.sku, result)[r] : r \in DOMAIN RefsOf(cfg.sku, result)}
            /\ cfg.sku # "moderation" =>
                /\ receipts["main"] # receipts["cancel"]
                /\ \A l \in {"main", "cancel"} : MintedFor(receipts[l], Subject)

\* "A marker must never testify for a leg that did not actually run": behind
\* every marker is the server's own record of the leg.
MarkersTestify ==
    /\ \A l \in {"main", "cancel"} :
        /\ <<"minted", l>> \in printed /\ defect # "foreign" =>
            \E n \in Under(IF l = "main" THEN "receipt-main" ELSE "receipt-cancel") :
                receipts[l] = n /\ MintedFor(n, Subject)
        /\ <<"presented", l>> \in printed =>
            \E n \in Under(IF l = "main" THEN "create" ELSE "cancel") :
                inv[n].request = Request(cfg.sku, receipts[l]) /\ receipts[l] # NoReceipt
    /\ <<"replay", "accepted">> \in printed => Under("receipt-replay") # {}
    /\ <<"replay", "rejected">> \in printed => Under("receipt-replay") = {}
    /\ <<"artifacts", "downloaded">> \in printed =>
        fetched # {} /\ \A r \in fetched : r.of = mainId
    /\ <<"artifacts", "skipped">> \in printed => fetched = {} /\ cfg.sku \notin Artifactual
    /\ <<"cancel", "already_terminal">> \in printed => inv[id].state \in TerminalStates
    /\ <<"cancel", "accepted">> \in printed /\ defect # "not_cancelled" =>
        inv[id].state \in TerminalStates \cup {"cancel_pending"}

\* A run fails against a server that keeps the contract only because the call was
\* lost, the configuration is no good, the invocation was slow, failed or was
\* blocked, or the server does not take the schema or moderate the target.  And
\* "blocked", which blames the hub for not moderating the target, is said only if
\* it refused that, or if nothing was sent: Validate's own code is the same.  The
\* exceptions are two breaches that have this code as well, after the moderation
\* was stored: a stream whose id NewPoller refuses, and a GET refused with it.
\* (receiptMintInvocationFailure, conformance.go:399; targetCreateFailure, 463)
NoFalseAlarm ==
    /\ pc = "failed" /\ defect = "none" =>
        \/ how \in {"lost", "config", "budget"}
        \/ cfg.input = "fraction" \/ cfg.schema = "override"
        \/ \E n \in DOMAIN inv :
            \/ inv[n].state = "failed"
            \/ /\ inv[n].request.sku = "moderation" /\ inv[n].state = "completed"
               /\ inv[n].result = Moderation("block", NoReceipt)
        \/ how = "blocked" /\ Subject.sku \notin {"text", "video"}
    /\ how = "blocked" =>
        IF defect \in {"malformed_id", "get_refused"} THEN Under(MintKey) # {}
        ELSE /\ Under(MintKey) = {}
             /\ ~Validates(MintRequest) \/ MayRefuse(MintRequest) # {}

\* The run ends, whatever the server does: every loop has a budget.
\* (pollToTerminal, conformance.go:887)
RunEnds == <>(pc \in {"passed", "failed"})
=============================================================================
