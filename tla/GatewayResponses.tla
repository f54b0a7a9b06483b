--------------------------- MODULE GatewayResponses ---------------------------
(***************************************************************************)
(* What the gateway client makes of the responses to its requests          *)
(* (gateway.go): the rules a snapshot must meet, the id in a Location, the *)
(* Content-Digest.  Pure operators; the module Conformance drives them.    *)
(* Create's errors and their retry are in GatewayCreate.                   *)
(*                                                                         *)
(* A JSON value is how it is written -- "absent", "null", or something in  *)
(* "brackets" -- with its fields by name, nested ones included.  ETags are *)
(* versions, an id 0 is none, the bytes of a body stand for themselves and *)
(* for their digest.                                                       *)
(***************************************************************************)
EXTENDS Naturals, FiniteSets, Sequences

NoId == 0
NoTag == 0

TerminalStates == {"completed", "failed", "cancelled"}
States == TerminalStates \cup
    {"accepted", "running", "cancel_pending", "reconciling",
     "settlement_shortfall"}

NoFields == [f \in {} |-> "text"]
Absent == [form |-> "absent", fields |-> NoFields]
Null == [form |-> "null", fields |-> NoFields]
Brackets(fields) == [form |-> "brackets", fields |-> fields]

\* The code of an error, or of a snapshot's error object, is one of a closed
\* set; any other is handed on as internal_error.
FrozenCodes == {"invalid_invocation_request", "moderation_invalid_request",
                "compliance_rejected", "invocation_transition_conflict",
                "invocation_not_found", "internal_error"}
KnownCode(code) == IF code \in FrozenCodes THEN code ELSE "internal_error"

Failure(status, code) == [ok |-> FALSE, status |-> status, code |-> code]
ProtocolFailure(status) == Failure(status, "internal_error")
ErrorOf(reply) == Failure(reply.status, KnownCode(reply.body.code))
-----------------------------------------------------------------------------
(* Snapshots.                                                              *)

\* gatewayJSONValueNonEmpty: [] and {} are there and have no content.
NonEmptyMutant(value) == value.form = "brackets"
NonEmpty(value) == value.form = "brackets" /\ DOMAIN value.fields # {}

\* "units" and "*_units", at any depth of lot_deductions.
UnitFields == {"units", "settled_units"}
DecimalUnits(value) ==
    \A f \in DOMAIN value.fields \cap UnitFields :
        value.fields[f] \in {"decimal", "null"}

ValidSnapshot(s) ==
    /\ s.id # NoId /\ s.version > 0 /\ s.named
    /\ s.state \in States
    /\ s.terminal = (s.state \in TerminalStates)
    /\ s.units \in {"decimal", "null"}
    /\ s.state # "completed" => ~NonEmpty(s.result) /\ ~NonEmpty(s.lots)
    /\ NonEmpty(s.lots) => DecimalUnits(s.lots)

\* The envelope is JSON with a request id, of at most 4 MiB.
Decodes(body) == body.kind = "snapshot" /\ ValidSnapshot(body.snapshot)
NoSnapshot == [id |-> NoId, terminal |-> FALSE]

\* GetWithETag.
GetResult(reply, etag) ==
    CASE reply.status = 304 ->
            [ok |-> TRUE, snapshot |-> NoSnapshot,
             etag |-> IF reply.etag = NoTag THEN etag ELSE reply.etag]
      [] reply.status >= 400 -> ErrorOf(reply)
      [] OTHER ->
            IF /\ reply.status = 200 /\ reply.media /\ Decodes(reply.body)
               /\ reply.etag = reply.body.snapshot.version
            THEN [ok |-> TRUE, snapshot |-> reply.body.snapshot, etag |-> reply.etag]
            ELSE ProtocolFailure(reply.status)
-----------------------------------------------------------------------------
(* CreateAsync, CreateStream, Cancel and DownloadArtifact.                 *)

\* invocationIDFromLocation: of this origin, an invocation's path and nothing
\* else, with an id the server may have issued.
LocationId(location) ==
    IF /\ location.origin \in {"relative", "base"}
       /\ location.path = "invocation" /\ location.plain
    THEN location.id ELSE NoId

Created(status, id) == [ok |-> TRUE, status |-> status, id |-> id]
CreateResult(reply, mode) ==
    CASE reply.status = 303 ->
            IF LocationId(reply.location) = NoId THEN ProtocolFailure(303)
            ELSE Created(303, LocationId(reply.location))
      [] reply.status >= 400 -> ErrorOf(reply)
      [] OTHER ->
            CASE mode = "stream" /\ reply.status = 200 /\ reply.media ->
                    Created(200, NoId)      \* the stream's events will name it
              [] mode = "async" /\ reply.status = 202 /\ reply.media
                 /\ Decodes(reply.body)
                 /\ LocationId(reply.location) = reply.body.snapshot.id ->
                    Created(202, reply.body.snapshot.id)
              [] OTHER -> ProtocolFailure(reply.status)

\* Only a cancellation that was just accepted may come without a snapshot.
CancelResult(reply) ==
    CASE reply.status >= 400 -> ErrorOf(reply)
      [] /\ reply.status < 400
         /\ reply.status \notin {200, 202} \/ reply.body.kind = "unreadable" ->
            ProtocolFailure(reply.status)
      [] reply.status = 202 /\ reply.body.kind = "empty" ->
            [ok |-> TRUE, accepted |-> TRUE, id |-> LocationId(reply.location)]
      [] OTHER ->
            IF Decodes(reply.body)
            THEN [ok |-> TRUE, accepted |-> reply.status = 202,
                  id |-> reply.body.snapshot.id]
            ELSE ProtocolFailure(reply.status)

\* verifyGatewayContentDigest: a well formed sha-256 member and nothing else.
DigestVerifies(digest, bytes) == digest.form = "sha-256" /\ digest.bytes = bytes

\* The body is read to its end, then verified, then written to dst.
DownloadResult(reply) ==
    CASE reply.status >= 400 -> ErrorOf(reply)
      [] reply.status < 400 /\ reply.status # 200 -> ProtocolFailure(reply.status)
      [] OTHER ->
            IF /\ reply.body.kind = "bytes"
               /\ DigestVerifies(reply.digest, reply.body.bytes)
            THEN [ok |-> TRUE, written |-> reply.body.bytes]
            ELSE ProtocolFailure(200)
=============================================================================
