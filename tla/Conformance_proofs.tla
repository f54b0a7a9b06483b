------------------------- MODULE Conformance_proofs -------------------------
(***************************************************************************)
(* Proofs about Conformance, for any configurations, any number of polls   *)
(* and any number of images.  First what each call may be answered, then   *)
(* the inductive invariant of a run that has not failed: which keys have   *)
(* been used, what the invocations hold, what the run has looked at and    *)
(* printed, and which breach of the contract is still to be noticed.       *)
(***************************************************************************)
EXTENDS Conformance, TLAPS

Legs == {"main", "cancel"}
MintKeyOf(l) == IF l = "main" THEN "receipt-main" ELSE "receipt-cancel"
TargetKeyOf(l) == IF l = "main" THEN "create" ELSE "cancel"
Keys == {"receipt-main", "receipt-cancel", "create", "cancel", "receipt-replay"}

\* Every result an invocation can hold, right or wrong.
ValuesOf(n, sku) == Results(n, sku) \cup {wrong[2] : wrong \in WrongResults(n, sku)}
Value == {Null} \cup UNION {ValuesOf(n, sku) : n \in Nat, sku \in SKUs}
SubjectType ==
    [sku : SKUs, schema : {"registered", "override"},
     input : {"default", "fraction", "garbage"}]
Invocation ==
    [key : Keys, request : [sku : SKUs, subject : SubjectType, receipt : Nat],
     state : States, version : Nat \ {0}, result : Value]

RuntimePCs == {"token", "sku catalog", "offer catalog", "balance", "balance again",
               "ledger", "ledger again", "sync", "sync again", "passed"}
PCs == {"config", "setup", "mint", "poll mint", "create", "poll main", "probe", "replay",
        "download", "create cancel", "cancel", "failed"} \cup RuntimePCs

\* The variables the properties speak of have their types.
RunTypeOK ==
    /\ cfg \in Configs
    /\ inv \in Seq(Invocation)
    /\ pc \in PCs
    /\ leg \in Legs
    /\ id \in 0..Len(inv) /\ mainId \in 0..Len(inv)
    /\ attempts \in Nat /\ etag \in Nat /\ nonces \in Nat
    /\ result \in Value
    /\ receipts \in [Legs -> Nat]

\* What a leg has not reached yet: its moderation, its receipt, its target.
BeforeMint(l) ==
    IF l = "main" THEN leg = "main" /\ pc \in {"config", "setup", "mint"}
    ELSE leg = "main" \/ pc = "mint"
BeforeReceipt(l) == BeforeMint(l) \/ (leg = l /\ pc = "poll mint")
BeforeTarget(l) ==
    BeforeReceipt(l) \/ (leg = l /\ pc = IF l = "main" THEN "create" ELSE "create cancel")
BeforeProbe == leg = "main" /\ (BeforeTarget("main") \/ pc \in {"poll main", "probe"})
BeforeCancel == leg = "main" \/ pc \in {"mint", "poll mint", "create cancel", "cancel"}

\* The order of the calls.
ControlInv ==
    /\ leg = "main" =>
        pc \in {"config", "setup", "mint", "poll mint", "create", "poll main", "probe",
                "replay", "download"}
    /\ leg = "cancel" =>
        pc \in {"mint", "poll mint", "create cancel", "cancel"} \cup RuntimePCs
    /\ pc # "config" => cfg.sku \in SKUs /\ cfg.mode \in {"async", "stream"}
    /\ cfg.sku = "moderation" => pc \notin {"mint", "poll mint", "probe"}
    /\ streams # {} => pc = "cancel"
    /\ how = "none"

\* Which markers are printed is known from where the run is.
MarkerInv ==
    /\ \A l \in Legs :
        /\ <<"minted", l>> \in printed <=> cfg.sku # "moderation" /\ ~BeforeReceipt(l)
        /\ <<"presented", l>> \in printed <=> cfg.sku # "moderation" /\ ~BeforeTarget(l)
    /\ \A x \in {"accepted", "rejected"} : <<"replay", x>> \in printed => ~BeforeProbe
    /\ \A x \in {"downloaded", "skipped"} : <<"artifacts", x>> \in printed <=>
        leg = "cancel" /\ x = IF cfg.sku \in Artifactual THEN "downloaded" ELSE "skipped"
    /\ <<"receipt", "skipped">> \in printed <=>
        cfg.sku = "moderation" /\ pc \notin {"config", "setup"}
    /\ \A x \in {"accepted", "already_terminal"} :
        <<"cancel", x>> \in printed => ~BeforeCancel

\* A key has not been used before its call, and the main key made one
\* invocation.
KeysInv ==
    /\ \A l \in Legs : BeforeMint(l) => Under(MintKeyOf(l)) = {}
    /\ \A l \in Legs : BeforeTarget(l) => Under(TargetKeyOf(l)) = {}
    /\ BeforeProbe => Under("receipt-replay") = {}
    /\ ~BeforeTarget("main") => Under("create") = {mainId}

RequestOf(k) ==
    IF k \in {"receipt-main", "receipt-cancel"} THEN MintRequest
    ELSE IF k = "cancel" THEN TargetRequest("cancel") ELSE TargetRequest("main")

\* An invocation holds what was asked for under its key, and a result of its
\* SKU when it is completed, unless the server broke the contract there.
ServerInv ==
    \A n \in DOMAIN inv :
        /\ inv[n].request = RequestOf(inv[n].key)
        /\ inv[n].state = "completed" =>
            \/ inv[n].result \in Results(n, inv[n].request.sku)
            \/ <<defect, inv[n].result>> \in WrongResults(n, inv[n].request.sku)
        /\ inv[n].state # "completed" => inv[n].result = Null
        /\ inv[n].state \in {"cancelled", "cancel_pending"} => inv[n].key = "cancel"

\* The invocation the run looks at is the one its latest create made.
LookInv ==
    /\ pc = "poll mint" => id \in Under(MintKeyOf(leg))
    /\ pc = "poll main" => id = mainId
    /\ ~BeforeTarget("cancel") => id \in Under("cancel")

\* The receipt of a leg is the one its own moderation minted.
ReceiptInv ==
    \A l \in Legs : cfg.sku # "moderation" /\ ~BeforeReceipt(l) =>
        /\ receipts[l] # NoReceipt
        /\ defect # "foreign" =>
            receipts[l] \in Under(MintKeyOf(l)) /\ MintedFor(receipts[l], Subject)

RefSet(value) == {RefsOf(cfg.sku, value)[r] : r \in DOMAIN RefsOf(cfg.sku, value)}

\* The result the run works with is the main invocation's, and every artifact
\* it names is fetched or still to be fetched.
ResultInv ==
    /\ ~BeforeTarget("main") /\ pc # "poll main" /\ defect # "foreign" =>
        inv[mainId].state = "completed" /\ inv[mainId].result = result
    /\ pc = "download" \/ leg = "cancel" =>
        /\ RefsParse(cfg.sku, mainId, result)
        /\ LegAgrees(cfg.sku, RefsOf(cfg.sku, result))
        /\ refs \in Seq(RefSet(result))
        /\ fetched \cup {refs[r] : r \in DOMAIN refs} = RefSet(result)
    /\ leg = "main" /\ pc # "download" => fetched = {}
    /\ leg = "cancel" => refs = <<>>

\* The first answer of two is the one the run was given last.
FirstInv ==
    /\ pc = "balance again" => first = [operation |-> "balance", nonce |-> nonces]
    /\ pc = "ledger again" => first = [operation |-> "ledger", nonce |-> nonces]
    /\ pc = "sync again" =>
        \/ first = Identity("ours", 1, 1)
        \/ first = Identity("other", 1, 1) /\ defect = "other_event"

\* A breach the run does notice is still before it.
DefectInv ==
    \/ defect \in {"none"} \cup Unnoticed
    \/ /\ pc \in {"poll mint", "poll main"} /\ inv[id].state = "completed"
       /\ <<defect, inv[id].result>> \in WrongResults(id, inv[id].request.sku)
    \/ /\ pc \in {"probe", "replay"}
       /\ <<defect, result>> \in WrongResults(mainId, cfg.sku)
    \/ pc = "sync again" /\ defect = "other_event" /\ first.event = "other"
    \/ defect = "malformed_id" /\ pc \in {"poll mint", "poll main", "cancel"}

\* What the probe and the cancel marker say is so.
EvidenceInv ==
    /\ <<"replay", "accepted">> \in printed => Under("receipt-replay") # {}
    /\ <<"replay", "rejected">> \in printed => Under("receipt-replay") = {}
    /\ <<"cancel", "already_terminal">> \in printed => inv[id].state \in TerminalStates
    /\ <<"cancel", "accepted">> \in printed /\ defect # "not_cancelled" =>
        inv[id].state \in TerminalStates \cup {"cancel_pending"}

RunInv ==
    pc # "failed" =>
        /\ ControlInv /\ MarkerInv /\ KeysInv /\ ServerInv /\ LookInv
        /\ ReceiptInv /\ ResultInv /\ FirstInv /\ DefectInv /\ EvidenceInv
Running == RunTypeOK /\ RunInv /\ pc # "failed"

IInv == RunTypeOK /\ RunInv /\ MarkersTestify /\ NoFalseAlarm
-----------------------------------------------------------------------------
(* What the client hands on.                                               *)

\* An invocation that a snapshot can show.
Showable(i) ==
    i.version \in Nat \ {0} /\ i.state \in States /\ (i.state # "completed" => i.result = Null)

\* A snapshot of such an invocation meets the rules.
LEMMA SnapshotShape ==
    ASSUME NEW n, NEW i
    PROVE  LET s == SnapshotOf(n, i) IN
           /\ s.id = n /\ s.version = i.version /\ s.named /\ s.state = i.state
           /\ s.terminal = (i.state \in TerminalStates) /\ s.units = "decimal"
           /\ s.result = i.result
           /\ s.state # "completed" => ~NonEmpty(s.lots)
           /\ NonEmpty(s.lots) => DecimalUnits(s.lots)
<1>1. LET s == SnapshotOf(n, i) IN
           /\ s.id = n /\ s.version = i.version /\ s.named /\ s.state = i.state
           /\ s.terminal = (i.state \in TerminalStates) /\ s.units = "decimal"
           /\ s.result = i.result
    BY DEF SnapshotOf
<1>2. LET s == SnapshotOf(n, i) IN
           /\ s.state # "completed" => ~NonEmpty(s.lots)
           /\ NonEmpty(s.lots) => DecimalUnits(s.lots)
    BY DEF SnapshotOf, Brackets, NoFields, NonEmpty, DecimalUnits, UnitFields
<1>3. QED
    BY <1>1, <1>2

\* The client accepts the snapshot of any invocation a run's server can hold.
LEMMA SnapshotValid ==
    ASSUME NEW n \in Nat \ {0}, NEW i, Showable(i)
    PROVE  ValidSnapshot(SnapshotOf(n, i))
BY SnapshotShape DEF Showable, ValidSnapshot, NonEmpty, Null, NoId

\* An id that is none makes no snapshot valid.
LEMMA UnnamedInvalid == \A i : ~ValidSnapshot(SnapshotOf(NoId, i))
BY SnapshotShape DEF ValidSnapshot

\* A Location leads back to the id it was made of.
LEMMA LocationNamed == \A n \in Nat : LocationId(Location(n)) = n
BY DEF LocationId, Location, NoId

\* A create that is stored names its invocation, at once or by an event.
LEMMA StoredCreated ==
    ASSUME NEW n \in Nat \ {0}, NEW i, Showable(i), cfg.mode \in {"async", "stream"}
    PROVE  LET r == CreateForMode(StoredReply(n, i)) IN
           r.ok /\ r.status \in {200, 202} /\ r.id = n
<1>1. CASE cfg.mode = "async"
  <2>1. StoredReply(n, i) = Reply(202, NoTag, Location(n), Holds(SnapshotOf(n, i)))
    BY <1>1 DEF StoredReply
  <2>2. CreateResult(StoredReply(n, i), cfg.mode) = Created(202, n)
    BY <1>1, <2>1, LocationNamed, SnapshotValid, SnapshotShape
       DEF CreateResult, Reply, Decodes, Holds
  <2>3. QED
    BY <2>2 DEF CreateForMode, Created, NoId
<1>2. CASE cfg.mode = "stream"
  <2>1. StoredReply(n, i) = Reply(200, NoTag, Location(NoId), [kind |-> "events", id |-> n])
    BY <1>2 DEF StoredReply
  <2>2. CreateResult(StoredReply(n, i), cfg.mode) = Created(200, NoId)
    BY <1>2, <2>1 DEF CreateResult, Reply
  <2>3. QED
    BY <2>1, <2>2 DEF CreateForMode, Created, NoId, Reply
<1>3. QED
    BY <1>1, <1>2

\* One that names nothing is not taken for a new invocation.
LEMMA UnnamedCreated ==
    ASSUME NEW i, cfg.mode \in {"async", "stream"}
    PROVE  LET r == CreateForMode(StoredReply(NoId, i)) IN
           /\ ~IsNew(r)
           /\ ~r.ok => r.code = "internal_error"
           /\ r.ok => r.status = 200
<1>1. CASE cfg.mode = "async"
  <2>1. StoredReply(NoId, i) = Reply(202, NoTag, Location(NoId), Holds(SnapshotOf(NoId, i)))
    BY <1>1 DEF StoredReply
  <2>2. CreateResult(StoredReply(NoId, i), cfg.mode) = ProtocolFailure(202)
    BY <1>1, <2>1, UnnamedInvalid DEF CreateResult, Reply, Decodes, Holds
  <2>3. QED
    BY <2>2 DEF CreateForMode, ProtocolFailure, Failure, IsNew
<1>2. CASE cfg.mode = "stream"
  <2>1. StoredReply(NoId, i) = Reply(200, NoTag, Location(NoId), [kind |-> "events", id |-> NoId])
    BY <1>2 DEF StoredReply
  <2>2. CreateResult(StoredReply(NoId, i), cfg.mode) = Created(200, NoId)
    BY <1>2, <2>1 DEF CreateResult, Reply
  <2>3. QED
    BY <2>1, <2>2 DEF CreateForMode, Created, NoId, Reply, IsNew
<1>3. QED
    BY <1>1, <1>2

\* A 303 leads to the invocation it names.
LEMMA ReplayCreated ==
    ASSUME NEW n \in Nat \ {0}
    PROVE  CreateForMode(Reply(303, NoTag, Location(n), Nothing)) = Created(303, n)
<1>1. CreateResult(Reply(303, NoTag, Location(n), Nothing), cfg.mode) = Created(303, n)
    BY LocationNamed DEF CreateResult, Reply, NoId
<1>2. QED
    BY <1>1 DEF CreateForMode, Created, NoId

\* A refusal is handed on with its code.
LEMMA RefusedCreated ==
    ASSUME NEW status \in {400, 500}, NEW code \in FrozenCodes
    PROVE  CreateForMode(ErrorReply(status, code)) = Failure(status, code)
<1>1. CreateResult(ErrorReply(status, code), cfg.mode) = Failure(status, code)
    BY DEF CreateResult, ErrorReply, Reply, ErrorOf, Code, KnownCode
<1>2. QED
    BY <1>1 DEF CreateForMode, Failure
-----------------------------------------------------------------------------
(* What a create is answered.                                              *)

Made(request, k) == Append(inv, NewInvocation(request, k))
Next1 == Len(inv) + 1

\* The three answers that leave the server's contract whole, and the two others.
RefusedAs(answer, codes) ==
    /\ answer.inv = inv /\ answer.defect = defect
    /\ ~answer.result.ok /\ answer.result.code \in codes
Stored(answer, request, k) ==
    /\ answer.inv = Made(request, k)
    /\ \/ answer.defect = defect
       \/ defect = "none" /\ answer.defect = "malformed_id" /\ k # "receipt-replay"
    /\ answer.result.ok /\ answer.result.status \in {200, 202} /\ answer.result.id = Next1
Denied(answer, request, k) ==
    /\ defect = "none" /\ answer.defect \notin {"none", "foreign", "not_cancelled"}
    /\ answer.defect \in Unnoticed => answer.defect = "unnamed_probe" /\ k = "receipt-replay"
    /\ answer.inv = Made(request, k)
    /\ ~IsNew(answer.result)
    /\ ~answer.result.ok => answer.result.code = "internal_error"
    /\ answer.result.ok => answer.result.status \in {200, 303}
    /\ k = "receipt-replay" /\ answer.result.ok /\ answer.result.status = 200 =>
          answer.defect = "unnamed_probe"

\* With a key nobody has used.
LEMMA FreshCreate ==
    ASSUME NEW request, NEW k, NEW answer \in Create(request, k),
           inv \in Seq(Invocation), cfg.mode \in {"async", "stream"}, Under(k) = {}
    PROVE  \/ /\ ~Validates(request)
              /\ RefusedAs(answer, {"invalid_invocation_request"})
           \/ /\ Validates(request) /\ MustRefuse(request) # {}
              /\ RefusedAs(answer, MustRefuse(request))
           \/ /\ Validates(request) /\ MustRefuse(request) = {}
              /\ \/ RefusedAs(answer, MayRefuse(request))
                 \/ Stored(answer, request, k)
                 \/ Denied(answer, request, k)
<1> DEFINE new == NewInvocation(request, k)
           Refused(code) == CreateForMode(
               ErrorReply(IF code = "internal_error" THEN 500 ELSE 400, code))
<1>1. Next1 \in Nat \ {0} /\ Showable(new)
    BY DEF Next1, Showable, NewInvocation, States
<1>2. ASSUME NEW code \in MustRefuse(request) \cup MayRefuse(request),
             answer = Answer(Refused(code), inv)
      PROVE  RefusedAs(answer, {code})
  <2>1. code \in FrozenCodes
    BY DEF MustRefuse, MayRefuse, FrozenCodes
  <2>2. PICK status \in {400, 500} : answer = Answer(CreateForMode(ErrorReply(status, code)), inv)
    BY <1>2
  <2>3. answer = Answer(Failure(status, code), inv)
    BY <2>1, <2>2, RefusedCreated
  <2>4. QED
    BY <2>3 DEF Answer, Failure, RefusedAs
<1>3. CASE ~Validates(request)
  <2>1. answer = Answer(Failure(0, "invalid_invocation_request"), inv)
    BY <1>3 DEF Create
  <2>2. QED
    BY <1>3, <2>1 DEF Answer, Failure, RefusedAs
<1>4. CASE Validates(request)
  <2>1. answer \in FreshAnswers(request, k)
    BY <1>4 DEF Create, Under
  <2>2. CASE MustRefuse(request) # {}
    <3>1. PICK code \in MustRefuse(request) : answer = Answer(Refused(code), inv)
      BY <2>1, <2>2 DEF FreshAnswers
    <3>2. RefusedAs(answer, {code})
      BY <1>2, <3>1
    <3>3. QED
      BY <1>4, <2>2, <3>1, <3>2 DEF RefusedAs
  <2>3. CASE MustRefuse(request) = {}
    <3>1. \/ \E code \in MayRefuse(request) : answer = Answer(Refused(code), inv)
          \/ answer = Answer(CreateForMode(StoredReply(Next1, new)), Made(request, k))
          \/ answer \in Defect("exists_already",
                 CreateForMode(Reply(303, NoTag, Location(Next1), Nothing)), Made(request, k))
          \/ answer \in Defect(IF k = "receipt-replay" THEN "unnamed_probe" ELSE "unnamed",
                 CreateForMode(StoredReply(NoId, new)), Made(request, k))
          \/ /\ k # "receipt-replay"
             /\ answer \in Defect("malformed_id",
                    CreateForMode(StoredReply(Next1, new)), Made(request, k))
      BY <2>1, <2>3 DEF FreshAnswers, Next1, Made
    <3>2. CASE \E code \in MayRefuse(request) : answer = Answer(Refused(code), inv)
      <4>1. PICK code \in MayRefuse(request) : answer = Answer(Refused(code), inv)
        BY <3>2
      <4>2. RefusedAs(answer, {code})
        BY <1>2, <4>1
      <4>3. QED
        BY <1>4, <2>3, <4>1, <4>2 DEF RefusedAs
    <3>3. CASE answer = Answer(CreateForMode(StoredReply(Next1, new)), Made(request, k))
      BY <1>1, <1>4, <2>3, <3>3, StoredCreated DEF Answer, Stored
    <3>4. CASE answer \in Defect("exists_already",
                 CreateForMode(Reply(303, NoTag, Location(Next1), Nothing)), Made(request, k))
      <4>1. answer = [result |-> Created(303, Next1), inv |-> Made(request, k),
                      defect |-> "exists_already"] /\ defect = "none"
        BY <1>1, <3>4, ReplayCreated DEF Defect
      <4>2. QED
        BY <1>4, <2>3, <4>1 DEF Denied, Created, IsNew, Unnoticed
    <3>5. CASE answer \in Defect(IF k = "receipt-replay" THEN "unnamed_probe" ELSE "unnamed",
                 CreateForMode(StoredReply(NoId, new)), Made(request, k))
      <4>1. /\ answer.result = CreateForMode(StoredReply(NoId, new)) /\ answer.inv = Made(request, k)
            /\ answer.defect = IF k = "receipt-replay" THEN "unnamed_probe" ELSE "unnamed"
            /\ defect = "none"
        BY <3>5 DEF Defect
      <4>2. /\ ~IsNew(answer.result)
            /\ ~answer.result.ok => answer.result.code = "internal_error"
            /\ answer.result.ok => answer.result.status = 200
        BY <4>1, UnnamedCreated
      <4>3. QED
        BY <1>4, <2>3, <4>1, <4>2 DEF Denied, Unnoticed
    <3>6. CASE /\ k # "receipt-replay"
               /\ answer \in Defect("malformed_id",
                      CreateForMode(StoredReply(Next1, new)), Made(request, k))
      BY <1>1, <1>4, <2>3, <3>6, StoredCreated DEF Defect, Stored
    <3>7. QED
      BY <3>1, <3>2, <3>3, <3>4, <3>5, <3>6
  <2>4. QED
    BY <2>2, <2>3
<1>5. QED
    BY <1>3, <1>4

\* With a key that stands for one invocation.
LEMMA KnownCreate ==
    ASSUME NEW request, NEW k, NEW n, NEW answer \in Create(request, k),
           inv \in Seq(Invocation), cfg.mode \in {"async", "stream"}, Under(k) = {n}
    PROVE  \/ ~Validates(request) /\ RefusedAs(answer, {"invalid_invocation_request"})
           \/ /\ answer.inv = inv /\ answer.defect = defect
              /\ answer.result = Created(303, n)
           \/ /\ answer.inv = Made(request, k) /\ defect = "none"
              /\ answer.defect \in {"second_create", "other_location"}
              /\ answer.result.ok /\ answer.result.id # n
<1>1. Next1 \in Nat \ {0} /\ Showable(NewInvocation(request, k)) /\ n \in DOMAIN inv /\ n # Next1
      /\ n \in Nat \ {0}
    BY DEF Next1, Showable, NewInvocation, States, Under
<1>2. CASE ~Validates(request)
  <2>1. answer = Answer(Failure(0, "invalid_invocation_request"), inv)
    BY <1>2 DEF Create
  <2>2. QED
    BY <1>2, <2>1 DEF Answer, Failure, RefusedAs
<1>3. CASE Validates(request)
  <2>1. answer \in ReplayAnswers(n, request, k)
    BY <1>3 DEF Create, Under
  <2>2. \/ answer = Answer(Created(303, n), inv)
        \/ answer \in Defect("second_create",
               CreateForMode(StoredReply(Next1, NewInvocation(request, k))), Made(request, k))
        \/ answer \in Defect("other_location", Created(303, Next1), Made(request, k))
    BY <1>1, <2>1, ReplayCreated DEF ReplayAnswers, Next1, Made
  <2>3. CASE answer = Answer(Created(303, n), inv)
    BY <2>3 DEF Answer
  <2>4. CASE answer \in Defect("second_create",
               CreateForMode(StoredReply(Next1, NewInvocation(request, k))), Made(request, k))
    <3>1. /\ answer.inv = Made(request, k) /\ defect = "none" /\ answer.defect = "second_create"
          /\ answer.result = CreateForMode(StoredReply(Next1, NewInvocation(request, k)))
      BY <2>4 DEF Defect
    <3>2. answer.result.ok /\ answer.result.id = Next1
      BY <1>1, <3>1, StoredCreated
    <3>3. QED
      BY <1>1, <3>1, <3>2
  <2>5. CASE answer \in Defect("other_location", Created(303, Next1), Made(request, k))
    BY <1>1, <2>5 DEF Defect, Created
  <2>6. QED
    BY <2>2, <2>3, <2>4, <2>5
<1>4. QED
    BY <1>2, <1>3
-----------------------------------------------------------------------------
(* What a poll, a download and a cancel are answered.                      *)

\* A snapshot is believed when it meets the rules and the ETag is its version.
LEMMA Shown ==
    ASSUME NEW tag, NEW s, NEW e
    PROVE  GetResult(Reply(200, tag, Location(NoId), Holds(s)), e) =
             IF ValidSnapshot(s) /\ tag = s.version
             THEN [ok |-> TRUE, snapshot |-> s, etag |-> tag] ELSE ProtocolFailure(200)
<1> DEFINE reply == Reply(200, tag, Location(NoId), Holds(s))
<1>1. reply.status = 200 /\ reply.media /\ reply.etag = tag /\ reply.body = Holds(s)
    BY DEF Reply
<1>2. Holds(s).snapshot = s /\ (Decodes(Holds(s)) <=> ValidSnapshot(s))
    BY DEF Holds, Decodes
<1>3. GetResult(reply, e) =
        IF reply.status = 200 /\ reply.media /\ Decodes(reply.body)
           /\ reply.etag = reply.body.snapshot.version
        THEN [ok |-> TRUE, snapshot |-> reply.body.snapshot, etag |-> reply.etag]
        ELSE ProtocolFailure(reply.status)
  <2>1. reply.status # 304 /\ ~(reply.status >= 400)
    BY <1>1
  <2> HIDE DEF reply
  <2>2. QED
    BY <2>1 DEF GetResult
<1> HIDE DEF reply
<1>4. reply.body.snapshot = s /\ (Decodes(reply.body) <=> ValidSnapshot(s))
    BY <1>1, <1>2
<1>5. GetResult(reply, e) = IF ValidSnapshot(s) /\ tag = s.version
        THEN [ok |-> TRUE, snapshot |-> s, etag |-> tag] ELSE ProtocolFailure(200)
    BY <1>1, <1>3, <1>4
<1>6. QED
    BY <1>5 DEF reply

\* A 304 tells nothing about the invocation.
LEMMA NotModified ==
    ASSUME NEW tag, NEW e
    PROVE  LET r == GetResult(Reply(304, tag, Location(NoId), Nothing), e) IN
           r.ok /\ ~r.snapshot.terminal /\ r.etag = IF tag = NoTag THEN e ELSE tag
BY DEF GetResult, Reply, NoSnapshot

\* The answer that shows s, one that tells nothing, and a failure; other is the
\* breach it came with, or defect when there was none.
Shows(answer, s) ==
    answer.result.ok /\ answer.result.snapshot = s /\ answer.result.etag = s.version
TellsNothing(answer) ==
    answer.result.ok /\ ~answer.result.snapshot.terminal /\ answer.result.etag \in Nat
PollFails(answer) ==
    ~answer.result.ok /\ answer.result.code \in {"internal_error", "invocation_not_found"}
PollRefused(answer) ==
    ~answer.result.ok /\ answer.result.code = "invalid_invocation_request"

\* What a poll may be answered: nothing new, the invocation's own snapshot, or
\* one of the breaches, each with the defect that records it.
LEMMA PollAnswers ==
    ASSUME NEW n, n \in DOMAIN inv, NEW answer \in GetAnswers(n), etag \in Nat,
           inv \in Seq(Invocation),
           \A m \in DOMAIN inv : inv[m].state # "completed" => inv[m].result = Null
    PROVE  /\ answer.inv = inv
           /\ \/ /\ answer.defect = defect
                 /\ TellsNothing(answer) \/ Shows(answer, SnapshotOf(n, inv[n]))
              \/ /\ defect = "none" /\ answer.defect \in {"stale", "ahead"}
                 /\ TellsNothing(answer)
              \/ /\ defect = "none" /\ answer.defect = "foreign"
                 /\ \E m \in DOMAIN inv : Shows(answer, SnapshotOf(m, inv[m]))
              \/ defect = "none" /\ answer.defect # "none" /\ PollFails(answer)
              \/ defect = "none" /\ answer.defect = "get_refused" /\ PollRefused(answer)
<1> DEFINE s == SnapshotOf(n, inv[n])
           Got(reply) == GetResult(reply, etag)
           Showing(tag, snapshot) == Got(Reply(200, tag, Location(NoId), Holds(snapshot)))
           Same(tag) == Got(Reply(304, tag, Location(NoId), Nothing))
           Broken(name, outcome) ==
                defect = "none" /\ answer = [result |-> outcome, inv |-> inv, defect |-> name]
<1>1. ASSUME NEW m \in DOMAIN inv PROVE m \in Nat \ {0} /\ Showable(inv[m])
  <2>1. m \in Nat \ {0} /\ inv[m] \in Invocation
    OBVIOUS
  <2>2. QED
    BY <2>1 DEF Showable, Invocation
<1>2. s.version \in Nat \ {0} /\ s.version = inv[n].version
    BY <1>1, SnapshotShape DEF Showable
<1>3. ASSUME NEW m \in DOMAIN inv
      PROVE  LET r == Showing(inv[m].version, SnapshotOf(m, inv[m])) IN
             r.ok /\ r.snapshot = SnapshotOf(m, inv[m]) /\ r.etag = SnapshotOf(m, inv[m]).version
  <2>1. ValidSnapshot(SnapshotOf(m, inv[m])) /\ SnapshotOf(m, inv[m]).version = inv[m].version
    BY <1>1, SnapshotValid, SnapshotShape
  <2>2. QED
    BY <2>1, Shown
<1>4. ASSUME NEW tag \in Nat
      PROVE  Same(tag).ok /\ ~Same(tag).snapshot.terminal /\ Same(tag).etag \in Nat
    BY NotModified
<1>5. ASSUME NEW tag, NEW snapshot, ~(ValidSnapshot(snapshot) /\ tag = snapshot.version)
      PROVE  Showing(tag, snapshot) = ProtocolFailure(200)
    BY <1>5, Shown
<1>6. \/ answer = Answer(Same(NoTag), inv) \/ answer = Answer(Same(s.version), inv)
      \/ answer = Answer(Showing(s.version, s), inv)
      \/ Broken("stale", Same(etag)) \/ Broken("ahead", Same(s.version + 1))
      \/ Broken("terminal_flag", Showing(s.version, [s EXCEPT !.terminal = ~s.terminal]))
      \/ Broken("unknown_state", Showing(s.version, [s EXCEPT !.state = "paused"]))
      \/ Broken("other_etag", Showing(s.version + 1, s))
      \/ Broken("vanished", Got(ErrorReply(404, "invocation_not_found")))
      \/ Broken("get_refused", Got(ErrorReply(400, "invalid_invocation_request")))
      \/ ~s.terminal /\ Broken("early_result",
                Showing(s.version, [s EXCEPT !.result = Brackets([kind |-> "text"])]))
      \/ s.state = "completed" /\ Broken("bare_units",
                Showing(s.version, [s EXCEPT !.lots = Brackets([settled_units |-> "number"])]))
      \/ \E m \in DOMAIN inv : Broken("foreign", Showing(inv[m].version, SnapshotOf(m, inv[m])))
    BY DEF GetAnswers, Defect
<1> HIDE DEF s, Got, Showing, Same
<1>7. CASE answer = Answer(Same(NoTag), inv) \/ answer = Answer(Same(s.version), inv)
    BY <1>2, <1>4, <1>7 DEF Answer, TellsNothing, NoTag
<1>8. CASE answer = Answer(Showing(s.version, s), inv)
    BY <1>2, <1>3, <1>8 DEF Answer, Shows, s
<1>9. CASE Broken("stale", Same(etag)) \/ Broken("ahead", Same(s.version + 1))
    BY <1>2, <1>4, <1>9 DEF TellsNothing
<1>10. CASE Broken("terminal_flag", Showing(s.version, [s EXCEPT !.terminal = ~s.terminal]))
  <2>1. ~ValidSnapshot([s EXCEPT !.terminal = ~s.terminal])
    BY DEF ValidSnapshot, s, SnapshotOf
  <2>2. QED
    BY <1>5, <1>10, <2>1 DEF PollFails, ProtocolFailure, Failure
<1>11. CASE Broken("unknown_state", Showing(s.version, [s EXCEPT !.state = "paused"]))
  <2>1. ~ValidSnapshot([s EXCEPT !.state = "paused"])
    BY DEF ValidSnapshot, s, SnapshotOf, States, TerminalStates
  <2>2. QED
    BY <1>5, <1>11, <2>1 DEF PollFails, ProtocolFailure, Failure
<1>12. CASE Broken("other_etag", Showing(s.version + 1, s))
    BY <1>2, <1>5, <1>12 DEF PollFails, ProtocolFailure, Failure
<1>13. CASE Broken("vanished", Got(ErrorReply(404, "invocation_not_found")))
  <2>1. Got(ErrorReply(404, "invocation_not_found")) = Failure(404, "invocation_not_found")
    BY DEF Got, GetResult, ErrorReply, Reply, ErrorOf, Code, KnownCode, FrozenCodes
  <2>2. QED
    BY <1>13, <2>1 DEF PollFails, Failure
<1>14. CASE ~s.terminal /\ Broken("early_result",
                Showing(s.version, [s EXCEPT !.result = Brackets([kind |-> "text"])]))
  <2>1. ~ValidSnapshot([s EXCEPT !.result = Brackets([kind |-> "text"])])
    <3>1. NonEmpty(Brackets([kind |-> "text"]))
      BY DEF NonEmpty, Brackets
    <3>2. s.state # "completed"
      <4>1. s.terminal = (s.state \in TerminalStates)
        BY SnapshotShape DEF s
      <4>2. QED
        BY <1>14, <4>1 DEF TerminalStates
    <3>3. [s EXCEPT !.result = Brackets([kind |-> "text"])].state = s.state
          /\ [s EXCEPT !.result = Brackets([kind |-> "text"])].result = Brackets([kind |-> "text"])
      BY DEF s, SnapshotOf
    <3>4. QED
      BY <3>1, <3>2, <3>3 DEF ValidSnapshot
  <2>2. QED
    BY <1>5, <1>14, <2>1 DEF PollFails, ProtocolFailure, Failure
<1>15. CASE s.state = "completed" /\ Broken("bare_units",
                Showing(s.version, [s EXCEPT !.lots = Brackets([settled_units |-> "number"])]))
  <2>1. ~ValidSnapshot([s EXCEPT !.lots = Brackets([settled_units |-> "number"])])
    <3>1. NonEmpty(Brackets([settled_units |-> "number"]))
          /\ ~DecimalUnits(Brackets([settled_units |-> "number"]))
      BY DEF NonEmpty, Brackets, DecimalUnits, UnitFields
    <3>2. [s EXCEPT !.lots = Brackets([settled_units |-> "number"])].lots
              = Brackets([settled_units |-> "number"])
      BY DEF s, SnapshotOf
    <3>3. QED
      BY <3>1, <3>2 DEF ValidSnapshot
  <2>2. QED
    BY <1>5, <1>15, <2>1 DEF PollFails, ProtocolFailure, Failure
<1>16. CASE \E m \in DOMAIN inv : Broken("foreign", Showing(inv[m].version, SnapshotOf(m, inv[m])))
    BY <1>3, <1>16 DEF Shows
<1>17. CASE Broken("get_refused", Got(ErrorReply(400, "invalid_invocation_request")))
  <2>1. Got(ErrorReply(400, "invalid_invocation_request")) = Failure(400, "invalid_invocation_request")
    BY DEF Got, GetResult, ErrorReply, Reply, ErrorOf, Code, KnownCode, FrozenCodes
  <2>2. QED
    BY <1>17, <2>1 DEF PollRefused, Failure
<1>18. QED
    BY <1>6, <1>7, <1>8, <1>9, <1>10, <1>11, <1>12, <1>13, <1>14, <1>15, <1>16, <1>17

\* A download is verified, or broken and refused; that its digest fits other
\* bytes goes unnoticed.
LEMMA DownloadAnswers ==
    ASSUME NEW ref, ref.of # 0, NEW answer \in Download(ref)
    PROVE  /\ answer.inv = inv
           /\ \/ answer.defect = defect /\ answer.result.ok
              \/ defect = "none" /\ answer.defect = "other_bytes" /\ answer.result.ok
              \/ /\ defect = "none" /\ answer.defect # "none"
                 /\ ~answer.result.ok
<1> DEFINE body == [kind |-> "bytes", bytes |-> Bytes(ref)]
           other == [kind |-> "bytes", bytes |-> <<0, 0>>]
           Sha(bytes) == [form |-> "sha-256", bytes |-> bytes]
           Sent(status, b, digest) ==
               DownloadResult([Reply(status, NoTag, Location(NoId), b) EXCEPT !.digest = digest])
           none == [form |-> "none"]
           Broken(name, outcome) ==
               defect = "none" /\ answer = [result |-> outcome, inv |-> inv, defect |-> name]
<1>1. \/ answer = Answer(Sent(200, body, Sha(Bytes(ref))), inv)
      \/ Broken("corrupted", Sent(200, other, Sha(Bytes(ref))))
      \/ Broken("no_digest", Sent(200, body, none))
      \/ Broken("redirected", Sent(302, Nothing, none))
      \/ Broken("lost_artifact", Sent(404, Code("invocation_not_found"), none))
      \/ Broken("other_bytes", Sent(200, other, Sha(<<0, 0>>)))
    BY DEF Download, Defect
<1>2. ASSUME NEW b, NEW digest, b.kind = "bytes"
      PROVE  Sent(200, b, digest).ok <=> DigestVerifies(digest, b.bytes)
  <2>1. CASE DigestVerifies(digest, b.bytes)
    BY <1>2, <2>1 DEF DownloadResult, Reply
  <2>2. CASE ~DigestVerifies(digest, b.bytes)
    BY <1>2, <2>2 DEF DownloadResult, Reply, ProtocolFailure, Failure
  <2>3. QED
    BY <2>1, <2>2
<1>3. ASSUME NEW b, NEW digest, NEW status \in {302, 404}
      PROVE  ~Sent(status, b, digest).ok
    BY DEF DownloadResult, Reply, ProtocolFailure, Failure, ErrorOf
<1>4. /\ DigestVerifies(Sha(Bytes(ref)), Bytes(ref)) /\ DigestVerifies(Sha(<<0, 0>>), <<0, 0>>)
      /\ ~DigestVerifies(Sha(Bytes(ref)), <<0, 0>>) /\ ~DigestVerifies(none, Bytes(ref))
    BY DEF DigestVerifies, Bytes
<1>5. /\ Sent(200, body, Sha(Bytes(ref))).ok /\ ~Sent(200, other, Sha(Bytes(ref))).ok
      /\ ~Sent(200, body, none).ok /\ Sent(200, other, Sha(<<0, 0>>)).ok
  <2>1. body.kind = "bytes" /\ body.bytes = Bytes(ref) /\ other.kind = "bytes" /\ other.bytes = <<0, 0>>
    OBVIOUS
  <2> HIDE DEF Sent, body, other, Sha, none
  <2>2. QED
    BY <1>2, <1>4, <2>1
<1> HIDE DEF Sent, body, other, Sha, none
<1>6. QED
    BY <1>1, <1>3, <1>5 DEF Answer

\* What cancelling leaves of the invocation.
Moved(i, state) == [i EXCEPT !.state = state, !.version = @ + 1]

\* What a cancel may be answered, and what became of the invocation.
LEMMA CancelAnswers ==
    ASSUME NEW n, n \in DOMAIN inv, NEW answer \in DeleteAnswers(n),
           inv \in Seq(Invocation),
           \A m \in DOMAIN inv : inv[m].state # "completed" => inv[m].result = Null
    PROVE  \/ /\ inv[n].state \in TerminalStates /\ answer.inv = inv /\ answer.defect = defect
              /\ answer.result.ok \/ TooLate(answer.result)
           \/ /\ inv[n].state \notin TerminalStates
              /\ answer.defect = defect \/ (defect = "none" /\ answer.defect = "renamed_cancel")
              /\ \E state \in {"cancel_pending", "cancelled"} :
                    answer.inv = [inv EXCEPT ![n] = Moved(@, state)]
              /\ answer.result.ok
           \/ /\ defect = "none" /\ answer.defect = "not_cancelled" /\ answer.inv = inv
              /\ answer.result.ok
           \/ /\ defect = "none" /\ answer.defect # "none" /\ answer.inv = inv
              /\ ~answer.result.ok /\ ~TooLate(answer.result)
<1> DEFINE To(state) == [inv EXCEPT ![n].state = state, ![n].version = @ + 1]
           ShownAs(status, i) == Reply(status, NoTag, Location(n), Holds(SnapshotOf(n, i)))
           Empty(status, m) == Reply(status, NoTag, Location(m), Nothing)
           Broken(name, outcome) ==
               defect = "none" /\ answer = [result |-> outcome, inv |-> inv, defect |-> name]
<1>1. inv[n] \in Invocation /\ Showable(inv[n]) /\ n \in Nat \ {0}
  <2>1. inv[n] \in Invocation /\ n \in Nat \ {0}
    OBVIOUS
  <2>2. QED
    BY <2>1 DEF Showable, Invocation
<1>2. ASSUME NEW state \in {"cancel_pending", "cancelled"}
      PROVE  /\ To(state) = [inv EXCEPT ![n] = Moved(@, state)]
             /\ To(state)[n] = Moved(inv[n], state)
             /\ inv[n].state \notin TerminalStates => Showable(To(state)[n])
  <2>1. To(state) = [inv EXCEPT ![n] = Moved(@, state)]
    BY <1>1 DEF Moved, Invocation
  <2>2. To(state)[n] = Moved(inv[n], state)
    BY <2>1
  <2>3. inv[n].state \notin TerminalStates => Showable(Moved(inv[n], state))
    BY <1>1 DEF Showable, Moved, Invocation, States, TerminalStates
  <2>4. QED
    BY <2>1, <2>2, <2>3
<1>3. ASSUME NEW status \in {200, 202}, NEW i, Showable(i)
      PROVE  CancelResult(ShownAs(status, i)).ok
  <2>1. ValidSnapshot(SnapshotOf(n, i))
    BY <1>1, <1>3, SnapshotValid
  <2>2. QED
    BY <2>1 DEF CancelResult, Reply, Holds, Decodes
<1>4. \A m : CancelResult(Empty(202, m)).ok
    BY DEF CancelResult, Reply, Nothing
<1>5. /\ CancelResult(Empty(200, n)) = ProtocolFailure(200)
      /\ CancelResult(Empty(303, n)) = ProtocolFailure(303)
    BY DEF CancelResult, Reply, Nothing, Decodes
<1>6. ASSUME NEW code \in {"invocation_transition_conflict", "compliance_rejected"}
      PROVE  CancelResult(ErrorReply(409, code)) = Failure(409, code)
  <2>1. KnownCode(code) = code
    BY DEF KnownCode, FrozenCodes
  <2>2. CancelResult(ErrorReply(409, code)) = ErrorOf(ErrorReply(409, code))
    BY DEF CancelResult, ErrorReply, Reply
  <2>3. QED
    BY <2>1, <2>2 DEF ErrorOf, ErrorReply, Reply, Code
<1>7. \/ /\ inv[n].state \in TerminalStates
         /\ \/ answer = Answer(CancelResult(ErrorReply(409, "invocation_transition_conflict")), inv)
            \/ answer = Answer(CancelResult(ShownAs(200, inv[n])), inv)
      \/ /\ inv[n].state \notin TerminalStates
         /\ \/ answer = Answer(CancelResult(Empty(202, n)), To("cancel_pending"))
            \/ answer = Answer(CancelResult(ShownAs(202, To("cancel_pending")[n])),
                                   To("cancel_pending"))
            \/ answer = Answer(CancelResult(ShownAs(200, To("cancelled")[n])), To("cancelled"))
            \/ /\ defect = "none"
               /\ answer = [result |-> CancelResult(Empty(202, n + 1)),
                            inv |-> To("cancel_pending"), defect |-> "renamed_cancel"]
      \/ Broken("other_conflict", CancelResult(ErrorReply(409, "compliance_rejected")))
      \/ Broken("empty_ok", CancelResult(Empty(200, n)))
      \/ Broken("redirected", CancelResult(Empty(303, n)))
      \/ Broken("not_cancelled", CancelResult(Empty(202, n)))
    BY DEF DeleteAnswers, Defect
<1> HIDE DEF To, ShownAs, Empty
<1>8. CASE /\ inv[n].state \in TerminalStates
           /\ \/ answer = Answer(CancelResult(ErrorReply(409, "invocation_transition_conflict")), inv)
              \/ answer = Answer(CancelResult(ShownAs(200, inv[n])), inv)
    BY <1>1, <1>3, <1>6, <1>8 DEF Answer, Failure, TooLate
<1>9. CASE /\ inv[n].state \notin TerminalStates
           /\ \/ answer = Answer(CancelResult(Empty(202, n)), To("cancel_pending"))
              \/ answer = Answer(CancelResult(ShownAs(202, To("cancel_pending")[n])),
                                   To("cancel_pending"))
              \/ answer = Answer(CancelResult(ShownAs(200, To("cancelled")[n])), To("cancelled"))
              \/ /\ defect = "none"
                 /\ answer = [result |-> CancelResult(Empty(202, n + 1)),
                              inv |-> To("cancel_pending"), defect |-> "renamed_cancel"]
  <2>1. PICK state \in {"cancel_pending", "cancelled"} :
           /\ answer.inv = To(state)
           /\ answer.defect = defect \/ (defect = "none" /\ answer.defect = "renamed_cancel")
           /\ \/ \E m : answer.result = CancelResult(Empty(202, m))
              \/ \E status \in {200, 202} : answer.result = CancelResult(ShownAs(status, To(state)[n]))
    BY <1>9 DEF Answer
  <2>2. Showable(To(state)[n]) /\ To(state) = [inv EXCEPT ![n] = Moved(@, state)]
    BY <1>2, <1>9
  <2>3. answer.result.ok
    BY <1>3, <1>4, <2>1, <2>2
  <2>4. QED
    BY <1>9, <2>1, <2>2, <2>3
<1>10. CASE Broken("other_conflict", CancelResult(ErrorReply(409, "compliance_rejected")))
    BY <1>6, <1>10 DEF Failure, TooLate
<1>11. CASE \/ Broken("empty_ok", CancelResult(Empty(200, n)))
            \/ Broken("redirected", CancelResult(Empty(303, n)))
    BY <1>5, <1>11 DEF ProtocolFailure, Failure, TooLate
<1>12. CASE Broken("not_cancelled", CancelResult(Empty(202, n)))
    BY <1>4, <1>12
<1>13. QED
    BY <1>7, <1>8, <1>9, <1>10, <1>11, <1>12
-----------------------------------------------------------------------------
(* What a step of the run does, answer by answer.                          *)

\* Facts a running run can count on.
LEMMA RunningFacts ==
    Running =>
        /\ inv \in Seq(Invocation) /\ Len(inv) \in Nat /\ DOMAIN inv = 1..Len(inv)
        /\ \A n \in DOMAIN inv : n \in Nat \ {0}
        /\ \A n \in DOMAIN inv : inv[n] \in Invocation /\ Showable(inv[n])
        /\ \A n \in DOMAIN inv : inv[n].state # "completed" => inv[n].result = Null
        /\ ControlInv /\ MarkerInv /\ KeysInv /\ ServerInv /\ LookInv
        /\ ReceiptInv /\ ResultInv /\ FirstInv /\ DefectInv /\ EvidenceInv
<1> SUFFICES ASSUME Running PROVE
        /\ inv \in Seq(Invocation) /\ Len(inv) \in Nat /\ DOMAIN inv = 1..Len(inv)
        /\ \A n \in DOMAIN inv : n \in Nat \ {0}
        /\ \A n \in DOMAIN inv : inv[n] \in Invocation /\ Showable(inv[n])
        /\ \A n \in DOMAIN inv : inv[n].state # "completed" => inv[n].result = Null
        /\ ControlInv /\ MarkerInv /\ KeysInv /\ ServerInv /\ LookInv
        /\ ReceiptInv /\ ResultInv /\ FirstInv /\ DefectInv /\ EvidenceInv
    OBVIOUS
<1>1. ASSUME NEW n \in DOMAIN inv PROVE inv[n] \in Invocation /\ Showable(inv[n])
  <2>1. inv[n] \in Invocation
    BY DEF Running, RunTypeOK
  <2>2. inv[n].state # "completed" => inv[n].result = Null
    BY DEF Running, RunInv, ServerInv
  <2>3. QED
    BY <2>1, <2>2 DEF Showable, Invocation
<1>2. inv \in Seq(Invocation) /\ Len(inv) \in Nat /\ DOMAIN inv = 1..Len(inv)
    BY DEF Running, RunTypeOK
<1>3. \A n \in DOMAIN inv : n \in Nat \ {0}
    BY <1>2
<1>4. /\ ControlInv /\ MarkerInv /\ KeysInv /\ ServerInv /\ LookInv
      /\ ReceiptInv /\ ResultInv /\ FirstInv /\ DefectInv /\ EvidenceInv
    BY DEF Running, RunInv
<1>5. \A n \in DOMAIN inv : inv[n].state # "completed" => inv[n].result = Null
    BY <1>4 DEF ServerInv
<1>6. QED
    BY <1>1, <1>2, <1>3, <1>4, <1>5

\* The requests of a run are requests, and its invocations are invocations.
LEMMA MadeType ==
    ASSUME Running, pc # "config"
    PROVE  /\ MintRequest.sku = "moderation" /\ MintRequest.receipt = NoReceipt
           /\ MintRequest.subject = Subject
           /\ \A l \in Legs : LET r == TargetRequest(l) IN
                /\ r.sku = cfg.sku /\ r.subject = Subject
                /\ r.receipt = IF cfg.sku = "moderation" THEN NoReceipt ELSE receipts[l]
           /\ \A k \in Keys : \A r \in {MintRequest, TargetRequest("main"), TargetRequest("cancel")} :
                /\ NewInvocation(r, k) \in Invocation
                /\ Made(r, k) \in Seq(Invocation) /\ Len(Made(r, k)) = Next1
                /\ Made(r, k)[Next1] = NewInvocation(r, k)
                /\ \A n \in DOMAIN inv : Made(r, k)[n] = inv[n]
<1>1. /\ MintRequest.sku = "moderation" /\ MintRequest.receipt = NoReceipt
      /\ MintRequest.subject = Subject
      /\ \A l \in Legs : LET r == TargetRequest(l) IN
           /\ r.sku = cfg.sku /\ r.subject = Subject
           /\ r.receipt = IF cfg.sku = "moderation" THEN NoReceipt ELSE receipts[l]
    BY DEF MintRequest, TargetRequest, Request, ModerationReceiptForSKU
<1>2. Subject \in SubjectType
  <2>1. cfg \in AllConfigs /\ cfg.sku \in SKUs
    BY RunningFacts, ConfigsAssumption DEF Running, RunTypeOK, ControlInv
  <2>2. QED
    BY <2>1 DEF Subject, SubjectType, AllConfigs, SKUs
<1>3. ASSUME NEW k \in Keys, NEW r \in {MintRequest, TargetRequest("main"), TargetRequest("cancel")}
      PROVE  NewInvocation(r, k) \in Invocation
  <2>1. receipts["main"] \in Nat /\ receipts["cancel"] \in Nat /\ cfg.sku \in SKUs
    BY RunningFacts DEF Running, RunTypeOK, ControlInv, Legs
  <2>2. r \in [sku : SKUs, subject : SubjectType, receipt : Nat]
    BY <1>2, <2>1 DEF MintRequest, TargetRequest, Request, ModerationReceiptForSKU, SKUs, NoReceipt
  <2>3. Null \in Value
    BY DEF Value
  <2>4. QED
    BY <2>2, <2>3 DEF NewInvocation, Invocation, States
<1>4. QED
    BY <1>1, <1>3, RunningFacts DEF Made, Next1
-----------------------------------------------------------------------------
(* The steps that go on, and the ones that stop the run.                   *)

\* A create may have named its invocation by an id that no path can hold.
Names == defect' = defect \/ (defect = "none" /\ defect' = "malformed_id")

\* A failing step changes neither the run's progress nor what it has shown; the
\* server may have made one more invocation.  And the failure is no false alarm.
Stops ==
    /\ pc' = "failed" /\ UNCHANGED <<cfg, progress, evidence>>
    /\ defect' = defect \/ defect = "none"
    /\ \/ inv' = inv
       \/ \E k \in Keys, r \in {MintRequest, TargetRequest("main"), TargetRequest("cancel")} :
             inv' = Made(r, k) /\ pc # "config" /\ (k = "receipt-replay" => pc = "probe")
    /\ NoFalseAlarm'

MintGoes ==
    /\ pc = "mint" /\ pc' = "poll mint"
    /\ inv' = Made(MintRequest, MintKey) /\ LookAt(Next1)
    /\ Names
    /\ UNCHANGED <<cfg, how, streams, leg, mainId, result, refs, first, nonces, evidence>>
CreateMainGoes ==
    /\ pc = "create" /\ pc' = "poll main"
    /\ inv' = Made(TargetRequest("main"), "create") /\ LookAt(Next1) /\ mainId' = Next1
    /\ PrintsPresented /\ Names
    /\ UNCHANGED <<cfg, how, streams, leg, result, refs, first, nonces, receipts, fetched>>
CreateCancelGoes ==
    /\ pc = "create cancel" /\ pc' = "cancel"
    /\ inv' = Made(TargetRequest("cancel"), "cancel") /\ id' = Next1
    /\ PrintsPresented /\ Names
    /\ UNCHANGED <<cfg, how, leg, attempts, etag, mainId, result, refs, first, nonces,
                   receipts, fetched>>
ProbeGoes ==
    /\ pc = "probe" /\ pc' = "replay"
    /\ \/ inv' = inv /\ defect' = defect /\ Prints(<<"replay", "rejected">>)
       \/ /\ inv' = Made(TargetRequest("main"), "receipt-replay")
          /\ defect' = defect \/ (defect = "none" /\ defect' = "unnamed_probe")
          /\ Prints(<<"replay", "accepted">>)
    /\ UNCHANGED <<cfg, how, streams, progress, receipts, fetched>>
ReplayGoes ==
    /\ pc = "replay" /\ pc' = "download"
    /\ RefsParse(cfg.sku, mainId, result) /\ LegAgrees(cfg.sku, RefsOf(cfg.sku, result))
    /\ refs' = RefsOf(cfg.sku, result)
    /\ UNCHANGED <<cfg, server, how, streams, leg, id, attempts, etag, mainId, result, first,
                   nonces, evidence>>

\* What a poll believes of the invocation.
Told(s) ==
    \/ s = SnapshotOf(id, inv[id]) /\ defect' = defect /\ IdFits
    \/ /\ defect = "none" /\ defect' = "foreign"
       /\ \E m \in DOMAIN inv : s = SnapshotOf(m, inv[m])
PollGoes ==
    /\ pc \in {"poll mint", "poll main"} /\ attempts < MaxAttempts
    /\ defect' = defect \/ (defect = "none" /\ defect' \in {"stale", "ahead", "foreign"})
    /\ etag' \in Nat /\ attempts' = attempts + 1
    /\ UNCHANGED <<cfg, inv, pc, how, streams, leg, id, mainId, result, refs, first, nonces,
                   evidence>>
PollMintEnds ==
    /\ pc = "poll mint" /\ UNCHANGED <<cfg, inv>>
    /\ \E s : /\ Told(s) /\ s.state = "completed"
              /\ Receipt(s.result) # NoReceipt /\ MintedReceipt(s)
PollMainEnds ==
    /\ pc = "poll main" /\ UNCHANGED <<cfg, inv>>
    /\ \E s : Told(s) /\ s.state = "completed" /\ MainCompleted(s)

DownloadGoes ==
    /\ pc = "download" /\ refs # <<>>
    /\ defect' = defect \/ (defect = "none" /\ defect' = "other_bytes")
    /\ fetched' = fetched \cup {Head(refs)} /\ refs' = Tail(refs)
    /\ UNCHANGED <<cfg, inv, pc, how, streams, leg, id, attempts, etag, mainId, result, first,
                   nonces, receipts, printed>>
CancelGoes ==
    /\ pc = "cancel" /\ pc' = "token" /\ streams' = {} /\ IdFits
    /\ \/ /\ inv[id].state \in TerminalStates /\ UNCHANGED server
          /\ \E x \in {"accepted", "already_terminal"} : Prints(<<"cancel", x>>)
       \/ /\ inv[id].state \notin TerminalStates
          /\ defect' = defect \/ (defect = "none" /\ defect' = "renamed_cancel")
          /\ \E state \in {"cancel_pending", "cancelled"} :
                inv' = [inv EXCEPT ![id] = Moved(@, state)]
          /\ Prints(<<"cancel", "accepted">>)
       \/ /\ defect = "none" /\ defect' = "not_cancelled" /\ inv' = inv
          /\ Prints(<<"cancel", "accepted">>)
    /\ UNCHANGED <<cfg, how, progress, receipts, fetched>>
SyncGoes ==
    /\ pc = "sync" /\ pc' = "sync again"
    /\ \/ first' = Identity("ours", 1, 1) /\ defect' = defect
       \/ first' = Identity("other", 1, 1) /\ defect = "none" /\ defect' = "other_event"
    /\ UNCHANGED <<cfg, inv, how, streams, leg, id, attempts, etag, mainId, result, refs, nonces,
                   evidence>>
SyncAgainGoes ==
    /\ pc = "sync again" /\ pc' = "passed" /\ first = Identity("ours", 1, 1)
    /\ UNCHANGED <<cfg, server, how, streams, progress, evidence>>

\* The receipts and the snapshots a run holds are not touched by a failure.
LEMMA FailsStops ==
    ASSUME NEW why, FailsWith(why), UNCHANGED cfg, defect' = defect \/ defect = "none",
           \/ inv' = inv
           \/ \E k \in Keys, r \in {MintRequest, TargetRequest("main"), TargetRequest("cancel")} :
                 inv' = Made(r, k) /\ pc # "config" /\ (k = "receipt-replay" => pc = "probe"),
           NoFalseAlarm'
    PROVE  Stops
BY DEF FailsWith, Stops, evidence

\* A failure that says anything but "blocked" is no false alarm when the server
\* broke the contract or there is an excuse.
Excused ==
    \/ how \in {"lost", "config", "budget"}
    \/ cfg.input = "fraction" \/ cfg.schema = "override"
    \/ \E n \in DOMAIN inv :
        \/ inv[n].state = "failed"
        \/ /\ inv[n].request.sku = "moderation" /\ inv[n].state = "completed"
           /\ inv[n].result = Moderation("block", NoReceipt)

\* A failure that does not say "blocked" is no false alarm if it is excused.
LEMMA NotBlocked ==
    ASSUME how' # "blocked", defect' # "none" \/ Excused'
    PROVE  NoFalseAlarm'
BY DEF NoFalseAlarm, Excused

\* An answer that denies what was made fails the run.
LEMMA DeniedStops ==
    ASSUME NEW why, why # "blocked", FailsWith(why), NEW k \in Keys,
           NEW r \in {MintRequest, TargetRequest("main"), TargetRequest("cancel")},
           NEW answer, Denied(answer, r, k), Receives(answer),
           pc # "config", k = "receipt-replay" => pc = "probe"
    PROVE  Stops
<1>1. inv' = Made(r, k) /\ defect = "none" /\ defect' # "none" /\ UNCHANGED cfg
    BY DEF Denied, Receives
<1>2. NoFalseAlarm'
    BY <1>1, NotBlocked DEF FailsWith
<1>3. QED
    BY <1>1, <1>2, FailsStops

\* Mint: a fresh key, and nothing but what the hub does not moderate stops it.
LEMMA MintEffect == Running /\ Mint => MintGoes \/ Stops
<1> SUFFICES ASSUME Running, Mint PROVE MintGoes \/ Stops
    OBVIOUS
<1>1. /\ pc = "mint" /\ cfg.mode \in {"async", "stream"} /\ MintKey \in Keys
      /\ Under(MintKey) = {} /\ leg \in Legs
  <2>1. pc = "mint" /\ leg \in Legs
    BY DEF Mint, Running, RunTypeOK
  <2>2. MintKey = MintKeyOf(leg) /\ BeforeMint(leg)
    BY <2>1 DEF MintKey, MintKeyOf, BeforeMint, Legs
  <2>3. QED
    BY <2>1, <2>2, RunningFacts DEF ControlInv, KeysInv, MintKeyOf, Keys
<1>2. /\ MintRequest.sku = "moderation" /\ MintRequest.receipt = NoReceipt
      /\ MintRequest.subject = Subject
    BY <1>1, MadeType
<1>3. MustRefuse(MintRequest) = {}
    BY <1>2 DEF MustRefuse
<1>4. PICK answer \in Create(MintRequest, MintKey) :
        /\ Receives(answer)
        /\ IF IsNew(answer.result)
           THEN /\ LookAt(answer.result.id) /\ Continue("poll mint")
                /\ UNCHANGED <<leg, mainId, result, refs, first, nonces, evidence>>
           ELSE FailsWith(IF answer.result.ok THEN "mint_failed"
                          ELSE MintFailure(answer.result))
    BY DEF Mint
<1>5. \/ /\ ~Validates(MintRequest)
         /\ RefusedAs(answer, {"invalid_invocation_request"})
      \/ RefusedAs(answer, MayRefuse(MintRequest))
      \/ Stored(answer, MintRequest, MintKey)
      \/ Denied(answer, MintRequest, MintKey)
    BY <1>1, <1>3, FreshCreate, RunningFacts
<1>6. CASE Stored(answer, MintRequest, MintKey)
  <2>1. IsNew(answer.result) /\ answer.result.id = Next1
    BY <1>6, RunningFacts DEF Stored, IsNew, Next1, NoId
  <2>2. QED
    BY <1>1, <1>4, <1>6, <2>1 DEF Stored, Receives, MintGoes, Continue, Names
<1>7. CASE Denied(answer, MintRequest, MintKey)
  <2>1. FailsWith("mint_failed") /\ Receives(answer)
    BY <1>4, <1>7 DEF Denied, MintFailure
  <2>2. MintKey # "receipt-replay"
    BY DEF MintKey
  <2>3. QED
    BY <1>1, <1>7, <2>1, <2>2, DeniedStops
<1>8. CASE \/ ~Validates(MintRequest) /\ RefusedAs(answer, {"invalid_invocation_request"})
           \/ RefusedAs(answer, MayRefuse(MintRequest))
  <2>1. MayRefuse(MintRequest) \subseteq {"invalid_invocation_request"}
    BY <1>2 DEF MayRefuse
  <2>2. /\ FailsWith("blocked") /\ UNCHANGED <<cfg, server>>
        /\ ~Validates(MintRequest) \/ MayRefuse(MintRequest) # {}
    BY <1>4, <1>8, <2>1 DEF RefusedAs, Receives, MintFailure, IsNew, server
  <2>3. /\ ~Validates(MintRequest) => cfg.input = "fraction"
        /\ MayRefuse(MintRequest) # {} => cfg.schema = "override" \/ Subject.sku \notin {"text", "video"}
    BY <1>2 DEF Validates, MayRefuse, Subject
  <2>4. /\ Under(MintKey)' = {} /\ Subject' = Subject
        /\ (~Validates(MintRequest) \/ MayRefuse(MintRequest) # {})'
    BY <1>1, <2>2 DEF Under, MintKey, FailsWith, progress, server, Subject, Validates, MintRequest,
       Request,
       MayRefuse, Spent
  <2>5. NoFalseAlarm'
    <3>1. defect' = defect /\ defect \notin {"malformed_id", "get_refused"}
      BY <1>1, <2>2, RunningFacts DEF DefectInv, Unnoticed, server
    <3>2. QED
      BY <2>2, <2>3, <2>4, <3>1 DEF NoFalseAlarm, FailsWith
  <2>6. QED
    BY <2>2, <2>5, FailsStops DEF server
<1>9. QED
    BY <1>5, <1>6, <1>7, <1>8

\* The target of a leg, asked for with the leg's own receipt: only a request the
\* server may not take is refused, unless the run was shown a foreign invocation.
LEMMA TargetCreate ==
    ASSUME Running, NEW l \in Legs, leg = l,
           pc = IF l = "main" THEN "create" ELSE "create cancel",
           NEW answer \in Create(TargetRequest(l), TargetKeyOf(l))
    PROVE  \/ Stored(answer, TargetRequest(l), TargetKeyOf(l))
           \/ Denied(answer, TargetRequest(l), TargetKeyOf(l))
           \/ /\ answer.inv = inv /\ answer.defect = defect /\ ~answer.result.ok
              /\ defect = "none" => cfg.input = "fraction" \/ cfg.schema = "override"
<1> DEFINE r == TargetRequest(l)
           k == TargetKeyOf(l)
<1>1. /\ cfg.mode \in {"async", "stream"} /\ Under(k) = {}
      /\ ~BeforeReceipt(l) /\ BeforeTarget(l)
  <2>1. ~BeforeReceipt(l) /\ BeforeTarget(l)
    BY DEF BeforeReceipt, BeforeMint, BeforeTarget, Legs
  <2>2. QED
    BY <2>1, RunningFacts DEF KeysInv, ControlInv, Legs
<1>2. /\ r.sku = cfg.sku /\ r.subject = Subject
      /\ r.receipt = IF cfg.sku = "moderation" THEN NoReceipt ELSE receipts[l]
    BY MadeType DEF Legs
<1>3. ~Validates(r) => cfg.input = "fraction"
  <2>1. Subject.input = cfg.input
    BY DEF Subject
  <2>2. QED
    BY <1>2, <2>1 DEF Validates
<1>4. MustRefuse(r) # {} => defect = "foreign"
  <2>1. cfg.sku # "moderation" /\ defect # "foreign" => MintedFor(receipts[l], Subject)
    BY <1>1, RunningFacts DEF ReceiptInv
  <2>2. QED
    BY <1>2, <2>1 DEF MustRefuse
<1>5. cfg.sku # "moderation" /\ defect = "none" => ~Spent(r.receipt)
  <2>1. SUFFICES ASSUME cfg.sku # "moderation", defect = "none", NEW n \in DOMAIN inv
                 PROVE  inv[n].request.receipt # receipts[l]
    BY <1>2 DEF Spent
  <2>2. inv[n].request = RequestOf(inv[n].key) /\ inv[n].key \in Keys /\ inv[n].key # k
    BY <1>1, RunningFacts DEF ServerInv, Invocation, Under
  <2>3. receipts[l] # NoReceipt /\ receipts[l] \in Under(MintKeyOf(l))
    BY <1>1, <2>1, RunningFacts DEF ReceiptInv
  <2>4. MintRequest.receipt = NoReceipt
    BY MadeType
  <2>5. CASE inv[n].key \in {"receipt-main", "receipt-cancel"}
    BY <2>2, <2>3, <2>4, <2>5 DEF RequestOf
  <2>6. CASE inv[n].key = "cancel"
    <3>1. l = "main" /\ BeforeTarget("cancel")
      BY <2>2, <2>6 DEF TargetKeyOf, Legs, BeforeTarget, BeforeReceipt, BeforeMint
    <3>2. Under("cancel") = {}
      BY <3>1, RunningFacts DEF KeysInv, Legs, TargetKeyOf
    <3>3. QED
      BY <2>6, <3>2 DEF Under
  <2>7. CASE inv[n].key \in {"create", "receipt-replay"}
    <3>1. l = "cancel"
      <4>1. SUFFICES ASSUME l = "main" PROVE FALSE
        BY DEF Legs
      <4>2. Under("create") = {} /\ Under("receipt-replay") = {}
        BY <1>1, <4>1, RunningFacts DEF KeysInv, Legs, TargetKeyOf, BeforeProbe
      <4>3. QED
        BY <2>7, <4>2 DEF Under
    <3>2. ~BeforeReceipt("main")
      BY <3>1 DEF BeforeReceipt, BeforeMint
    <3>3. receipts["main"] \in Under("receipt-main") /\ receipts[l] \in Under("receipt-cancel")
      BY <2>1, <2>3, <3>1, <3>2, RunningFacts DEF ReceiptInv, Legs, MintKeyOf
    <3>4. receipts["main"] # receipts["cancel"]
      BY <3>1, <3>3 DEF Under
    <3>5. TargetRequest("main").receipt = receipts["main"]
      BY <2>1, <3>1, MadeType DEF Legs
    <3>6. QED
      BY <2>2, <2>7, <3>1, <3>4, <3>5 DEF RequestOf
  <2>8. QED
    BY <2>2, <2>5, <2>6, <2>7 DEF Keys
<1>6. MayRefuse(r) # {} /\ defect = "none" => cfg.schema = "override"
  <2>1. Subject.schema = cfg.schema /\ (cfg.sku = "moderation" => Subject.sku = "text")
    BY DEF Subject
  <2>2. QED
    BY <1>2, <1>5, <2>1 DEF MayRefuse
<1>7. \/ ~Validates(r) /\ RefusedAs(answer, {"invalid_invocation_request"})
      \/ MustRefuse(r) # {} /\ RefusedAs(answer, MustRefuse(r))
      \/ RefusedAs(answer, MayRefuse(r))
      \/ Stored(answer, r, k) \/ Denied(answer, r, k)
    BY <1>1, FreshCreate, RunningFacts
<1>8. CASE RefusedAs(answer, MayRefuse(r))
    BY <1>6, <1>8 DEF RefusedAs
<1>9. CASE MustRefuse(r) # {} /\ RefusedAs(answer, MustRefuse(r))
    BY <1>4, <1>9 DEF RefusedAs
<1>10. CASE ~Validates(r) /\ RefusedAs(answer, {"invalid_invocation_request"})
    BY <1>3, <1>10 DEF RefusedAs
<1>11. QED
    BY <1>7, <1>8, <1>9, <1>10

\* CreateMain and CreateCancel.
LEMMA CreateMainEffect == Running /\ CreateMain => CreateMainGoes \/ Stops
<1> SUFFICES ASSUME Running, CreateMain PROVE CreateMainGoes \/ Stops
    OBVIOUS
<1>1. pc = "create" /\ leg = "main"
    BY RunningFacts DEF CreateMain, ControlInv, Running, RunTypeOK, Legs, RuntimePCs
<1>2. PICK answer \in Create(TargetRequest("main"), "create") :
        /\ Receives(answer)
        /\ IF IsNew(answer.result)
           THEN /\ mainId' = answer.result.id /\ LookAt(answer.result.id)
                /\ PrintsPresented /\ Continue("poll main")
                /\ UNCHANGED <<leg, result, refs, first, nonces, receipts, fetched>>
           ELSE FailsWith(IF answer.result.ok THEN "failed" ELSE TargetFailure(answer.result))
    BY DEF CreateMain
<1>3. \/ Stored(answer, TargetRequest("main"), "create")
      \/ Denied(answer, TargetRequest("main"), "create")
      \/ /\ answer.inv = inv /\ answer.defect = defect /\ ~answer.result.ok
         /\ defect = "none" => cfg.input = "fraction" \/ cfg.schema = "override"
    BY <1>1, TargetCreate DEF Legs, TargetKeyOf
<1>4. CASE Stored(answer, TargetRequest("main"), "create")
  <2>1. IsNew(answer.result) /\ answer.result.id = Next1
    BY <1>4, RunningFacts DEF Stored, IsNew, Next1, NoId
  <2>2. QED
    BY <1>1, <1>2, <1>4, <2>1 DEF Stored, Receives, CreateMainGoes, Continue, Names
<1>5. ASSUME ~IsNew(answer.result)
      PROVE  \E why \in {"failed", "receipt_rejected"} : FailsWith(why)
    BY <1>2, <1>5 DEF TargetFailure
<1>6. CASE Denied(answer, TargetRequest("main"), "create")
  <2>1. PICK why \in {"failed", "receipt_rejected"} : FailsWith(why)
    BY <1>5, <1>6 DEF Denied
  <2>2. QED
    BY <1>1, <1>2, <1>6, <2>1, DeniedStops DEF Keys
<1>7. CASE /\ answer.inv = inv /\ answer.defect = defect /\ ~answer.result.ok
           /\ defect = "none" => cfg.input = "fraction" \/ cfg.schema = "override"
  <2>1. PICK why \in {"failed", "receipt_rejected"} : FailsWith(why)
    BY <1>5, <1>7 DEF IsNew
  <2>2. UNCHANGED <<cfg, server>>
    BY <1>2, <1>7 DEF Receives, server
  <2>3. NoFalseAlarm'
    BY <1>7, <2>1, <2>2, NotBlocked DEF Excused, FailsWith, server
  <2>4. QED
    BY <2>1, <2>2, <2>3, FailsStops DEF server
<1>8. QED
    BY <1>3, <1>4, <1>6, <1>7

\* The target of the cancel leg is made under its own key, or the run stops.
LEMMA CreateCancelEffect == Running /\ CreateCancel => CreateCancelGoes \/ Stops
<1> SUFFICES ASSUME Running, CreateCancel PROVE CreateCancelGoes \/ Stops
    OBVIOUS
<1>1. pc = "create cancel" /\ leg = "cancel"
    BY RunningFacts DEF CreateCancel, ControlInv, Running, RunTypeOK, Legs
<1>2. PICK answer \in Create(TargetRequest("cancel"), "cancel") :
        /\ Receives(answer)
        /\ IF IsNew(answer.result)
           THEN /\ id' = answer.result.id
                /\ PrintsPresented
                /\ pc' = "cancel" /\ UNCHANGED how
                /\ streams' = IF cfg.mode = "stream" THEN {"cancel"} ELSE {}
                /\ UNCHANGED <<leg, attempts, etag, mainId, result, refs, first, nonces,
                               receipts, fetched>>
           ELSE FailsWith(IF answer.result.ok THEN "failed" ELSE TargetFailure(answer.result))
    BY DEF CreateCancel
<1>3. \/ Stored(answer, TargetRequest("cancel"), "cancel")
      \/ Denied(answer, TargetRequest("cancel"), "cancel")
      \/ /\ answer.inv = inv /\ answer.defect = defect /\ ~answer.result.ok
         /\ defect = "none" => cfg.input = "fraction" \/ cfg.schema = "override"
    BY <1>1, TargetCreate DEF Legs, TargetKeyOf
<1>4. CASE Stored(answer, TargetRequest("cancel"), "cancel")
  <2>1. IsNew(answer.result) /\ answer.result.id = Next1
    BY <1>4, RunningFacts DEF Stored, IsNew, Next1, NoId
  <2>2. QED
    BY <1>1, <1>2, <1>4, <2>1 DEF Stored, Receives, CreateCancelGoes, Names
<1>5. ASSUME ~IsNew(answer.result)
      PROVE  \E why \in {"failed", "receipt_rejected"} : FailsWith(why)
    BY <1>2, <1>5 DEF TargetFailure
<1>6. CASE Denied(answer, TargetRequest("cancel"), "cancel")
  <2>1. PICK why \in {"failed", "receipt_rejected"} : FailsWith(why)
    BY <1>5, <1>6 DEF Denied
  <2>2. QED
    BY <1>1, <1>2, <1>6, <2>1, DeniedStops DEF Keys
<1>7. CASE /\ answer.inv = inv /\ answer.defect = defect /\ ~answer.result.ok
           /\ defect = "none" => cfg.input = "fraction" \/ cfg.schema = "override"
  <2>1. PICK why \in {"failed", "receipt_rejected"} : FailsWith(why)
    BY <1>5, <1>7 DEF IsNew
  <2>2. UNCHANGED <<cfg, server>>
    BY <1>2, <1>7 DEF Receives, server
  <2>3. NoFalseAlarm'
    BY <1>7, <2>1, <2>2, NotBlocked DEF Excused, FailsWith, server
  <2>4. QED
    BY <2>1, <2>2, <2>3, FailsStops DEF server
<1>8. QED
    BY <1>3, <1>4, <1>6, <1>7

\* Probe: the receipt a second time; refused as spent, or accepted.
LEMMA ProbeEffect == Running /\ Probe => ProbeGoes \/ Stops
<1> SUFFICES ASSUME Running, Probe PROVE ProbeGoes \/ Stops
    OBVIOUS
<1> DEFINE r == TargetRequest("main")
           k == "receipt-replay"
           Rejected(got) == ~got.ok /\ got.code \in {"moderation_invalid_request", "compliance_rejected"}
<1>1. /\ pc = "probe" /\ cfg.mode \in {"async", "stream"} /\ cfg.sku # "moderation"
      /\ Under(k) = {}
  <2>1. pc = "probe" /\ leg = "main"
    BY RunningFacts DEF Probe, ControlInv, Running, RunTypeOK, Legs, RuntimePCs
  <2>2. QED
    BY <2>1, RunningFacts DEF ControlInv, KeysInv, BeforeProbe
<1>2. r.sku = cfg.sku /\ r.subject = Subject
    BY <1>1, MadeType DEF Legs
<1>3. PICK answer \in Create(r, k) :
        /\ Receives(answer)
        /\ IF Rejected(answer.result) \/ (answer.result.ok /\ answer.result.status # 303)
           THEN /\ Prints(<<"replay", IF Rejected(answer.result) THEN "rejected" ELSE "accepted">>)
                /\ Continue("replay")
                /\ UNCHANGED <<progress, receipts, fetched>>
           ELSE FailsWith("failed")
    BY DEF Probe
<1>4. \/ ~Validates(r) /\ RefusedAs(answer, {"invalid_invocation_request"})
      \/ RefusedAs(answer, MustRefuse(r)) \/ RefusedAs(answer, MayRefuse(r))
      \/ Stored(answer, r, k) \/ Denied(answer, r, k)
    BY <1>1, FreshCreate, RunningFacts
<1>5. /\ MustRefuse(r) \subseteq {"moderation_invalid_request"}
      /\ MayRefuse(r) \subseteq {"moderation_invalid_request", "compliance_rejected",
                                 "invalid_invocation_request"}
      /\ "invalid_invocation_request" \in MayRefuse(r) => cfg.schema = "override"
      /\ ~Validates(r) => cfg.input = "fraction"
  <2>1. Subject.schema = cfg.schema /\ Subject.input = cfg.input
    BY DEF Subject
  <2>2. QED
    BY <1>1, <1>2, <2>1 DEF MustRefuse, MayRefuse, Validates
<1>6. CASE Stored(answer, r, k)
    BY <1>1, <1>3, <1>6 DEF Stored, Receives, ProbeGoes, Continue
<1>7. CASE Denied(answer, r, k)
  <2>1. ~Rejected(answer.result)
    BY <1>7 DEF Denied
  <2>2. CASE answer.result.ok /\ answer.result.status # 303
    <3>1. answer.defect = "unnamed_probe" /\ answer.inv = Made(r, k) /\ defect = "none"
      BY <1>7, <2>2 DEF Denied
    <3>2. /\ Prints(<<"replay", "accepted">>) /\ Continue("replay")
          /\ UNCHANGED <<progress, receipts, fetched>>
      BY <1>3, <2>1, <2>2
    <3>3. QED
      BY <1>1, <1>3, <3>1, <3>2 DEF Receives, ProbeGoes, Continue
  <2>3. CASE ~(answer.result.ok /\ answer.result.status # 303)
    <3>1. FailsWith("failed") /\ Receives(answer)
      BY <1>3, <2>1, <2>3
    <3>2. QED
      BY <1>1, <1>7, <3>1, DeniedStops DEF Keys
  <2>4. QED
    BY <2>2, <2>3
<1>8. CASE /\ RefusedAs(answer, {"moderation_invalid_request", "compliance_rejected"})
  <2>1. /\ Prints(<<"replay", "rejected">>) /\ Continue("replay")
        /\ UNCHANGED <<progress, receipts, fetched>>
    BY <1>3, <1>8 DEF RefusedAs
  <2>2. QED
    BY <1>1, <1>3, <1>8, <2>1 DEF RefusedAs, Receives, ProbeGoes, Continue
<1>9. CASE /\ RefusedAs(answer, {"invalid_invocation_request"})
           /\ cfg.input = "fraction" \/ cfg.schema = "override"
  <2>1. FailsWith("failed") /\ UNCHANGED <<cfg, server>>
    BY <1>3, <1>9 DEF RefusedAs, Receives, server
  <2>2. NoFalseAlarm'
    BY <1>9, <2>1, NotBlocked DEF Excused, FailsWith, server
  <2>3. QED
    BY <2>1, <2>2, FailsStops DEF server
<1>10. QED
    BY <1>4, <1>5, <1>6, <1>7, <1>8, <1>9 DEF RefusedAs

-----------------------------------------------------------------------------
(* Results: which ones the run takes.                                      *)

\* The references of an invocation's artifacts are a sequence.
LEMMA RefsType ==
    ASSUME NEW n \in Nat, NEW c \in Nat
    PROVE  Refs(n, c) \in Seq({Ref(n, a) : a \in 1..c}) /\ Len(Refs(n, c)) = c
BY DEF Refs

\* Every result an invocation of a SKU may complete with is one the run takes.
LEMMA RightResults ==
    ASSUME NEW n \in Nat, NEW sku \in SKUs, NEW value \in Results(n, sku)
    PROVE  /\ RefsParse(sku, n, value) /\ LegAgrees(sku, RefsOf(sku, value))
           /\ sku = "moderation" => \/ value = Moderation("pass", n)
                                    \/ value = Moderation("block", NoReceipt)
<1>1. CASE sku = "moderation"
  <2>0. Results(n, sku) = {Moderation("pass", n), Moderation("block", NoReceipt)}
    BY <1>1 DEF Results, Artifactual
  <2>1. PICK verdict, receipt : value = Moderation(verdict, receipt)
    BY <2>0
  <2>2. value.form = "brackets" /\ DOMAIN value.fields = {"kind", "verdict", "receipt"}
    BY <2>1 DEF Moderation, Brackets
  <2>3. RefsParse(sku, n, value) /\ RefsOf(sku, value) = <<>>
    BY <1>1, <2>2 DEF RefsParse, RefsOf, Artifactual
  <2>4. QED
    BY <1>1, <2>0, <2>3 DEF LegAgrees, Artifactual
<1>2. CASE sku = "image"
  <2>1. PICK c \in 1..MaxImages : value = Images(Refs(n, c), c)
    BY <1>2 DEF Results
  <2>2. /\ value.form = "brackets" /\ DOMAIN value.fields = {"artifacts", "delivered"}
        /\ value.fields.artifacts = Refs(n, c) /\ value.fields.delivered = c
    BY <2>1 DEF Images, Brackets
  <2>3. c \in Nat /\ c # 0 /\ Len(Refs(n, c)) = c /\ \A a \in DOMAIN Refs(n, c) : Refs(n, c)[a].of = n
    BY BoundsAssumption, RefsType DEF Refs, Ref
  <2>4. RefsParse(sku, n, value) /\ RefsOf(sku, value) = Refs(n, c)
    BY <1>2, <2>2, <2>3 DEF RefsParse, RefsOf
  <2>5. Refs(n, c) # <<>>
    BY <2>3
  <2>6. QED
    BY <1>2, <2>4, <2>5 DEF LegAgrees, Artifactual
<1>3. CASE sku \in Artifactual \ {"image"}
  <2>1. value = Brackets([artifact |-> Ref(n, 1)]) /\ sku # "moderation"
    BY <1>3 DEF Results, Artifactual
  <2>2. /\ value.form = "brackets" /\ DOMAIN value.fields = {"artifact"}
        /\ value.fields.artifact = Ref(n, 1)
    BY <2>1 DEF Brackets
  <2>3. RefsParse(sku, n, value) /\ RefsOf(sku, value) = <<Ref(n, 1)>>
    BY <1>3, <2>2 DEF RefsParse, RefsOf, Ref
  <2>4. QED
    BY <1>3, <2>1, <2>3 DEF LegAgrees
<1>4. CASE sku \notin Artifactual /\ sku # "moderation"
  <2>1. value = Brackets([text |-> "text"]) /\ sku # "image"
    BY <1>4 DEF Results, Artifactual
  <2>2. value.form = "brackets" /\ DOMAIN value.fields = {"text"}
    BY <2>1 DEF Brackets
  <2>3. RefsParse(sku, n, value) /\ RefsOf(sku, value) = <<>>
    BY <1>4, <2>1, <2>2 DEF RefsParse, RefsOf
  <2>4. QED
    BY <1>4, <2>3 DEF LegAgrees
<1>5. QED
    BY <1>1, <1>2, <1>3, <1>4 DEF Artifactual

\* A wrong one is not, but for what the run does not read of a moderation it was
\* asked to run as its target; and it holds no receipt.
LEMMA WrongResultsNoticed ==
    ASSUME NEW n \in Nat, NEW sku \in SKUs, NEW name, NEW value,
           <<name, value>> \in WrongResults(n, sku)
    PROVE  /\ name # "none"
           /\ name \notin Unnoticed \/ name \in {"no_receipt", "no_kind"}
           /\ sku = "moderation" => Receipt(value) = NoReceipt
           /\ RefsParse(sku, n, value) /\ LegAgrees(sku, RefsOf(sku, value)) =>
                 sku = "moderation" /\ name \in {"no_receipt", "no_kind"}
<1>1. CASE <<name, value>> = <<"no_result", Null>>
  <2>1. name = "no_result" /\ value.form = "null"
    BY <1>1 DEF Null
  <2>2. QED
    BY <2>1 DEF Unnoticed, Receipt, RefsParse
<1>2. CASE sku = "moderation" /\ <<name, value>> # <<"no_result", Null>>
  <2>1. \/ name = "no_receipt" /\ value = Moderation("pass", NoReceipt)
        \/ name = "no_kind" /\ value = Brackets([verdict |-> "pass"])
    <3>1. WrongResults(n, sku) = {<<"no_result", Null>>} \cup
              {<<"no_receipt", Moderation("pass", NoReceipt)>>,
               <<"no_kind", Brackets([verdict |-> "pass"])>>}
      BY <1>2 DEF WrongResults, Artifactual
    <3>2. QED
      BY <1>2, <3>1
  <2>2. Receipt(value) = NoReceipt
    BY <2>1 DEF Receipt, Moderation, Brackets
  <2>3. QED
    BY <1>2, <2>1, <2>2
<1>3. CASE sku = "image" /\ <<name, value>> # <<"no_result", Null>>
  <2>1. \/ name = "no_images" /\ value = Images(<<>>, 0)
        \/ name = "miscounted" /\ value = Images(Refs(n, 1), 2)
        \/ name = "foreign_ref" /\ value = Images(<<Ref(n + 1, 1)>>, 1)
    BY <1>3 DEF WrongResults
  <2>2. CASE name = "no_images" /\ value = Images(<<>>, 0)
    <3>1. value.fields.artifacts = <<>>
      BY <2>2 DEF Images, Brackets
    <3>2. ~LegAgrees(sku, RefsOf(sku, value))
      BY <1>3, <3>1 DEF RefsOf, LegAgrees, Artifactual
    <3>3. QED
      BY <1>3, <2>2, <3>2 DEF Unnoticed
  <2>3. CASE name = "miscounted" /\ value = Images(Refs(n, 1), 2)
    <3>1. value.fields.artifacts = Refs(n, 1) /\ value.fields.delivered = 2
      BY <2>3 DEF Images, Brackets
    <3>2. Len(Refs(n, 1)) = 1
      BY RefsType
    <3>3. ~RefsParse(sku, n, value)
      BY <1>3, <3>1, <3>2 DEF RefsParse
    <3>4. QED
      BY <1>3, <2>3, <3>3 DEF Unnoticed
  <2>4. CASE name = "foreign_ref" /\ value = Images(<<Ref(n + 1, 1)>>, 1)
    <3>1. value.fields.artifacts = <<Ref(n + 1, 1)>> /\ <<Ref(n + 1, 1)>>[1].of = n + 1
      BY <2>4 DEF Images, Brackets, Ref
    <3>2. ~RefsParse(sku, n, value)
      BY <1>3, <3>1 DEF RefsParse
    <3>3. QED
      BY <1>3, <2>4, <3>2 DEF Unnoticed
  <2>5. QED
    BY <2>1, <2>2, <2>3, <2>4
<1>4. CASE sku \in Artifactual \ {"image"} /\ <<name, value>> # <<"no_result", Null>>
  <2>1. /\ \/ name = "no_artifact" /\ value = Brackets([text |-> "text"])
           \/ name = "foreign_ref" /\ value = Brackets([artifact |-> Ref(n + 1, 1)])
           \/ name = "both_shapes" /\ value = Brackets([artifact |-> Ref(n, 1), artifacts |-> <<>>])
        /\ sku # "moderation"
    BY <1>4 DEF WrongResults, Artifactual
  <2>2. ~RefsParse(sku, n, value)
    BY <1>4, <2>1 DEF RefsParse, Brackets, Ref
  <2>3. QED
    BY <1>4, <2>1, <2>2 DEF Unnoticed
<1>5. CASE sku \notin Artifactual /\ sku # "moderation" /\ <<name, value>> # <<"no_result", Null>>
  <2>1. name = "stray_artifact" /\ value = Brackets([artifact |-> Ref(n, 1)]) /\ sku # "image"
    BY <1>5 DEF WrongResults, Artifactual
  <2>2. ~RefsParse(sku, n, value)
    BY <1>5, <2>1 DEF RefsParse, Brackets
  <2>3. QED
    BY <1>5, <2>1, <2>2 DEF Unnoticed
<1>6. QED
    BY <1>1, <1>2, <1>3, <1>4, <1>5 DEF Artifactual
-----------------------------------------------------------------------------
(* The other calls.                                                        *)

\* The invocation that is polled is there, and nobody cancels it.
LEMMA PolledFacts ==
    ASSUME Running, pc \in {"poll mint", "poll main"}
    PROVE  /\ id \in DOMAIN inv /\ id \in Nat \ {0}
           /\ inv[id].key = IF pc = "poll mint" THEN MintKeyOf(leg) ELSE "create"
           /\ inv[id].request.sku = IF pc = "poll mint" THEN "moderation" ELSE cfg.sku
           /\ inv[id].state \notin {"cancelled", "cancel_pending"}
           /\ pc = "poll main" => leg = "main" /\ id = mainId
           /\ pc = "poll mint" => cfg.sku # "moderation"
           /\ leg \in Legs
<1>1. /\ pc = "poll main" => leg = "main"
      /\ pc = "poll mint" => cfg.sku # "moderation"
      /\ leg \in Legs
    BY RunningFacts DEF ControlInv, Running, RunTypeOK, Legs, RuntimePCs
<1>2. id \in Under(IF pc = "poll mint" THEN MintKeyOf(leg) ELSE "create")
  <2>1. CASE pc = "poll mint"
    BY <2>1, RunningFacts DEF LookInv
  <2>2. CASE pc = "poll main"
    <3>1. ~BeforeTarget("main") /\ id = mainId
      BY <1>1, <2>2, RunningFacts DEF LookInv, BeforeTarget, BeforeReceipt, BeforeMint
    <3>2. QED
      BY <2>2, <3>1, RunningFacts DEF KeysInv
  <2>3. QED
    BY <2>1, <2>2
<1>3. /\ id \in DOMAIN inv
      /\ inv[id].key = IF pc = "poll mint" THEN MintKeyOf(leg) ELSE "create"
    BY <1>2 DEF Under
<1>4. inv[id].request = RequestOf(inv[id].key) /\ inv[id].state \notin {"cancelled", "cancel_pending"}
    BY <1>3, RunningFacts DEF ServerInv, MintKeyOf
<1>5. MintRequest.sku = "moderation" /\ TargetRequest("main").sku = cfg.sku
    BY MadeType DEF Legs
<1>6. inv[id].request.sku = IF pc = "poll mint" THEN "moderation" ELSE cfg.sku
    BY <1>3, <1>4, <1>5 DEF RequestOf, MintKeyOf
<1>7. pc = "poll main" => id = mainId
    BY RunningFacts DEF LookInv
<1>8. id \in Nat \ {0}
    BY <1>3, RunningFacts
<1>9. QED
    BY <1>1, <1>3, <1>4, <1>6, <1>7, <1>8

\* Poll: what is believed, and why a poll fails.
LEMMA PollEffect == Running /\ PollOnce => PollGoes \/ PollMintEnds \/ PollMainEnds \/ Stops
<1> SUFFICES ASSUME Running, PollOnce PROVE PollGoes \/ PollMintEnds \/ PollMainEnds \/ Stops
    OBVIOUS
<1>1. pc \in {"poll mint", "poll main"} /\ attempts < MaxAttempts
    BY DEF PollOnce
<1>2. PICK answer \in Poll(id) :
        /\ Receives(answer)
        /\ LET got == answer.result IN
            IF ~got.ok
            THEN FailsWith(IF pc = "poll mint" THEN MintFailure(got) ELSE "failed")
            ELSE IF ~got.snapshot.terminal
            THEN /\ etag' = got.etag /\ attempts' = Counted(got)
                 /\ Continue(pc)
                 /\ UNCHANGED <<leg, id, mainId, result, refs, first, nonces, evidence>>
            ELSE IF ~Successful(got.snapshot)
            THEN FailsWith(IF pc = "poll mint" THEN "mint_failed" ELSE "failed")
            ELSE IF pc = "poll main" THEN MainCompleted(got.snapshot)
            ELSE IF Receipt(got.snapshot.result) = NoReceipt THEN FailsWith("mint_failed")
            ELSE MintedReceipt(got.snapshot)
    BY DEF PollOnce
<1>3. /\ answer.inv = inv
      /\ \/ /\ answer.defect = defect /\ IdFits
            /\ TellsNothing(answer) \/ Shows(answer, SnapshotOf(id, inv[id]))
         \/ /\ defect = "none" /\ answer.defect \in {"stale", "ahead"}
            /\ TellsNothing(answer)
         \/ /\ defect = "none" /\ answer.defect = "foreign"
            /\ \E m \in DOMAIN inv : Shows(answer, SnapshotOf(m, inv[m]))
         \/ defect = "none" /\ answer.defect # "none" /\ PollFails(answer)
         \/ defect = "none" /\ answer.defect = "get_refused" /\ PollRefused(answer)
         \/ ~IdFits /\ answer.defect = defect /\ PollRefused(answer)
  <2>1. CASE IdFits
    BY <1>1, <2>1, PolledFacts, PollAnswers, RunningFacts DEF Poll, Running, RunTypeOK
  <2>2. CASE ~IdFits
    BY <2>2 DEF Poll, Answer, BadId, Failure, PollRefused
  <2>3. QED
    BY <2>1, <2>2
<1>4. inv' = inv /\ defect' = answer.defect /\ UNCHANGED cfg
    BY <1>2, <1>3 DEF Receives
<1>5. ASSUME NEW why, why # "blocked", FailsWith(why), defect' # "none" \/ Excused'
      PROVE  Stops
  <2>1. NoFalseAlarm'
    BY <1>5, NotBlocked DEF FailsWith
  <2>2. QED
    BY <1>3, <1>4, <1>5, <2>1, FailsStops
<1>6. ASSUME answer.result.ok, ~answer.result.snapshot.terminal, answer.result.etag \in Nat,
             defect' = defect \/ (defect = "none" /\ defect' \in {"stale", "ahead", "foreign"})
      PROVE  PollGoes
    BY <1>1, <1>2, <1>4, <1>6 DEF PollGoes, Continue, Counted
<1>7. CASE /\ TellsNothing(answer)
           /\ defect' = defect \/ (defect = "none" /\ defect' \in {"stale", "ahead"})
    BY <1>6, <1>7 DEF TellsNothing
<1>8. CASE PollFails(answer) /\ defect = "none" /\ defect' # "none"
  <2>1. \E why \in {"mint_failed", "failed"} : FailsWith(why)
    BY <1>2, <1>8 DEF PollFails, MintFailure
  <2>2. QED
    BY <1>5, <1>8, <2>1
<1>9. ASSUME NEW m \in DOMAIN inv, Shows(answer, SnapshotOf(m, inv[m])),
             \/ m = id /\ defect' = defect /\ IdFits
             \/ defect = "none" /\ defect' = "foreign"
      PROVE  PollGoes \/ PollMintEnds \/ PollMainEnds \/ Stops
  <2> DEFINE s == SnapshotOf(m, inv[m])
  <2>1. /\ s.version \in Nat /\ s.state = inv[m].state /\ s.result = inv[m].result
        /\ s.terminal = (inv[m].state \in TerminalStates)
        /\ answer.result.ok /\ answer.result.snapshot = s /\ answer.result.etag = s.version
    BY <1>9, SnapshotShape, RunningFacts DEF Shows, Showable
  <2>2. Told(s)
    BY <1>9 DEF Told
  <2> HIDE DEF s
  <2>3. CASE inv[m].state \notin TerminalStates
    BY <1>6, <1>9, <2>1, <2>3
  <2>4. CASE inv[m].state \in TerminalStates /\ inv[m].state # "completed"
    <3>1. ~Successful(s) /\ s.terminal
      BY <2>1, <2>4 DEF Successful
    <3>2. \E why \in {"mint_failed", "failed"} : FailsWith(why)
      BY <1>2, <2>1, <3>1
    <3>3. defect' = defect => inv[m].state = "failed"
      BY <1>1, <1>9, <2>4, PolledFacts DEF TerminalStates
    <3>4. defect' # "none" \/ Excused'
      BY <1>4, <1>9, <3>3 DEF Excused
    <3>5. QED
      BY <1>5, <3>2, <3>4
  <2>5. CASE inv[m].state = "completed"
    <3>1. Successful(s) /\ s.terminal /\ s.state = "completed"
      BY <2>1, <2>5 DEF Successful, TerminalStates
    <3>2. CASE pc = "poll main"
      <4>1. MainCompleted(s)
        BY <1>2, <2>1, <3>1, <3>2
      <4>2. QED
        BY <1>4, <2>2, <3>1, <3>2, <4>1 DEF PollMainEnds
    <3>3. CASE pc = "poll mint" /\ Receipt(s.result) # NoReceipt
      <4>1. MintedReceipt(s)
        BY <1>2, <2>1, <3>1, <3>3
      <4>2. QED
        BY <1>4, <2>2, <3>1, <3>3, <4>1 DEF PollMintEnds
    <3>4. CASE pc = "poll mint" /\ Receipt(s.result) = NoReceipt
      <4>1. FailsWith("mint_failed")
        BY <1>2, <2>1, <3>1, <3>4
      <4>2. ASSUME defect' = "none" PROVE Excused'
        <5>1. m = id /\ defect = "none" /\ inv[m].request.sku = "moderation" /\ m \in Nat \ {0}
          BY <1>9, <3>4, <4>2, PolledFacts
        <5>2. <<defect, inv[m].result>> \notin WrongResults(m, "moderation")
          BY <5>1, WrongResultsNoticed DEF SKUs
        <5>3. inv[m].result \in Results(m, "moderation")
          BY <2>5, <5>1, <5>2, RunningFacts DEF ServerInv
        <5>4. inv[m].result = Moderation("pass", m) \/ inv[m].result = Moderation("block", NoReceipt)
          BY <5>1, <5>3, RightResults DEF SKUs
        <5>5. Receipt(Moderation("pass", m)) = m
          BY DEF Receipt, Moderation, Brackets
        <5>6. inv[m].result = Moderation("block", NoReceipt)
          BY <2>1, <3>4, <5>1, <5>4, <5>5 DEF NoReceipt
        <5>7. QED
          BY <1>4, <2>5, <5>1, <5>6 DEF Excused, Moderation
      <4>3. QED
        BY <1>5, <4>1, <4>2
    <3>5. QED
      BY <1>1, <3>2, <3>3, <3>4
  <2>6. QED
    BY <2>3, <2>4, <2>5
<1>10. CASE /\ PollRefused(answer) /\ defect' \in {"malformed_id", "get_refused"}
            /\ defect' = defect \/ defect = "none"
  <2>1. \E why \in {"blocked", "failed"} : FailsWith(why) /\ (why = "blocked" => pc = "poll mint")
    BY <1>1, <1>2, <1>10 DEF PollRefused, MintFailure
  <2>2. PICK why \in {"blocked", "failed"} : FailsWith(why) /\ (why = "blocked" => pc = "poll mint")
    BY <2>1
  <2>3. CASE why = "failed"
    BY <1>5, <1>10, <2>2, <2>3
  <2>4. CASE why = "blocked"
    <3>1. Under(MintKey)' # {}
      <4>1. pc = "poll mint" /\ id \in Under(MintKey)
        BY <2>2, <2>4, RunningFacts DEF LookInv, MintKey, MintKeyOf
      <4>2. Under(MintKey)' = Under(MintKey)
        BY <1>4, <2>2 DEF Under, MintKey, FailsWith, progress
      <4>3. QED
        BY <4>1, <4>2
    <3>2. NoFalseAlarm'
      BY <1>10, <3>1 DEF NoFalseAlarm
    <3>3. QED
      BY <1>3, <1>4, <1>10, <2>2, <3>2, FailsStops
  <2>5. QED
    BY <2>3, <2>4
<1>11. QED
  <2>1. id \in DOMAIN inv
    BY <1>1, PolledFacts
  <2>2. PollRefused(answer) => defect' \in {"malformed_id", "get_refused"} \/ defect = "none"
    BY <1>3, <1>4 DEF PollRefused, TellsNothing, Shows, IdFits, PollFails
  <2>3. QED
    BY <1>3, <1>4, <1>7, <1>8, <1>9, <1>10, <2>1 DEF IdFits

\* The order of the runtime calls.
LEMMA CallNames ==
      /\ RuntimeCalls[1] = "token" /\ RuntimeCalls[2] = "sku catalog"
      /\ RuntimeCalls[3] = "offer catalog" /\ RuntimeCalls[4] = "balance"
      /\ RuntimeCalls[5] = "balance again" /\ RuntimeCalls[6] = "ledger"
      /\ RuntimeCalls[7] = "ledger again" /\ RuntimeCalls[8] = "sync"
      /\ RuntimeCalls[9] = "sync again" /\ RuntimeCalls[10] = "passed"
BY DEF RuntimeCalls

\* The runtime calls are distinct, so each has the one after it in the list.
LEMMA RuntimeOrder ==
    ASSUME NEW i \in 1..9
    PROVE  Following(RuntimeCalls[i]) = RuntimeCalls[i + 1]
<1>1. DOMAIN RuntimeCalls = 1..10
    BY DEF RuntimeCalls
<1>2. ASSUME NEW c \in 1..10, NEW d \in 1..10, RuntimeCalls[c] = RuntimeCalls[d] PROVE c = d
  <2>1. \A e \in 1..10 : e \in {1, 2, 3, 4, 5, 6, 7, 8, 9, 10}
    OBVIOUS
  <2>2. QED
    BY <1>2, <2>1, CallNames, ZenonT(60)
<1>3. i \in 1..10 /\ 1 + i = i + 1
    OBVIOUS
<1>4. (CHOOSE c \in DOMAIN RuntimeCalls : RuntimeCalls[c] = RuntimeCalls[i]) = i
    BY <1>1, <1>2, <1>3
<1>5. Following(RuntimeCalls[i]) = RuntimeCalls[1 + i]
    BY <1>4, Zenon DEF Following
<1>6. QED
    BY <1>3, <1>5

\* The order of the runtime calls by name.
LEMMA FollowingIs ==
    /\ Following("token") = "sku catalog" /\ Following("sku catalog") = "offer catalog"
    /\ Following("offer catalog") = "balance" /\ Following("balance") = "balance again"
    /\ Following("balance again") = "ledger" /\ Following("ledger") = "ledger again"
    /\ Following("ledger again") = "sync" /\ Following("sync") = "sync again"
    /\ Following("sync again") = "passed"
<1>2. \A i \in 1..9 : Following(RuntimeCalls[i]) = RuntimeCalls[i + 1]
    BY RuntimeOrder
<1>3. /\ Following(RuntimeCalls[1]) = RuntimeCalls[2] /\ Following(RuntimeCalls[2]) = RuntimeCalls[3]
      /\ Following(RuntimeCalls[3]) = RuntimeCalls[4] /\ Following(RuntimeCalls[4]) = RuntimeCalls[5]
      /\ Following(RuntimeCalls[5]) = RuntimeCalls[6] /\ Following(RuntimeCalls[6]) = RuntimeCalls[7]
      /\ Following(RuntimeCalls[7]) = RuntimeCalls[8] /\ Following(RuntimeCalls[8]) = RuntimeCalls[9]
      /\ Following(RuntimeCalls[9]) = RuntimeCalls[10]
    BY <1>2
<1>4. QED
    BY CallNames, <1>3

\* Replay: the key leads back to the main invocation, and its result is taken.
LEMMA ReplayEffect == Running /\ Replay => ReplayGoes \/ Stops
<1> SUFFICES ASSUME Running, Replay PROVE ReplayGoes \/ Stops
    OBVIOUS
<1> DEFINE r == TargetRequest("main")
           Takes == RefsParse(cfg.sku, mainId, result) /\ LegAgrees(cfg.sku, RefsOf(cfg.sku, result))
<1>1. /\ pc = "replay" /\ leg = "main" /\ cfg.mode \in {"async", "stream"} /\ cfg.sku \in SKUs
      /\ Under("create") = {mainId}
      /\ defect # "foreign" => inv[mainId].state = "completed" /\ inv[mainId].result = result
  <2>1. pc = "replay" /\ leg = "main"
    BY RunningFacts DEF Replay, ControlInv, Running, RunTypeOK, Legs, RuntimePCs
  <2>2. ~BeforeTarget("main")
    BY <2>1 DEF BeforeTarget, BeforeReceipt, BeforeMint
  <2>3. QED
    BY <2>1, <2>2, RunningFacts DEF ControlInv, KeysInv, ResultInv
<1>2. /\ mainId \in DOMAIN inv /\ inv[mainId].key = "create" /\ mainId \in Nat
      /\ inv[mainId].request.sku = cfg.sku
  <2>1. mainId \in DOMAIN inv /\ inv[mainId].key = "create"
    BY <1>1 DEF Under
  <2>2. inv[mainId].request = RequestOf("create")
    BY <2>1, RunningFacts DEF ServerInv
  <2>3. mainId \in Nat
    BY DEF Running, RunTypeOK
  <2>4. QED
    BY <1>1, <2>1, <2>2, <2>3, MadeType DEF RequestOf, Legs
<1>3. defect = "none" => Takes
  <2>1. SUFFICES ASSUME defect = "none" PROVE Takes
    OBVIOUS
  <2>2. <<defect, result>> \notin WrongResults(mainId, cfg.sku)
    BY <1>1, <1>2, <2>1, WrongResultsNoticed
  <2>3. result \in Results(mainId, cfg.sku)
    BY <1>1, <1>2, <2>1, <2>2, RunningFacts DEF ServerInv
  <2>4. QED
    BY <1>1, <1>2, <2>3, RightResults
<1>4. PICK answer \in Create(r, "create") :
        /\ Receives(answer)
        /\ IF SameInvocation(answer.result) /\ Takes
           THEN /\ refs' = RefsOf(cfg.sku, result)
                /\ Continue("download")
                /\ UNCHANGED <<leg, id, attempts, etag, mainId, result, first, nonces, evidence>>
           ELSE /\ pc' = "failed" /\ how' = "failed"
                /\ UNCHANGED <<progress, evidence>>
    BY DEF Replay
<1>5. \/ ~Validates(r) /\ RefusedAs(answer, {"invalid_invocation_request"})
      \/ answer.inv = inv /\ answer.defect = defect /\ answer.result = Created(303, mainId)
      \/ /\ answer.inv = Made(r, "create") /\ defect = "none"
         /\ answer.defect \in {"second_create", "other_location"}
         /\ answer.result.ok /\ answer.result.id # mainId
    BY <1>1, KnownCreate, RunningFacts
<1>6. inv' = answer.inv /\ defect' = answer.defect /\ UNCHANGED cfg
    BY <1>4 DEF Receives
<1>7. ASSUME ~(SameInvocation(answer.result) /\ Takes), defect' = "none" => cfg.input = "fraction",
             defect' = defect \/ defect = "none", inv' = inv \/ inv' = Made(r, "create")
      PROVE  Stops
  <2>1. pc' = "failed" /\ how' = "failed" /\ UNCHANGED <<progress, evidence>>
    BY <1>4, <1>7
  <2>2. NoFalseAlarm'
    BY <1>6, <1>7, <2>1, NotBlocked DEF Excused
  <2>3. QED
    BY <1>1, <1>6, <1>7, <2>1, <2>2 DEF Stops, Keys
<1>8. CASE ~Validates(r) /\ RefusedAs(answer, {"invalid_invocation_request"})
  <2>1. ~SameInvocation(answer.result)
    BY <1>8 DEF RefusedAs, SameInvocation
  <2>2. cfg.input = "fraction"
    <3>1. r.subject = Subject /\ Subject.input = cfg.input
      BY <1>1, MadeType DEF Legs, Subject
    <3>2. QED
      BY <1>8, <3>1 DEF Validates
  <2>3. QED
    BY <1>6, <1>7, <1>8, <2>1, <2>2 DEF RefusedAs
<1>9. CASE answer.inv = inv /\ answer.defect = defect /\ answer.result = Created(303, mainId)
  <2>1. SameInvocation(answer.result)
    BY <1>9 DEF SameInvocation, Created
  <2>2. CASE Takes
    BY <1>1, <1>4, <1>6, <1>9, <2>1, <2>2 DEF ReplayGoes, Continue, server
  <2>3. CASE ~Takes
    BY <1>3, <1>6, <1>7, <1>9, <2>3
  <2>4. QED
    BY <2>2, <2>3
<1>10. CASE /\ answer.inv = Made(r, "create") /\ defect = "none"
            /\ answer.defect \in {"second_create", "other_location"}
            /\ answer.result.ok /\ answer.result.id # mainId
  <2>1. ~SameInvocation(answer.result)
    BY <1>10 DEF SameInvocation
  <2>2. QED
    BY <1>6, <1>7, <1>10, <2>1
<1>11. QED
    BY <1>5, <1>8, <1>9, <1>10

\* A reference the run follows names the main invocation, which has a number.
LEMMA RefsOfMain ==
    ASSUME NEW sku \in SKUs, NEW n, NEW value, RefsParse(sku, n, value)
    PROVE  \A a \in DOMAIN RefsOf(sku, value) : RefsOf(sku, value)[a].of = n
BY DEF RefsParse, RefsOf

\* Once it is created, the main invocation is one of the server's.
LEMMA MainIdFacts ==
    ASSUME Running, ~BeforeTarget("main")
    PROVE  mainId \in DOMAIN inv /\ mainId \in Nat \ {0} /\ inv[mainId].key = "create"
<1>1. mainId \in DOMAIN inv /\ inv[mainId].key = "create"
    BY RunningFacts DEF KeysInv, Under
<1>2. QED
    BY <1>1, RunningFacts

\* Download: an artifact that is not what the server holds is refused.
LEMMA DownloadEffect == Running /\ DownloadNext => DownloadGoes \/ Stops
<1> SUFFICES ASSUME Running, DownloadNext PROVE DownloadGoes \/ Stops
    OBVIOUS
<1>1. pc = "download" /\ refs # <<>> /\ leg = "main" /\ cfg.sku \in SKUs
    BY RunningFacts DEF DownloadNext, ControlInv, Running, RunTypeOK, Legs, RuntimePCs
<1>2. Head(refs).of # 0
  <2>1. refs \in Seq(RefSet(result)) /\ RefsParse(cfg.sku, mainId, result)
    BY <1>1, RunningFacts DEF ResultInv
  <2>2. Head(refs) \in RefSet(result)
    BY <1>1, <2>1
  <2>3. Head(refs).of = mainId
    BY <1>1, <2>1, <2>2, RefsOfMain DEF RefSet
  <2>4. ~BeforeTarget("main")
    BY <1>1 DEF BeforeTarget, BeforeReceipt, BeforeMint
  <2>5. QED
    BY <2>3, <2>4, MainIdFacts
<1>3. PICK answer \in Download(Head(refs)) :
        /\ Receives(answer)
        /\ IF answer.result.ok
           THEN /\ fetched' = fetched \cup {Head(refs)} /\ refs' = Tail(refs)
                /\ Continue("download")
                /\ UNCHANGED <<leg, id, attempts, etag, mainId, result, first, nonces,
                               receipts, printed>>
           ELSE FailsWith("failed")
    BY DEF DownloadNext
<1>4. /\ answer.inv = inv
      /\ \/ answer.defect = defect /\ answer.result.ok
         \/ defect = "none" /\ answer.defect = "other_bytes" /\ answer.result.ok
         \/ defect = "none" /\ answer.defect # "none" /\ ~answer.result.ok
    BY <1>2, DownloadAnswers
<1>5. CASE answer.result.ok
    BY <1>1, <1>3, <1>4, <1>5 DEF Receives, DownloadGoes, Continue
<1>6. CASE ~answer.result.ok
  <2>1. /\ FailsWith("failed") /\ inv' = inv /\ defect = "none" /\ defect' # "none"
        /\ UNCHANGED cfg
    BY <1>3, <1>4, <1>6 DEF Receives
  <2>2. NoFalseAlarm'
    BY <2>1, NotBlocked DEF FailsWith
  <2>3. QED
    BY <2>1, <2>2, FailsStops
<1>7. QED
    BY <1>5, <1>6

\* Cancel: accepted, or too late for an invocation that has ended.
LEMMA CancelEffect == Running /\ CancelIt => CancelGoes \/ Stops
<1> SUFFICES ASSUME Running, CancelIt PROVE CancelGoes \/ Stops
    OBVIOUS
<1>1. pc = "cancel" /\ id \in DOMAIN inv
  <2>1. pc = "cancel" /\ leg = "cancel"
    BY RunningFacts DEF CancelIt, ControlInv, Running, RunTypeOK, Legs
  <2>2. ~BeforeTarget("cancel")
    BY <2>1 DEF BeforeTarget, BeforeReceipt, BeforeMint
  <2>3. QED
    BY <2>1, <2>2, RunningFacts DEF LookInv, Under
<1>2. PICK answer \in Cancel(id) :
        /\ Receives(answer)
        /\ LET got == answer.result IN
            IF got.ok \/ TooLate(got)
            THEN /\ Prints(<<"cancel", IF got.ok THEN "accepted" ELSE "already_terminal">>)
                 /\ pc' = "token" /\ streams' = {} /\ UNCHANGED how
                 /\ UNCHANGED <<progress, receipts, fetched>>
            ELSE FailsWith("failed")
    BY DEF CancelIt
<1>0. CASE ~IdFits
  <2>1. FailsWith("failed") /\ UNCHANGED <<inv, defect, cfg>> /\ defect # "none"
    BY <1>0, <1>2 DEF Cancel, Answer, BadId, Failure, TooLate, Receives, IdFits
  <2>2. NoFalseAlarm'
    BY <2>1, NotBlocked DEF FailsWith
  <2>3. QED
    BY <2>1, <2>2, FailsStops
<1>3. IdFits =>
      \/ /\ inv[id].state \in TerminalStates /\ answer.inv = inv /\ answer.defect = defect
         /\ answer.result.ok \/ TooLate(answer.result)
      \/ /\ inv[id].state \notin TerminalStates
         /\ answer.defect = defect \/ (defect = "none" /\ answer.defect = "renamed_cancel")
         /\ \E state \in {"cancel_pending", "cancelled"} :
               answer.inv = [inv EXCEPT ![id] = Moved(@, state)]
         /\ answer.result.ok
      \/ /\ defect = "none" /\ answer.defect = "not_cancelled" /\ answer.inv = inv
         /\ answer.result.ok
      \/ /\ defect = "none" /\ answer.defect # "none" /\ answer.inv = inv
         /\ ~answer.result.ok /\ ~TooLate(answer.result)
    BY <1>1, <1>2, CancelAnswers, RunningFacts DEF Cancel
<1>4. CASE IdFits /\ (answer.result.ok \/ TooLate(answer.result))
  <2>1. /\ \E x \in {"accepted", "already_terminal"} : Prints(<<"cancel", x>>)
        /\ answer.result.ok => Prints(<<"cancel", "accepted">>)
        /\ pc' = "token" /\ streams' = {} /\ UNCHANGED how
        /\ UNCHANGED <<progress, receipts, fetched>>
    BY <1>2, <1>4
  <2>2. inv' = answer.inv /\ defect' = answer.defect /\ UNCHANGED cfg
    BY <1>2 DEF Receives
  <2>3. QED
    BY <1>1, <1>3, <1>4, <2>1, <2>2 DEF CancelGoes, server
<1>5. CASE IdFits /\ ~(answer.result.ok \/ TooLate(answer.result))
  <2>1. /\ FailsWith("failed") /\ inv' = inv /\ defect = "none" /\ defect' # "none"
        /\ UNCHANGED cfg
    BY <1>2, <1>3, <1>5 DEF Receives
  <2>2. NoFalseAlarm'
    BY <2>1, NotBlocked DEF FailsWith
  <2>3. QED
    BY <2>1, <2>2, FailsStops
<1>6. QED
    BY <1>0, <1>4, <1>5

\* SyncIdentity, and its replay.
LEMMA SyncEffect == Running /\ Sync => SyncGoes
<1> SUFFICES ASSUME Running, Sync PROVE SyncGoes
    OBVIOUS
<1>1. Following("sync") = "sync again"
    BY FollowingIs
<1>2. PICK answer \in {Answer(Identity("ours", 1, 1), inv)}
                     \cup Defect("other_event", Identity("other", 1, 1), inv) :
        /\ Receives(answer)
        /\ first' = answer.result
        /\ Continue(Following(pc))
        /\ UNCHANGED <<leg, id, attempts, etag, mainId, result, refs, nonces, evidence>>
    BY DEF Sync
<1>3. QED
  <2>1. /\ answer.inv = inv
        /\ \/ answer.result = Identity("ours", 1, 1) /\ answer.defect = defect
           \/ answer.result = Identity("other", 1, 1) /\ defect = "none" /\ answer.defect = "other_event"
    BY <1>2 DEF Answer, Defect
  <2>2. pc = "sync" /\ pc' = "sync again"
    BY <1>1, <1>2 DEF Sync, Continue
  <2>3. QED
    BY <1>2, <2>1, <2>2 DEF Receives, Continue, SyncGoes

\* The second identity is held against the first; a breach in either stops the run.
LEMMA SyncAgainEffect == Running /\ SyncAgain => SyncAgainGoes \/ Stops
<1> SUFFICES ASSUME Running, SyncAgain PROVE SyncAgainGoes \/ Stops
    OBVIOUS
<1>1. pc = "sync again" /\ Following(pc) = "passed"
    BY FollowingIs DEF SyncAgain
<1>2. \/ first = Identity("ours", 1, 1)
      \/ first = Identity("other", 1, 1) /\ defect = "other_event"
    BY <1>1, RunningFacts DEF FirstInv
<1>3. PICK answer \in {Answer(Identity(first.event, 1, 2), inv)}
                     \cup Defect("other_fact", Identity(first.event, 2, 2), inv)
                     \cup Defect("same_request", Identity(first.event, 1, 1), inv) :
        /\ Receives(answer)
        /\ IF IdentityReplay(first, answer.result)
           THEN Continue(Following(pc)) /\ UNCHANGED <<progress, evidence>>
           ELSE FailsWith("failed")
    BY DEF SyncAgain
<1>4. inv' = inv /\ UNCHANGED cfg /\ defect' = answer.defect
    BY <1>3 DEF Receives, Answer, Defect
<1>5. CASE answer = Answer(Identity(first.event, 1, 2), inv) /\ first = Identity("ours", 1, 1)
  <2>1. IdentityReplay(first, answer.result) /\ answer.defect = defect
    BY <1>5 DEF Answer, Identity, IdentityReplay
  <2>2. QED
    BY <1>1, <1>3, <1>4, <1>5, <2>1 DEF SyncAgainGoes, Continue, server
<1>6. CASE \/ first = Identity("other", 1, 1) /\ defect = "other_event"
           \/ answer # Answer(Identity(first.event, 1, 2), inv)
  <2>1. /\ ~IdentityReplay(first, answer.result)
        /\ defect' # "none" /\ (defect' = defect \/ defect = "none")
    BY <1>2, <1>3, <1>4, <1>6 DEF Answer, Defect, Identity, IdentityReplay
  <2>2. FailsWith("failed")
    BY <1>3, <2>1
  <2>3. NoFalseAlarm'
    BY <2>1, <2>2, NotBlocked DEF FailsWith
  <2>4. QED
    BY <1>4, <2>1, <2>2, <2>3, FailsStops
<1>7. QED
    BY <1>2, <1>5, <1>6
-----------------------------------------------------------------------------
(* The steps nobody answers wrong, and the server's own.                   *)

LoadGoes ==
    /\ pc = "config" /\ pc' = "setup" /\ ConfigLoads
    /\ UNCHANGED <<cfg, server, how, streams, progress, evidence>>
SetupGoes ==
    /\ pc = "setup"
    /\ \/ cfg.sku = "moderation" /\ pc' = "create" /\ Prints(<<"receipt", "skipped">>)
       \/ cfg.sku # "moderation" /\ pc' = "mint" /\ UNCHANGED printed
    /\ UNCHANGED <<cfg, server, how, streams, progress, receipts, fetched>>
LegGoes ==
    /\ pc = "download" /\ refs = <<>> /\ leg' = "cancel"
    /\ pc' = IF cfg.sku = "moderation" THEN "create cancel" ELSE "mint"
    /\ Prints(<<"artifacts", IF cfg.sku \in Artifactual THEN "downloaded" ELSE "skipped">>)
    /\ UNCHANGED <<cfg, server, how, streams, id, attempts, etag, mainId, result, refs, first,
                   nonces, receipts, fetched>>
AskGoes ==
    /\ <<pc, pc'>> \in {<<"token", "sku catalog">>, <<"sku catalog", "offer catalog">>,
                        <<"offer catalog", "balance">>}
    /\ UNCHANGED <<cfg, server, how, streams, progress, evidence>>
ReadGoes ==
    /\ \/ pc = "balance" /\ pc' = "balance again" /\ first' = Sign("balance")
       \/ pc = "ledger" /\ pc' = "ledger again" /\ first' = Sign("ledger")
       \/ pc = "balance again" /\ pc' = "ledger"
       \/ pc = "ledger again" /\ pc' = "sync"
    /\ nonces' = nonces + 1
    /\ UNCHANGED <<cfg, server, how, streams, leg, id, attempts, etag, mainId, result, refs,
                   evidence>>
AdvanceGoes ==
    /\ pc \in {"poll mint", "poll main", "cancel"} /\ id \in DOMAIN inv
    /\ inv[id].state \in {"accepted", "running", "reconciling"}
    /\ \E i \in Invocation :
        /\ inv' = [inv EXCEPT ![id] = i] /\ i.key = inv[id].key /\ i.request = inv[id].request
        /\ \/ /\ i.state \in {"running", "reconciling", "failed"} /\ i.result = Null
              /\ defect' = defect
           \/ /\ i.state = "completed" /\ i.result \in Results(id, i.request.sku)
              /\ defect' = defect
           \/ /\ i.state = "completed" /\ <<defect', i.result>> \in WrongResults(id, i.request.sku)
              /\ defect = "none" /\ pc # "cancel"
    /\ UNCHANGED <<cfg, pc, how, streams, progress, evidence>>

\* A call that is lost, or a configuration that is no good, stops the run.
LEMMA LostStops ==
    ASSUME NEW why \in {"lost", "config", "budget"}, FailsWith(why), UNCHANGED <<cfg, server>>
    PROVE  Stops
<1>1. NoFalseAlarm'
    BY NotBlocked DEF FailsWith, Excused
<1>2. QED
    BY <1>1, FailsStops DEF server

\* The steps that load the configuration, and the ones that only stop.
LEMMA StartEffect ==
    /\ LoadConfig => LoadGoes \/ Stops
    /\ Setup => SetupGoes \/ Stops
    /\ OutOfBudget => Stops
    /\ CallFails => Stops
<1>1. LoadConfig => LoadGoes \/ Stops
    BY LostStops DEF LoadConfig, LoadGoes, Continue
<1>2. Setup => SetupGoes \/ Stops
    BY LostStops DEF Setup, SetupGoes, Continue, evidence
<1>3. OutOfBudget => Stops
    BY LostStops DEF OutOfBudget
<1>4. CallFails => Stops
    BY LostStops DEF CallFails
<1>5. QED
    BY <1>1, <1>2, <1>3, <1>4

\* The second leg begins when nothing is left to download.
LEMMA LegEffect == ArtifactsDone => LegGoes
BY DEF ArtifactsDone, LegGoes, Downloaded, Continue

\* The runtime calls: every assertion is a new one, so that the strict nonce
\* check finds what it looks for.
LEMMA AskEffect == AskOnce => AskGoes
BY FollowingIs DEF AskOnce, AskGoes, Continue, server

\* The second read differs in its nonce from the first: StrictNonce never fails.
LEMMA ReadEffect ==
    ASSUME Running, NEW operation \in {"balance", "ledger"}
    PROVE  Read(operation) \/ ReadAgain(operation) => ReadGoes
<1>1. CASE Read(operation)
    BY <1>1, FollowingIs DEF Read, ReadGoes, Continue
<1>2. CASE ReadAgain(operation)
  <2>1. \/ operation = "balance" /\ pc = "balance again"
        \/ operation = "ledger" /\ pc = "ledger again"
    BY <1>2, FollowingIs DEF ReadAgain
  <2>2. first = [operation |-> operation, nonce |-> nonces] /\ nonces \in Nat
    BY <2>1, RunningFacts DEF FirstInv, Running, RunTypeOK
  <2>3. StrictNonce(first, Sign(operation), operation)
    BY <2>2 DEF StrictNonce, Sign
  <2>4. /\ first' = <<>> /\ nonces' = nonces + 1 /\ Continue(Following(pc))
        /\ UNCHANGED <<leg, id, attempts, etag, mainId, result, refs, evidence>>
        /\ UNCHANGED <<cfg, server>>
    BY <1>2, <2>3 DEF ReadAgain
  <2>5. QED
    BY <2>1, <2>4, FollowingIs DEF ReadGoes, Continue
<1>3. QED
    BY <1>1, <1>2

\* The invocation the run looks at while the server may move it on.
LEMMA LookedAt ==
    ASSUME Running, pc \in {"poll mint", "poll main", "cancel"}
    PROVE  id \in DOMAIN inv /\ id \in Nat \ {0} /\ inv[id] \in Invocation
<1>1. CASE pc \in {"poll mint", "poll main"}
    BY <1>1, PolledFacts, RunningFacts
<1>2. CASE pc = "cancel"
  <2>1. leg = "cancel"
    BY <1>2, RunningFacts DEF ControlInv, Running, RunTypeOK, Legs
  <2>2. ~BeforeTarget("cancel")
    BY <1>2, <2>1 DEF BeforeTarget, BeforeReceipt, BeforeMint
  <2>3. id \in DOMAIN inv
    BY <2>2, RunningFacts DEF LookInv, Under
  <2>4. QED
    BY <2>3, RunningFacts
<1>3. QED
    BY <1>1, <1>2

\* An invocation that moves on is one still, with the same key and request.
LEMMA InvocationMoves ==
    ASSUME NEW i \in Invocation, NEW state \in States
    PROVE  LET j == [i EXCEPT !.state = state, !.version = @ + 1] IN
           /\ j \in Invocation /\ j.key = i.key /\ j.request = i.request
           /\ j.state = state /\ j.result = i.result
<1>1. i.version + 1 \in Nat \ {0}
  <2>1. i.version \in Nat
    BY DEF Invocation
  <2>2. QED
    BY <2>1
<1>2. QED
    BY <1>1 DEF Invocation

\* A completed invocation is the one it was, with its result.
LEMMA InvocationCompletes ==
    ASSUME NEW i \in Invocation, NEW value \in Value
    PROVE  /\ Completed(i, value) \in Invocation
           /\ Completed(i, value).key = i.key /\ Completed(i, value).request = i.request
           /\ Completed(i, value).state = "completed" /\ Completed(i, value).result = value
<1> DEFINE j == [i EXCEPT !.state = "completed", !.version = @ + 1]
<1>1. j \in Invocation /\ j.key = i.key /\ j.request = i.request /\ j.state = "completed"
    BY InvocationMoves DEF States, TerminalStates
<1>2. Completed(i, value) = [j EXCEPT !.result = value]
    BY DEF Completed, Invocation
<1> HIDE DEF j
<1>3. QED
    BY <1>1, <1>2 DEF Invocation

\* The results an invocation may complete with, right or wrong, are values.
LEMMA ValueHolds ==
    ASSUME NEW n \in Nat, NEW sku \in SKUs
    PROVE  /\ Results(n, sku) \subseteq Value
           /\ \A wrong \in WrongResults(n, sku) : wrong[2] \in Value
<1>1. ValuesOf(n, sku) \subseteq Value
    BY DEF Value
<1>2. QED
    BY <1>1 DEF ValuesOf

\* The server moves on with the invocation looked at, and no other.
LEMMA AdvanceEffect == Running /\ Advance => AdvanceGoes
<1> SUFFICES ASSUME Running, Advance PROVE AdvanceGoes
    OBVIOUS
<1>1. /\ pc \in {"poll mint", "poll main", "cancel"}
      /\ UNCHANGED <<cfg, pc, how, streams, progress, evidence>>
    BY DEF Advance
<1>2. PICK i \in Invocation : i = inv[id]
    BY <1>1, LookedAt
<1>3. /\ id \in DOMAIN inv /\ id \in Nat \ {0} /\ i.request.sku \in SKUs
      /\ i.state # "completed" => i.result = Null
    BY <1>1, <1>2, LookedAt, RunningFacts DEF Invocation
<1>4. ASSUME NEW state \in {"running", "reconciling", "failed"},
             inv' = [inv EXCEPT ![id].state = state, ![id].version = @ + 1],
             i.state \in {"accepted", "running", "reconciling"}, UNCHANGED defect
      PROVE  AdvanceGoes
  <2> DEFINE j == [i EXCEPT !.state = state, !.version = @ + 1]
  <2>1. /\ j \in Invocation /\ j.key = i.key /\ j.request = i.request
        /\ j.state = state /\ j.result = i.result
    BY InvocationMoves DEF States, TerminalStates
  <2>2. inv' = [inv EXCEPT ![id] = j]
    BY <1>2, <1>3, <1>4 DEF Invocation
  <2>3. i.result = Null
    BY <1>3, <1>4
  <2> HIDE DEF j
  <2>4. QED
    BY <1>1, <1>2, <1>3, <1>4, <2>1, <2>2, <2>3 DEF AdvanceGoes
<1>5. ASSUME NEW value \in Value, inv' = [inv EXCEPT ![id] = Completed(i, value)],
             i.state \in {"accepted", "running", "reconciling"},
             \/ value \in Results(id, i.request.sku) /\ UNCHANGED defect
             \/ /\ <<defect', value>> \in WrongResults(id, i.request.sku)
                /\ defect = "none" /\ pc # "cancel"
      PROVE  AdvanceGoes
  <2>1. PICK j \in Invocation : j = Completed(i, value)
    BY InvocationCompletes
  <2>2. j.key = i.key /\ j.request = i.request /\ j.state = "completed" /\ j.result = value
    BY <2>1, InvocationCompletes
  <2>3. QED
    BY <1>1, <1>2, <1>3, <1>5, <2>1, <2>2 DEF AdvanceGoes
<1>6. CASE /\ i.state = "accepted" /\ UNCHANGED defect
           /\ \E state \in {"running", "reconciling"} :
                inv' = [inv EXCEPT ![id].state = state, ![id].version = @ + 1]
    BY <1>4, <1>6
<1>7. CASE /\ i.state \in {"running", "reconciling"} /\ UNCHANGED defect
           /\ inv' = [inv EXCEPT ![id].state = "failed", ![id].version = @ + 1]
    BY <1>4, <1>7
<1>8. CASE /\ i.state \in {"running", "reconciling"} /\ UNCHANGED defect
           /\ \E value \in Results(id, i.request.sku) :
                    inv' = [inv EXCEPT ![id] = Completed(i, value)]
    BY <1>3, <1>5, <1>8, ValueHolds
<1>9. CASE /\ i.state \in {"running", "reconciling"} /\ defect = "none" /\ pc # "cancel"
           /\ \E wrong \in WrongResults(id, i.request.sku) :
                    inv' = [inv EXCEPT ![id] = Completed(i, wrong[2])] /\ defect' = wrong[1]
  <2>1. PICK wrong \in WrongResults(id, i.request.sku) :
           inv' = [inv EXCEPT ![id] = Completed(i, wrong[2])] /\ defect' = wrong[1]
    BY <1>9
  <2>2. wrong = <<wrong[1], wrong[2]>> /\ wrong[2] \in Value
    BY <1>3, <2>1, ValueHolds DEF WrongResults
  <2>3. QED
    BY <1>5, <1>9, <2>1, <2>2
<1>10. QED
    BY <1>2, <1>6, <1>7, <1>8, <1>9 DEF Advance
-----------------------------------------------------------------------------
(* Every step of a running run is one of these, or stops it.               *)

Moves ==
    \/ LoadGoes \/ SetupGoes \/ MintGoes \/ PollGoes \/ PollMintEnds \/ PollMainEnds
    \/ CreateMainGoes \/ ProbeGoes \/ ReplayGoes \/ DownloadGoes \/ LegGoes
    \/ CreateCancelGoes \/ CancelGoes \/ AskGoes \/ ReadGoes \/ SyncGoes \/ SyncAgainGoes
    \/ AdvanceGoes

\* Every step goes on as one of Moves, stops the run, or changes nothing.
LEMMA StepEffect == Running /\ Next => Moves \/ Stops \/ UNCHANGED vars
<1> SUFFICES ASSUME Running, Next PROVE Moves \/ Stops \/ UNCHANGED vars
    OBVIOUS
<1>1. CASE Advance
    BY <1>1, AdvanceEffect DEF Moves
<1>2. CASE Done
    BY <1>2 DEF Done
<1>3. CASE LoadConfig \/ Setup \/ OutOfBudget \/ CallFails
    BY <1>3, StartEffect DEF Moves
<1>4. CASE Mint \/ PollOnce \/ CreateMain
    BY <1>4, MintEffect, PollEffect, CreateMainEffect DEF Moves
<1>5. CASE Probe \/ Replay \/ DownloadNext \/ ArtifactsDone
    BY <1>5, ProbeEffect, ReplayEffect, DownloadEffect, LegEffect DEF Moves
<1>6. CASE CreateCancel \/ CancelIt \/ AskOnce \/ Sync \/ SyncAgain
    BY <1>6, CreateCancelEffect, CancelEffect, AskEffect, SyncEffect, SyncAgainEffect DEF Moves
<1>7. CASE \E operation \in {"balance", "ledger"} : Read(operation) \/ ReadAgain(operation)
    BY <1>7, ReadEffect DEF Moves
<1>8. QED
    BY <1>1, <1>2, <1>3, <1>4, <1>5, <1>6, <1>7 DEF Next, Run, Goes

\* What a step makes of the server's invocations: one more, another in place of
\* the one looked at, or nothing.
OneMore(r, k) == inv' = Made(r, k)
Requests == {MintRequest, TargetRequest("main"), TargetRequest("cancel")}
Instead(i) ==
    /\ id \in DOMAIN inv /\ i \in Invocation /\ inv' = [inv EXCEPT ![id] = i]
    /\ i.key = inv[id].key /\ i.request = inv[id].request
    /\ inv[id].state \notin TerminalStates

\* One more invocation leaves the others, and their keys, as they were.
LEMMA OneMoreFacts ==
    ASSUME Running, pc # "config", NEW r \in Requests, NEW k \in Keys, OneMore(r, k)
    PROVE  /\ inv' \in Seq(Invocation) /\ DOMAIN inv' = DOMAIN inv \cup {Next1}
           /\ Len(inv') = Len(inv) + 1 /\ Next1 \in Nat \ {0} /\ Next1 \notin DOMAIN inv
           /\ \A n \in DOMAIN inv : inv'[n] = inv[n]
           /\ inv'[Next1] = NewInvocation(r, k)
           /\ \A j : Under(j)' = Under(j) \cup (IF j = k THEN {Next1} ELSE {})
<1>1. /\ inv' \in Seq(Invocation) /\ Len(inv') = Len(inv) + 1 /\ Next1 = Len(inv) + 1
      /\ \A n \in DOMAIN inv : inv'[n] = inv[n]
      /\ inv'[Next1] = NewInvocation(r, k)
    BY MadeType DEF OneMore, Requests, Next1
<1>2. DOMAIN inv' = DOMAIN inv \cup {Next1} /\ Next1 \in Nat \ {0} /\ Next1 \notin DOMAIN inv
    BY <1>1, RunningFacts
<1>3. inv'[Next1].key = k
    BY <1>1 DEF NewInvocation
<1>4. \A j : Under(j)' = Under(j) \cup (IF j = k THEN {Next1} ELSE {})
    BY <1>1, <1>2, <1>3 DEF Under
<1>5. QED
    BY <1>1, <1>2, <1>4

\* A changed invocation keeps its number and its key.
LEMMA InsteadFacts ==
    ASSUME Running, NEW i, Instead(i)
    PROVE  /\ inv' \in Seq(Invocation) /\ DOMAIN inv' = DOMAIN inv /\ Len(inv') = Len(inv)
           /\ \A n \in DOMAIN inv : inv'[n] = IF n = id THEN i ELSE inv[n]
           /\ \A j : Under(j)' = Under(j)
<1>1. /\ inv' \in Seq(Invocation) /\ DOMAIN inv' = DOMAIN inv /\ Len(inv') = Len(inv)
      /\ \A n \in DOMAIN inv : inv'[n] = IF n = id THEN i ELSE inv[n]
    BY RunningFacts DEF Instead
<1>2. \A j : Under(j)' = Under(j)
    BY <1>1 DEF Under, Instead
<1>3. QED
    BY <1>1, <1>2

ServerMoves ==
    \/ inv' = inv
    \/ \E r \in Requests, k \in Keys : OneMore(r, k)
    \/ \E i \in Invocation : Instead(i)

\* A key keeps its invocations, an invocation what it was asked for, and one that
\* has ended what it is.
Kept ==
    \A n \in DOMAIN inv :
        /\ n \in DOMAIN inv' /\ inv'[n].key = inv[n].key /\ inv'[n].request = inv[n].request
        /\ inv[n].state \in TerminalStates => inv'[n] = inv[n]

\* Whatever the server does, it forgets no invocation and takes back no terminal.
LEMMA ServerMovesKeep ==
    ASSUME Running, pc # "config" \/ inv' = inv, ServerMoves
    PROVE  Kept /\ inv' \in Seq(Invocation) /\ Len(inv) <= Len(inv')
<1>1. CASE inv' = inv
    BY <1>1, RunningFacts DEF Kept
<1>2. CASE pc # "config" /\ \E r \in Requests, k \in Keys : OneMore(r, k)
    BY <1>2, OneMoreFacts, RunningFacts DEF Kept
<1>3. CASE \E i \in Invocation : Instead(i)
    BY <1>3, InsteadFacts, RunningFacts DEF Kept, Instead
<1>4. QED
    BY <1>1, <1>2, <1>3 DEF ServerMoves

\* A cancel that takes effect moves the invocation looked at.
LEMMA CancelledMoves ==
    ASSUME Running, CancelGoes, NEW state \in {"cancel_pending", "cancelled"},
           inv' = [inv EXCEPT ![id] = Moved(@, state)], inv[id].state \notin TerminalStates
    PROVE  /\ id \in DOMAIN inv
           /\ \E i \in Invocation : /\ Instead(i) /\ i = Moved(inv[id], state)
                                    /\ i.state = state /\ i.result = inv[id].result
<1>1. pc = "cancel"
    BY DEF CancelGoes
<1>2. PICK j \in Invocation : j = inv[id] /\ id \in DOMAIN inv
    BY <1>1, LookedAt
<1>3. PICK i : i = Moved(j, state)
    OBVIOUS
<1>4. /\ i \in Invocation /\ i.key = j.key /\ i.request = j.request
      /\ i.state = state /\ i.result = j.result
    BY <1>3, InvocationMoves DEF Moved, States, TerminalStates
<1>5. QED
    BY <1>2, <1>3, <1>4 DEF Instead

\* What a step that goes on can have done to the server.
LEMMA MovesServer ==
    ASSUME Running, Moves
    PROVE  /\ ServerMoves /\ (pc # "config" \/ inv' = inv)
           /\ defect' = defect \/ defect = "none"
           /\ UNCHANGED <<cfg, how>>
<1>1. CASE LoadGoes \/ SetupGoes \/ LegGoes \/ AskGoes \/ ReadGoes \/ SyncAgainGoes \/ ReplayGoes
    BY <1>1 DEF LoadGoes, SetupGoes, LegGoes, AskGoes, ReadGoes, SyncAgainGoes, ReplayGoes, server,
       ServerMoves
<1>2. CASE PollGoes \/ PollMintEnds \/ PollMainEnds \/ DownloadGoes \/ SyncGoes
    BY <1>2 DEF PollGoes, PollMintEnds, PollMainEnds, DownloadGoes, SyncGoes, ServerMoves, Told,
       MintedReceipt, MainCompleted, Continue
<1>3. CASE MintGoes
    BY <1>3 DEF MintGoes, ServerMoves, OneMore, Requests, Keys, MintKey, Names
<1>4. CASE CreateMainGoes \/ CreateCancelGoes
    BY <1>4 DEF CreateMainGoes, CreateCancelGoes, ServerMoves, OneMore, Requests, Keys, Names
<1>5. CASE ProbeGoes
    BY <1>5 DEF ProbeGoes, ServerMoves, OneMore, Requests, Keys
<1>6. CASE CancelGoes
    BY <1>6, CancelledMoves DEF CancelGoes, ServerMoves, server
<1>7. CASE AdvanceGoes
    BY <1>7 DEF AdvanceGoes, ServerMoves, Instead, TerminalStates
<1>8. QED
    BY <1>1, <1>2, <1>3, <1>4, <1>5, <1>6, <1>7 DEF Moves
-----------------------------------------------------------------------------
(* What the end of a poll brings.                                          *)

\* What an invocation holds that neither moderates nor delivers images.
OtherValues(n) ==
    {Null, Brackets([text |-> "text"]), Brackets([artifact |-> Ref(n, 1)]),
     Brackets([artifact |-> Ref(n + 1, 1)]), Brackets([artifact |-> Ref(n, 1), artifacts |-> <<>>])}

\* The shapes of the results that are neither a moderation nor images.
LEMMA ValuesAre ==
    ASSUME NEW n \in Nat, NEW sku \in SKUs \ {"moderation", "image"}, NEW value \in ValuesOf(n, sku)
    PROVE  value \in OtherValues(n)
<1>1. Results(n, sku) \subseteq {Brackets([text |-> "text"]), Brackets([artifact |-> Ref(n, 1)])}
    BY DEF Results, Artifactual
<1>2. ASSUME NEW wrong \in WrongResults(n, sku)
      PROVE  wrong[2] \in OtherValues(n)
  <2>1. \/ wrong = <<"no_result", Null>> \/ wrong = <<"no_artifact", Brackets([text |-> "text"])>>
        \/ wrong = <<"foreign_ref", Brackets([artifact |-> Ref(n + 1, 1)])>>
        \/ wrong = <<"both_shapes", Brackets([artifact |-> Ref(n, 1), artifacts |-> <<>>])>>
        \/ wrong = <<"stray_artifact", Brackets([artifact |-> Ref(n, 1)])>>
    <3>1. CASE sku \in Artifactual
      BY <3>1 DEF WrongResults
    <3>2. CASE sku \notin Artifactual
      BY <3>2 DEF WrongResults, Artifactual
    <3>3. QED
      BY <3>1, <3>2
  <2>2. QED
    BY <2>1 DEF OtherValues
<1>3. QED
    BY <1>1, <1>2 DEF ValuesOf, OtherValues

\* Only a moderation that passed holds a receipt, and that is its own number.
LEMMA ReceiptIs ==
    ASSUME NEW n \in Nat, NEW sku \in SKUs, NEW value \in ValuesOf(n, sku)
    PROVE  /\ Receipt(value) \in {n, NoReceipt}
           /\ sku = "moderation" /\ Receipt(value) # NoReceipt => value = Moderation("pass", n)
<1>1. CASE sku = "moderation"
  <2>1. CASE value \in Results(n, sku)
    <3>1. value = Moderation("pass", n) \/ value = Moderation("block", NoReceipt)
      BY <1>1, <2>1, RightResults
    <3>2. Receipt(Moderation("pass", n)) = n /\ Receipt(Moderation("block", NoReceipt)) = NoReceipt
      BY DEF Receipt, Moderation, Brackets
    <3>3. QED
      BY <3>1, <3>2
  <2>2. CASE \E wrong \in WrongResults(n, sku) : value = wrong[2]
    <3>1. PICK wrong \in WrongResults(n, sku) : value = wrong[2]
      BY <2>2
    <3>2. <<wrong[1], value>> \in WrongResults(n, sku)
      BY <3>1 DEF WrongResults
    <3>3. Receipt(value) = NoReceipt
      BY <1>1, <3>2, WrongResultsNoticed
    <3>4. QED
      BY <3>3
  <2>3. QED
    BY <2>1, <2>2 DEF ValuesOf
<1>2. CASE sku # "moderation"
  <2>1. "kind" \notin DOMAIN value.fields \/ value.form # "brackets"
    <3>1. CASE sku = "image"
      <4>1. value = Null \/ \E images, count : value = Images(images, count)
        BY <3>1 DEF ValuesOf, Results, WrongResults
      <4>2. QED
        BY <4>1 DEF Null, Images, Brackets
    <3>2. CASE sku # "image"
      <4>1. value \in OtherValues(n)
        BY <1>2, <3>2, ValuesAre
      <4>2. QED
        BY <4>1 DEF OtherValues, Null, Brackets
    <3>3. QED
      BY <3>1, <3>2
  <2>2. QED
    BY <1>2, <2>1 DEF Receipt
<1>3. QED
    BY <1>1, <1>2

\* The result of an invocation that completed is one of its SKU.
LEMMA CompletedHolds ==
    ASSUME Running, NEW n \in DOMAIN inv, inv[n].state = "completed"
    PROVE  inv[n].result \in ValuesOf(n, inv[n].request.sku) /\ inv[n].request.sku \in SKUs
<1>1. inv[n].request.sku \in SKUs
    BY RunningFacts DEF Invocation
<1>2. CASE inv[n].result \in Results(n, inv[n].request.sku)
    BY <1>1, <1>2 DEF ValuesOf
<1>3. CASE <<defect, inv[n].result>> \in WrongResults(n, inv[n].request.sku)
  <2>1. PICK wrong \in WrongResults(n, inv[n].request.sku) : wrong = <<defect, inv[n].result>>
    BY <1>3
  <2>2. QED
    BY <1>1, <2>1 DEF ValuesOf
<1>4. QED
    BY <1>2, <1>3, RunningFacts DEF ServerInv

\* A moderation that is polled to its end leaves its own receipt, unless the
\* server showed another's snapshot.
LEMMA MintEnds ==
    ASSUME Running, PollMintEnds
    PROVE  \E receipt \in Nat \ {NoReceipt} :
           /\ receipts' = [receipts EXCEPT ![leg] = receipt]
           /\ printed' = printed \cup {<<"minted", leg>>}
           /\ pc' = IF leg = "main" THEN "create" ELSE "create cancel"
           /\ UNCHANGED <<cfg, inv, how, streams, progress, fetched>>
           /\ defect' = defect \/ (defect = "none" /\ defect' = "foreign")
           /\ defect' # "foreign" => receipt = id /\ MintedFor(id, Subject)
           /\ inv[id].state = "completed" /\ defect' # "foreign" =>
                 inv[id].result = Moderation("pass", id)
<1>1. PICK s : Told(s) /\ s.state = "completed" /\ Receipt(s.result) # NoReceipt /\ MintedReceipt(s)
    BY DEF PollMintEnds
<1>2. pc = "poll mint" /\ UNCHANGED <<cfg, inv>>
    BY DEF PollMintEnds
<1>3. /\ id \in DOMAIN inv /\ id \in Nat \ {0} /\ inv[id].key = MintKeyOf(leg)
      /\ inv[id].request.sku = "moderation"
    BY <1>2, PolledFacts
<1>4. PICK m \in DOMAIN inv :
        /\ s = SnapshotOf(m, inv[m])
        /\ \/ m = id /\ defect' = defect
           \/ defect = "none" /\ defect' = "foreign"
    BY <1>1, <1>3 DEF Told
<1>5. s.state = inv[m].state /\ s.result = inv[m].result /\ m \in Nat \ {0}
    BY <1>4, SnapshotShape, RunningFacts
<1>6. Receipt(inv[m].result) \in {m, NoReceipt}
    BY <1>1, <1>5, CompletedHolds, ReceiptIs
<1>7. Receipt(s.result) \in Nat \ {NoReceipt}
    BY <1>1, <1>5, <1>6 DEF NoReceipt
<1>8. ASSUME defect' # "foreign"
      PROVE  /\ Receipt(s.result) = id /\ MintedFor(id, Subject)
             /\ inv[id].result = Moderation("pass", id)
  <2>1. m = id
    BY <1>4, <1>8
  <2>2. inv[id].result = Moderation("pass", id) /\ Receipt(s.result) = id
    BY <1>1, <1>3, <1>5, <1>6, <2>1, CompletedHolds, ReceiptIs
  <2>3. Passed(Moderation("pass", id))
    BY DEF Passed, Moderation, Brackets
  <2>4. inv[id].request.subject = Subject
    <3>1. inv[id].request = MintRequest
      BY <1>3, RunningFacts DEF ServerInv, RequestOf, MintKeyOf
    <3>2. QED
      BY <1>2, <3>1, MadeType
  <2>5. QED
    BY <1>1, <1>3, <1>5, <2>1, <2>2, <2>3, <2>4 DEF MintedFor
<1>9. /\ receipts' = [receipts EXCEPT ![leg] = Receipt(s.result)]
      /\ printed' = printed \cup {<<"minted", leg>>}
      /\ pc' = IF leg = "main" THEN "create" ELSE "create cancel"
      /\ UNCHANGED <<cfg, inv, how, streams, progress, fetched>>
    BY <1>1, <1>2 DEF MintedReceipt, Prints, Continue
<1>10. QED
    BY <1>4, <1>7, <1>8, <1>9

\* The main invocation polled to its end leaves its own result, with that exception.
LEMMA MainEnds ==
    ASSUME Running, PollMainEnds
    PROVE  /\ result' \in Value
           /\ pc' = IF cfg.sku = "moderation" THEN "replay" ELSE "probe"
           /\ UNCHANGED <<cfg, inv, how, streams, leg, id, attempts, etag, mainId, refs, first,
                          nonces, evidence>>
           /\ defect' = defect \/ (defect = "none" /\ defect' = "foreign")
           /\ defect' # "foreign" =>
                 inv[mainId].state = "completed" /\ inv[mainId].result = result'
<1>1. PICK s : Told(s) /\ s.state = "completed" /\ MainCompleted(s)
    BY DEF PollMainEnds
<1>2. pc = "poll main" /\ UNCHANGED <<cfg, inv>>
    BY DEF PollMainEnds
<1>3. id \in DOMAIN inv /\ id = mainId
    BY <1>2, PolledFacts
<1>4. PICK m \in DOMAIN inv :
        /\ s = SnapshotOf(m, inv[m])
        /\ \/ m = id /\ defect' = defect
           \/ defect = "none" /\ defect' = "foreign"
    BY <1>1, <1>3 DEF Told
<1>5. s.state = inv[m].state /\ s.result = inv[m].result /\ inv[m].result \in Value
  <2>1. inv[m] \in Invocation
    BY RunningFacts
  <2>2. QED
    BY <1>4, <2>1, SnapshotShape DEF Invocation
<1>6. QED
    BY <1>1, <1>2, <1>3, <1>4, <1>5 DEF MainCompleted, Continue
-----------------------------------------------------------------------------
(* Part by part, a step of a running run keeps the invariant.              *)

\* The variables keep their types, whether the run goes on or stops.
LEMMA StopsType == Running /\ Stops => RunTypeOK'
<1> SUFFICES ASSUME Running, Stops PROVE RunTypeOK'
    OBVIOUS
<1>1. ServerMoves /\ (pc # "config" \/ inv' = inv)
    BY DEF Stops, ServerMoves, OneMore, Requests
<1>2. inv' \in Seq(Invocation) /\ Len(inv) <= Len(inv')
    BY <1>1, ServerMovesKeep
<1>3. id' \in 0..Len(inv') /\ mainId' \in 0..Len(inv')
  <2>1. /\ id \in 0..Len(inv) /\ mainId \in 0..Len(inv) /\ id' = id /\ mainId' = mainId
        /\ Len(inv) \in Nat /\ Len(inv') \in Nat
    BY <1>2, RunningFacts DEF Running, RunTypeOK, Stops, progress
  <2>2. QED
    BY <1>2, <2>1
<1>4. QED
    BY <1>2, <1>3 DEF Stops, Running, RunTypeOK, progress, evidence, PCs

\* No step that goes on leaves the types.
LEMMA MovesType == Running /\ Moves => RunTypeOK'
<1> SUFFICES ASSUME Running, Moves PROVE RunTypeOK'
    OBVIOUS
<1>1. inv' \in Seq(Invocation) /\ Len(inv) <= Len(inv') /\ Len(inv) \in Nat /\ Len(inv') \in Nat
    BY MovesServer, ServerMovesKeep, RunningFacts
<1>2. cfg' \in Configs
    BY MovesServer DEF Running, RunTypeOK
<1>3. pc' \in PCs /\ leg' \in Legs
  <2>1. pc \in PCs /\ leg \in Legs
    BY DEF Running, RunTypeOK
  <2>2. CASE PollMintEnds
    BY <2>1, <2>2, MintEnds DEF PCs, progress
  <2>3. CASE PollMainEnds
    BY <2>1, <2>3, MainEnds DEF PCs
  <2>4. CASE LoadGoes \/ SetupGoes \/ LegGoes \/ AskGoes \/ ReadGoes \/ SyncGoes \/ SyncAgainGoes
    BY <2>1, <2>4 DEF LoadGoes, SetupGoes, LegGoes, AskGoes, ReadGoes, SyncGoes, SyncAgainGoes,
       progress, PCs, RuntimePCs, Legs
  <2>5. CASE MintGoes \/ CreateMainGoes \/ CreateCancelGoes \/ ProbeGoes \/ ReplayGoes \/ CancelGoes
    BY <2>1, <2>5 DEF MintGoes, CreateMainGoes, CreateCancelGoes, ProbeGoes, ReplayGoes, CancelGoes,
       progress, PCs, RuntimePCs
  <2>6. CASE PollGoes \/ DownloadGoes \/ AdvanceGoes
    BY <2>1, <2>6 DEF PollGoes, DownloadGoes, AdvanceGoes, progress
  <2>7. QED
    BY <2>2, <2>3, <2>4, <2>5, <2>6 DEF Moves
<1>4. id' \in 0..Len(inv') /\ mainId' \in 0..Len(inv')
  <2>1. id \in 0..Len(inv) /\ mainId \in 0..Len(inv)
    BY DEF Running, RunTypeOK
  <2>2. CASE id' = id /\ mainId' = mainId
    BY <1>1, <2>1, <2>2
  <2>3. CASE (MintGoes \/ CreateCancelGoes) /\ Next1 \in 0..Len(inv')
    <3>1. \A n \in 0..Len(inv) : n \in 0..Len(inv')
      BY <1>1
    <3>2. QED
      BY <2>1, <2>3, <3>1 DEF MintGoes, CreateCancelGoes, LookAt
  <2>4. CASE CreateMainGoes /\ Next1 \in 0..Len(inv')
    BY <2>4 DEF CreateMainGoes, LookAt
  <2>5. ASSUME MintGoes \/ CreateMainGoes \/ CreateCancelGoes PROVE Next1 \in 0..Len(inv')
    <3>1. pc # "config" /\ \E r \in Requests, k \in Keys : OneMore(r, k)
      BY <2>5 DEF MintGoes, CreateMainGoes, CreateCancelGoes, OneMore, Requests, Keys, MintKey
    <3>2. Len(inv') = Next1
      BY <3>1, OneMoreFacts DEF Next1
    <3>3. QED
      BY <1>1, <3>2
  <2>6. \/ id' = id /\ mainId' = mainId
        \/ MintGoes \/ CreateMainGoes \/ CreateCancelGoes
    BY MintEnds, MainEnds DEF Moves, LoadGoes, SetupGoes, LegGoes, AskGoes, ReadGoes, SyncGoes,
       SyncAgainGoes, ProbeGoes, ReplayGoes, CancelGoes, PollGoes, DownloadGoes, AdvanceGoes, progress
  <2>7. QED
    BY <2>2, <2>3, <2>4, <2>5, <2>6
<1>5. attempts' \in Nat /\ etag' \in Nat /\ nonces' \in Nat
  <2>1. attempts \in Nat /\ etag \in Nat /\ nonces \in Nat
    BY DEF Running, RunTypeOK
  <2>2. CASE MintGoes \/ CreateMainGoes \/ PollGoes \/ ReadGoes
    <3>1. /\ attempts' \in {0, attempts, attempts + 1} /\ nonces' \in {nonces, nonces + 1}
          /\ etag' \in Nat \cup {0}
      BY <2>1, <2>2 DEF MintGoes, CreateMainGoes, PollGoes, ReadGoes, LookAt, NoTag
    <3>2. QED
      BY <2>1, <3>1
  <2>3. CASE ~(MintGoes \/ CreateMainGoes \/ PollGoes \/ ReadGoes)
    BY <2>1, <2>3, MintEnds, MainEnds DEF Moves, LoadGoes, SetupGoes, LegGoes, AskGoes, SyncGoes,
       SyncAgainGoes, ProbeGoes, ReplayGoes, CreateCancelGoes, CancelGoes, DownloadGoes, AdvanceGoes,
       progress
  <2>4. QED
    BY <2>2, <2>3
<1>6. result' \in Value
  <2>1. CASE PollMainEnds
    BY <2>1, MainEnds
  <2>2. CASE ~PollMainEnds
    BY <2>2, MintEnds DEF Moves, LoadGoes, SetupGoes, MintGoes, CreateMainGoes, PollGoes, ReadGoes,
       LegGoes, AskGoes, SyncGoes, SyncAgainGoes, ProbeGoes, ReplayGoes, CreateCancelGoes, CancelGoes,
       DownloadGoes, AdvanceGoes, progress, Running, RunTypeOK
  <2>3. QED
    BY <2>1, <2>2
<1>7. receipts' \in [Legs -> Nat]
  <2>1. receipts \in [Legs -> Nat]
    BY DEF Running, RunTypeOK
  <2>2. CASE PollMintEnds
    BY <2>1, <2>2, MintEnds
  <2>3. CASE ~PollMintEnds
    BY <2>1, <2>3, MainEnds DEF Moves, LoadGoes, SetupGoes, MintGoes, CreateMainGoes, PollGoes, ReadGoes,
       LegGoes, AskGoes, SyncGoes, SyncAgainGoes, ProbeGoes, ReplayGoes, CreateCancelGoes, CancelGoes,
       DownloadGoes, AdvanceGoes, evidence
  <2>4. QED
    BY <2>2, <2>3
<1>8. QED
    BY <1>1, <1>2, <1>3, <1>4, <1>5, <1>6, <1>7 DEF RunTypeOK

\* Where the run is, and what a step changes of it.
LEMMA ControlStep == Running /\ Moves => ControlInv'
<1> SUFFICES ASSUME Running, Moves PROVE ControlInv'
    OBVIOUS
<1>1. ControlInv /\ leg \in Legs /\ pc \in PCs
    BY RunningFacts DEF Running, RunTypeOK
<1>2. CASE LoadGoes
    BY <1>1, <1>2 DEF ControlInv, LoadGoes, ConfigLoads, progress, RuntimePCs
<1>3. CASE SetupGoes \/ LegGoes
    BY <1>1, <1>3 DEF ControlInv, SetupGoes, LegGoes, progress, RuntimePCs
<1>4. CASE AskGoes \/ ReadGoes \/ SyncGoes \/ SyncAgainGoes
    BY <1>1, <1>4 DEF ControlInv, AskGoes, ReadGoes, SyncGoes, SyncAgainGoes, progress, RuntimePCs, Legs
<1>5. CASE MintGoes \/ CreateMainGoes \/ ProbeGoes \/ ReplayGoes
    BY <1>1, <1>5 DEF ControlInv, MintGoes, CreateMainGoes, ProbeGoes, ReplayGoes, progress, RuntimePCs,
       Legs
<1>6. CASE CreateCancelGoes \/ CancelGoes
    BY <1>1, <1>6 DEF ControlInv, CreateCancelGoes, CancelGoes, progress, RuntimePCs, Legs
<1>7. CASE PollGoes \/ DownloadGoes \/ AdvanceGoes
    BY <1>1, <1>7 DEF ControlInv, PollGoes, DownloadGoes, AdvanceGoes, progress
<1>8. CASE PollMintEnds
    BY <1>1, <1>8, MintEnds DEF ControlInv, progress, Legs, PollMintEnds
<1>9. CASE PollMainEnds
    BY <1>1, <1>9, MainEnds DEF ControlInv, Legs, PollMainEnds, RuntimePCs
<1>10. QED
    BY <1>2, <1>3, <1>4, <1>5, <1>6, <1>7, <1>8, <1>9 DEF Moves

\* Which markers are printed.
LEMMA MarkerStep == Running /\ Moves => MarkerInv'
<1> SUFFICES ASSUME Running, Moves PROVE MarkerInv'
    OBVIOUS
<1> USE DEF MarkerInv, BeforeMint, BeforeReceipt, BeforeTarget, BeforeProbe, BeforeCancel, Legs,
            ControlInv, RuntimePCs, Prints, progress, evidence
<1>1. MarkerInv /\ ControlInv /\ leg \in Legs
    BY RunningFacts DEF Running, RunTypeOK
<1>2. CASE LoadGoes
    BY <1>1, <1>2 DEF LoadGoes
<1>3. CASE SetupGoes
    BY <1>1, <1>3 DEF SetupGoes
<1>4. CASE LegGoes
    BY <1>1, <1>4 DEF LegGoes
<1>5. CASE AskGoes \/ ReadGoes
    BY <1>1, <1>5 DEF AskGoes, ReadGoes
<1>6. CASE SyncGoes \/ SyncAgainGoes
    BY <1>1, <1>6 DEF SyncGoes, SyncAgainGoes
<1>7. CASE MintGoes
    BY <1>1, <1>7 DEF MintGoes
<1>8. CASE CreateMainGoes
  <2>1. CASE cfg.sku = "moderation"
    BY <1>1, <1>8, <2>1 DEF CreateMainGoes, PrintsPresented
  <2>2. CASE cfg.sku # "moderation"
    <3>1. /\ pc' = "poll main" /\ leg' = leg /\ leg = "main" /\ cfg' = cfg
          /\ printed' = printed \cup {<<"presented", leg>>}
      BY <1>1, <1>8, <2>2 DEF CreateMainGoes, PrintsPresented
    <3>2. QED
      BY <1>1, <1>8, <2>2, <3>1 DEF CreateMainGoes
  <2>3. QED
    BY <2>1, <2>2
<1>9. CASE ProbeGoes
    BY <1>1, <1>9 DEF ProbeGoes
<1>10. CASE ReplayGoes
    BY <1>1, <1>10 DEF ReplayGoes
<1>11. CASE CreateCancelGoes
  <2>1. CASE cfg.sku = "moderation"
    BY <1>1, <1>11, <2>1 DEF CreateCancelGoes, PrintsPresented
  <2>2. CASE cfg.sku # "moderation"
    <3>1. /\ pc' = "cancel" /\ leg' = leg /\ leg = "cancel" /\ cfg' = cfg
          /\ printed' = printed \cup {<<"presented", leg>>}
      BY <1>1, <1>11, <2>2 DEF CreateCancelGoes, PrintsPresented
    <3>2. QED
      BY <1>1, <1>11, <2>2, <3>1 DEF CreateCancelGoes
  <2>3. QED
    BY <2>1, <2>2
<1>12. CASE CancelGoes
    BY <1>1, <1>12 DEF CancelGoes
<1>13. CASE PollGoes \/ DownloadGoes \/ AdvanceGoes
    BY <1>1, <1>13 DEF PollGoes, DownloadGoes, AdvanceGoes
<1>14. CASE PollMintEnds
    BY <1>1, <1>14, MintEnds DEF PollMintEnds
<1>15. CASE PollMainEnds
    BY <1>1, <1>15, MainEnds DEF PollMainEnds
<1>16. QED
    BY <1>2, <1>3, <1>4, <1>5, <1>6, <1>7, <1>8, <1>9, <1>10, <1>11, <1>12, <1>13, <1>14, <1>15
       DEF Moves

\* What a step adds under which key.
LEMMA MovesUnder ==
    ASSUME Running, Moves
    PROVE  /\ MintGoes => \A j : Under(j)' = Under(j) \cup (IF j = MintKey THEN {Next1} ELSE {})
           /\ CreateMainGoes => \A j : Under(j)' = Under(j) \cup (IF j = "create" THEN {Next1} ELSE {})
           /\ CreateCancelGoes => \A j : Under(j)' = Under(j) \cup (IF j = "cancel" THEN {Next1} ELSE {})
           /\ ProbeGoes => \A j : j # "receipt-replay" => Under(j)' = Under(j)
           /\ ~(MintGoes \/ CreateMainGoes \/ CreateCancelGoes \/ ProbeGoes) =>
                 \A j : Under(j)' = Under(j)
<1>0. ASSUME inv' = inv PROVE \A j : Under(j)' = Under(j)
    BY <1>0 DEF Under
<1>1. ASSUME MintGoes
      PROVE  \A j : Under(j)' = Under(j) \cup (IF j = MintKey THEN {Next1} ELSE {})
  <2>1. pc # "config" /\ OneMore(MintRequest, MintKey) /\ MintRequest \in Requests /\ MintKey \in Keys
    BY <1>1 DEF MintGoes, OneMore, Requests, MintKey, Keys
  <2>2. QED
    BY <2>1, OneMoreFacts
<1>2. ASSUME CreateMainGoes
      PROVE  \A j : Under(j)' = Under(j) \cup (IF j = "create" THEN {Next1} ELSE {})
  <2>1. pc # "config" /\ OneMore(TargetRequest("main"), "create") /\ TargetRequest("main") \in Requests
    BY <1>2 DEF CreateMainGoes, OneMore, Requests
  <2>2. QED
    BY <2>1, OneMoreFacts DEF Keys
<1>3. ASSUME CreateCancelGoes
      PROVE  \A j : Under(j)' = Under(j) \cup (IF j = "cancel" THEN {Next1} ELSE {})
  <2>1. /\ pc # "config" /\ OneMore(TargetRequest("cancel"), "cancel")
        /\ TargetRequest("cancel") \in Requests
    BY <1>3 DEF CreateCancelGoes, OneMore, Requests
  <2>2. QED
    BY <2>1, OneMoreFacts DEF Keys
<1>4. ASSUME ProbeGoes PROVE \A j : j # "receipt-replay" => Under(j)' = Under(j)
  <2>1. CASE inv' = inv
    BY <1>0, <2>1
  <2>2. CASE inv' # inv
    <3>1. /\ pc # "config" /\ OneMore(TargetRequest("main"), "receipt-replay")
          /\ TargetRequest("main") \in Requests
      BY <1>4, <2>2 DEF ProbeGoes, OneMore, Requests
    <3>2. \A j : Under(j)' = Under(j) \cup (IF j = "receipt-replay" THEN {Next1} ELSE {})
      BY <3>1, OneMoreFacts DEF Keys
    <3>3. QED
      BY <3>2
  <2>3. QED
    BY <2>1, <2>2
<1>5. ASSUME ~(MintGoes \/ CreateMainGoes \/ CreateCancelGoes \/ ProbeGoes)
      PROVE  \A j : Under(j)' = Under(j)
  <2>1. CASE CancelGoes
    <3>1. inv' = inv \/ \E i \in Invocation : Instead(i)
      BY <2>1, CancelledMoves DEF CancelGoes, server
    <3>2. QED
      BY <1>0, <3>1, InsteadFacts
  <2>2. CASE AdvanceGoes
    <3>1. \E i \in Invocation : Instead(i)
      BY <2>2 DEF AdvanceGoes, Instead, TerminalStates
    <3>2. QED
      BY <3>1, InsteadFacts
  <2>3. CASE ~(CancelGoes \/ AdvanceGoes)
    <3>1. inv' = inv
      BY <1>5, <2>3, MintEnds, MainEnds DEF Moves, LoadGoes, SetupGoes, LegGoes, AskGoes, ReadGoes,
         SyncGoes, SyncAgainGoes, ReplayGoes, PollGoes, DownloadGoes, server
    <3>2. QED
      BY <1>0, <3>1
  <2>4. QED
    BY <2>1, <2>2, <2>3
<1>6. QED
    BY <1>1, <1>2, <1>3, <1>4, <1>5

\* The legs are gone through in order.
LEMMA LegsInOrder ==
    ASSUME Running, Moves
    PROVE  /\ \A l \in Legs : /\ BeforeMint(l)' => BeforeMint(l)
                              /\ BeforeReceipt(l)' => BeforeReceipt(l)
                              /\ BeforeTarget(l)' => BeforeTarget(l)
           /\ BeforeProbe' => BeforeProbe
           /\ MintGoes => ~BeforeMint(leg)'
           /\ BeforeTarget("main")' <=> BeforeTarget("main") /\ ~CreateMainGoes
           /\ BeforeTarget("cancel")' <=> BeforeTarget("cancel") /\ ~CreateCancelGoes
           /\ \A l \in Legs : ~BeforeReceipt(l)' => ~BeforeReceipt(l) \/ (PollMintEnds /\ l = leg)
                                                   \/ cfg.sku = "moderation"
           /\ ProbeGoes => ~BeforeProbe'
<1> USE DEF BeforeMint, BeforeReceipt, BeforeTarget, BeforeProbe, Legs, ControlInv, RuntimePCs, progress
<1>1. ControlInv /\ leg \in Legs
    BY RunningFacts DEF Running, RunTypeOK
<1>2. CASE LoadGoes
    BY <1>1, <1>2 DEF LoadGoes, CreateMainGoes, CreateCancelGoes, MintGoes, ProbeGoes
<1>3. CASE SetupGoes
    BY <1>1, <1>3 DEF SetupGoes, CreateMainGoes, CreateCancelGoes, MintGoes, ProbeGoes
<1>4. CASE LegGoes
    BY <1>1, <1>4 DEF LegGoes, CreateMainGoes, CreateCancelGoes, MintGoes, ProbeGoes
<1>5. CASE AskGoes \/ ReadGoes
    BY <1>1, <1>5 DEF AskGoes, ReadGoes, CreateMainGoes, CreateCancelGoes, MintGoes, ProbeGoes
<1>6. CASE SyncGoes \/ SyncAgainGoes
    BY <1>1, <1>6 DEF SyncGoes, SyncAgainGoes, CreateMainGoes, CreateCancelGoes, MintGoes, ProbeGoes
<1>7. CASE MintGoes
    BY <1>1, <1>7 DEF MintGoes, CreateMainGoes, CreateCancelGoes, ProbeGoes
<1>8. CASE CreateMainGoes
    BY <1>1, <1>8 DEF MintGoes, CreateMainGoes, CreateCancelGoes, ProbeGoes
<1>9. CASE ProbeGoes
    BY <1>1, <1>9 DEF MintGoes, CreateMainGoes, CreateCancelGoes, ProbeGoes
<1>10. CASE ReplayGoes \/ CancelGoes
    BY <1>1, <1>10 DEF ReplayGoes, CancelGoes, CreateMainGoes, CreateCancelGoes, MintGoes, ProbeGoes
<1>11. CASE CreateCancelGoes
    BY <1>1, <1>11 DEF MintGoes, CreateMainGoes, CreateCancelGoes, ProbeGoes
<1>12. CASE PollGoes \/ DownloadGoes \/ AdvanceGoes
    BY <1>1, <1>12 DEF PollGoes, DownloadGoes, AdvanceGoes, CreateMainGoes, CreateCancelGoes, MintGoes,
       ProbeGoes
<1>13. CASE PollMintEnds
    BY <1>1, <1>13, MintEnds DEF PollMintEnds, CreateMainGoes, CreateCancelGoes, MintGoes, ProbeGoes
<1>14. CASE PollMainEnds
    BY <1>1, <1>14, MainEnds DEF PollMainEnds, CreateMainGoes, CreateCancelGoes, MintGoes, ProbeGoes
<1>15. QED
    BY <1>2, <1>3, <1>4, <1>5, <1>6, <1>7, <1>8, <1>9, <1>10, <1>11, <1>12, <1>13, <1>14
       DEF Moves

\* The keys.
LEMMA KeysStep == Running /\ Moves => KeysInv'
<1> SUFFICES ASSUME Running, Moves PROVE KeysInv'
    OBVIOUS
<1>1. KeysInv
    BY RunningFacts
<1>2. ASSUME NEW l \in Legs, BeforeMint(l)' PROVE Under(MintKeyOf(l))' = {}
  <2>1. BeforeMint(l) /\ Under(MintKeyOf(l)) = {} /\ (MintGoes => l # leg)
    <3>1. MintGoes => leg' = leg
      BY DEF MintGoes
    <3>2. QED
      BY <1>1, <1>2, <3>1, LegsInOrder DEF KeysInv
  <2>2. MintGoes => MintKeyOf(l) # MintKey
    BY <2>1 DEF MintKeyOf, MintKey, Legs, Running, RunTypeOK
  <2>3. MintKeyOf(l) \notin {"create", "cancel", "receipt-replay"}
    BY DEF MintKeyOf
  <2>4. QED
    BY <2>1, <2>2, <2>3, MovesUnder
<1>3. ASSUME NEW l \in Legs, BeforeTarget(l)' PROVE Under(TargetKeyOf(l))' = {}
  <2>1. BeforeTarget(l) /\ Under(TargetKeyOf(l)) = {}
    BY <1>1, <1>3, LegsInOrder DEF KeysInv
  <2>2. /\ CreateMainGoes => TargetKeyOf(l) # "create"
        /\ CreateCancelGoes => TargetKeyOf(l) # "cancel"
    BY <1>3, LegsInOrder DEF TargetKeyOf, Legs
  <2>3. TargetKeyOf(l) \notin {MintKey, "receipt-replay"}
    BY DEF TargetKeyOf, MintKey
  <2>4. QED
    BY <2>1, <2>2, <2>3, MovesUnder
<1>4. ASSUME BeforeProbe' PROVE Under("receipt-replay")' = {}
  <2>1. Under("receipt-replay") = {} /\ ~ProbeGoes
    BY <1>1, <1>4, LegsInOrder DEF KeysInv
  <2>2. MintKey # "receipt-replay"
    BY DEF MintKey
  <2>3. QED
    BY <2>1, <2>2, MovesUnder
<1>5. ASSUME ~BeforeTarget("main")' PROVE Under("create")' = {mainId'}
  <2>1. CASE CreateMainGoes
    <3>1. Under("create") = {}
      <4>1. BeforeTarget("main") /\ TargetKeyOf("main") = "create"
        BY <2>1, RunningFacts DEF CreateMainGoes, BeforeTarget, ControlInv, Running, RunTypeOK, Legs,
           RuntimePCs, TargetKeyOf
      <4>2. QED
        BY <1>1, <4>1 DEF KeysInv, Legs
    <3>2. mainId' = Next1
      BY <2>1 DEF CreateMainGoes
    <3>3. QED
      BY <2>1, <3>1, <3>2, MovesUnder
  <2>2. CASE ~CreateMainGoes
    <3>1. Under("create") = {mainId}
      BY <1>1, <1>5, <2>2, LegsInOrder DEF KeysInv
    <3>2. mainId' = mainId
      BY <2>2, MintEnds, MainEnds DEF Moves, LoadGoes, SetupGoes, MintGoes, LegGoes, AskGoes, ReadGoes,
         SyncGoes, SyncAgainGoes, ReplayGoes, PollGoes, DownloadGoes, ProbeGoes, CreateCancelGoes,
         CancelGoes, AdvanceGoes, progress
    <3>3. MintKey # "create"
      BY DEF MintKey
    <3>4. QED
      BY <2>2, <3>1, <3>2, <3>3, MovesUnder
  <2>3. QED
    BY <2>1, <2>2
<1>6. QED
  <2>1. \A l \in Legs : MintKeyOf(l)' = MintKeyOf(l) /\ TargetKeyOf(l)' = TargetKeyOf(l)
    BY DEF MintKeyOf, TargetKeyOf
  <2>2. QED
    BY <1>2, <1>3, <1>4, <1>5, <2>1 DEF KeysInv

\* What is asked for under a key that has been used does not change any more.
LEMMA RequestsKept ==
    ASSUME Running, Moves
    PROVE  /\ Subject' = Subject /\ MintRequest' = MintRequest
           /\ \A k \in Keys : Under(k) # {} => RequestOf(k)' = RequestOf(k)
           /\ ~PollMintEnds => \A k \in Keys : RequestOf(k)' = RequestOf(k)
<1>1. cfg' = cfg
    BY MovesServer
<1>2. Subject' = Subject /\ MintRequest' = MintRequest
    BY <1>1 DEF Subject, MintRequest, Request
<1>3. ASSUME NEW l, receipts'[l] = receipts[l] PROVE TargetRequest(l)' = TargetRequest(l)
    BY <1>1, <1>2, <1>3 DEF TargetRequest, Request, ModerationReceiptForSKU
<1>4. CASE ~PollMintEnds
  <2>1. receipts' = receipts
    BY <1>4, MainEnds DEF Moves, LoadGoes, SetupGoes, MintGoes, CreateMainGoes, PollGoes, ReadGoes,
       LegGoes, AskGoes, SyncGoes, SyncAgainGoes, ProbeGoes, ReplayGoes, CreateCancelGoes, CancelGoes,
       DownloadGoes, AdvanceGoes, evidence
  <2>2. QED
    BY <1>2, <1>3, <1>4, <2>1 DEF RequestOf
<1>5. CASE PollMintEnds
  <2>1. PICK receipt : receipts' = [receipts EXCEPT ![leg] = receipt]
    BY <1>5, MintEnds
  <2>2. pc = "poll mint" /\ leg \in Legs /\ receipts \in [Legs -> Nat]
    BY <1>5 DEF PollMintEnds, Running, RunTypeOK
  <2>3. CASE leg = "main"
    <3>1. BeforeTarget("main") /\ BeforeTarget("cancel") /\ BeforeProbe
      BY <2>2, <2>3 DEF BeforeTarget, BeforeReceipt, BeforeMint, BeforeProbe
    <3>2. Under("create") = {} /\ Under("cancel") = {} /\ Under("receipt-replay") = {}
      BY <3>1, RunningFacts DEF KeysInv, Legs, TargetKeyOf
    <3>3. QED
      BY <1>2, <1>5, <3>2 DEF RequestOf, Keys
  <2>4. CASE leg = "cancel"
    <3>1. BeforeTarget("cancel")
      BY <2>2, <2>4 DEF BeforeTarget, BeforeReceipt
    <3>2. Under("cancel") = {}
      BY <3>1, RunningFacts DEF KeysInv, Legs, TargetKeyOf
    <3>3. TargetRequest("main")' = TargetRequest("main")
      BY <1>3, <2>1, <2>2, <2>4 DEF Legs
    <3>4. QED
      BY <1>2, <1>5, <3>2, <3>3 DEF RequestOf, Keys
  <2>5. QED
    BY <2>2, <2>3, <2>4 DEF Legs
<1>6. QED
    BY <1>2, <1>4, <1>5

\* The invocations.
LEMMA DefectKept ==
    ASSUME Running, defect' = defect \/ defect = "none", NEW n \in Nat, NEW sku \in SKUs, NEW value,
           \/ value \in Results(n, sku)
           \/ <<defect, value>> \in WrongResults(n, sku)
    PROVE  \/ value \in Results(n, sku)
           \/ <<defect', value>> \in WrongResults(n, sku)
BY WrongResultsNoticed

\* What the invariant says of one invocation.
Holding(n) ==
    /\ inv[n].request = RequestOf(inv[n].key)
    /\ inv[n].state = "completed" =>
        \/ inv[n].result \in Results(n, inv[n].request.sku)
        \/ <<defect, inv[n].result>> \in WrongResults(n, inv[n].request.sku)
    /\ inv[n].state # "completed" => inv[n].result = Null
    /\ inv[n].state \in {"cancelled", "cancel_pending"} => inv[n].key = "cancel"

\* An invocation that is not touched still holds what it should.
LEMMA HoldingKept ==
    ASSUME Running, Moves, NEW n \in DOMAIN inv, inv'[n] = inv[n]
    PROVE  Holding(n)'
<1>1. Holding(n)
    BY RunningFacts DEF ServerInv, Holding
<1>2. inv[n].request.sku \in SKUs /\ n \in Nat /\ (defect' = defect \/ defect = "none")
    BY RunningFacts, MovesServer DEF Invocation
<1>3. PICK k \in Keys : k = inv[n].key
    BY RunningFacts DEF Invocation
<1>4. RequestOf(k)' = RequestOf(k)
  <2>1. n \in Under(k)
    BY <1>3 DEF Under
  <2>2. QED
    BY <2>1, RequestsKept
<1>5. PICK i : i = inv[n]
    OBVIOUS
<1>6. /\ i.request = RequestOf(k)' /\ k = i.key
      /\ i.state = "completed" =>
          \/ i.result \in Results(n, i.request.sku)
          \/ <<defect', i.result>> \in WrongResults(n, i.request.sku)
      /\ i.state # "completed" => i.result = Null
      /\ i.state \in {"cancelled", "cancel_pending"} => i.key = "cancel"
    BY <1>1, <1>2, <1>3, <1>4, <1>5, DefectKept DEF Holding
<1>7. inv'[n] = i
    BY <1>5
<1>8. QED
    BY <1>6, <1>7 DEF Holding

\* A request that is made is the one for its key.
LEMMA MadeHolds ==
    ASSUME Running, Moves, pc # "config", NEW r \in Requests, NEW k \in Keys, OneMore(r, k),
           r = RequestOf(k), ~PollMintEnds
    PROVE  \A n \in DOMAIN inv' : Holding(n)'
<1>1. PICK i : i = NewInvocation(r, k)
    OBVIOUS
<1>2. i.key = k /\ i.request = r /\ i.state = "accepted" /\ i.result = Null
    BY <1>1 DEF NewInvocation
<1>3. PICK m : m = Next1
    OBVIOUS
<1>4. /\ DOMAIN inv' = DOMAIN inv \cup {m} /\ inv'[m] = i
      /\ \A n \in DOMAIN inv : inv'[n] = inv[n]
    BY <1>1, <1>3, OneMoreFacts
<1>5. RequestOf(k)' = r
    BY RequestsKept
<1>6. Holding(m)'
    BY <1>2, <1>4, <1>5 DEF Holding
<1>7. QED
    BY <1>4, <1>6, HoldingKept

\* One that moves on holds what it may, too.
LEMMA InsteadHolds ==
    ASSUME Running, Moves, NEW i, Instead(i),
           \/ i.state \in {"running", "reconciling", "failed"} /\ i.result = Null
           \/ i.state = "completed" /\ i.result \in Results(id, i.request.sku)
           \/ i.state = "completed" /\ <<defect', i.result>> \in WrongResults(id, i.request.sku)
           \/ i.state \in {"cancel_pending", "cancelled"} /\ i.result = Null /\ i.key = "cancel"
    PROVE  \A n \in DOMAIN inv' : Holding(n)'
<1>1. PICK m \in DOMAIN inv : m = id
    BY DEF Instead
<1>2. /\ DOMAIN inv' = DOMAIN inv /\ inv'[m] = i
      /\ \A n \in DOMAIN inv : n # m => inv'[n] = inv[n]
    BY <1>1, InsteadFacts
<1>3. PICK k \in Keys : k = inv[m].key
    BY RunningFacts DEF Invocation
<1>4. RequestOf(k)' = RequestOf(k) /\ RequestOf(k) = inv[m].request
  <2>1. m \in Under(k) /\ inv[m].request = RequestOf(inv[m].key)
    BY <1>3, RunningFacts DEF Under, ServerInv
  <2>2. QED
    BY <1>3, <2>1, RequestsKept
<1>5. i.key = k /\ i.request = RequestOf(k)'
    BY <1>1, <1>3, <1>4 DEF Instead
<1>6. Holding(m)'
    BY <1>1, <1>2, <1>5 DEF Holding
<1>7. QED
    BY <1>2, <1>6, HoldingKept

\* The parts of the invariant, one by one: what the invocations hold.
LEMMA ServerStep == Running /\ Moves => ServerInv'
<1> SUFFICES ASSUME Running, Moves PROVE ServerInv'
    OBVIOUS
<1>1. SUFFICES \A n \in DOMAIN inv' : Holding(n)'
    BY DEF ServerInv, Holding
<1>2. CASE inv' = inv
    BY <1>2, HoldingKept
<1>3. CASE MintGoes
  <2>1. /\ pc # "config" /\ OneMore(MintRequest, MintKey) /\ MintRequest \in Requests
        /\ MintKey \in Keys /\ MintRequest = RequestOf(MintKey) /\ ~PollMintEnds
    BY <1>3 DEF MintGoes, OneMore, Requests, MintKey, Keys, RequestOf, PollMintEnds
  <2>2. QED
    BY <2>1, MadeHolds
<1>4. CASE CreateMainGoes \/ CreateCancelGoes \/ (ProbeGoes /\ inv' # inv)
  <2>1. PICK r \in Requests, k \in Keys : OneMore(r, k) /\ r = RequestOf(k)
    BY <1>4 DEF CreateMainGoes, CreateCancelGoes, ProbeGoes, OneMore, Requests, Keys, RequestOf
  <2>2. pc # "config" /\ ~PollMintEnds
    BY <1>4 DEF CreateMainGoes, CreateCancelGoes, ProbeGoes, PollMintEnds
  <2>3. QED
    BY <2>1, <2>2, MadeHolds
<1>5. CASE AdvanceGoes
  <2>1. PICK i \in Invocation :
        /\ Instead(i)
        /\ \/ i.state \in {"running", "reconciling", "failed"} /\ i.result = Null
           \/ i.state = "completed" /\ i.result \in Results(id, i.request.sku)
           \/ i.state = "completed" /\ <<defect', i.result>> \in WrongResults(id, i.request.sku)
    BY <1>5 DEF AdvanceGoes, Instead, TerminalStates
  <2>2. QED
    BY <2>1, InsteadHolds
<1>6. CASE CancelGoes /\ inv' # inv
  <2>1. PICK i \in Invocation : /\ Instead(i) /\ i.state \in {"cancel_pending", "cancelled"}
                                /\ i.result = inv[id].result
    BY <1>6, CancelledMoves DEF CancelGoes, server
  <2>2. pc = "cancel" /\ ~BeforeTarget("cancel")
    BY <1>6, RunningFacts DEF CancelGoes, BeforeTarget, BeforeReceipt, BeforeMint, ControlInv,
       Running, RunTypeOK, Legs
  <2>3. id \in DOMAIN inv /\ inv[id].key = "cancel"
    BY <2>2, RunningFacts DEF LookInv, Under
  <2>4. i.result = Null /\ i.key = "cancel"
    BY <2>1, <2>3, RunningFacts DEF Instead, TerminalStates
  <2>5. QED
    BY <2>1, <2>4, InsteadHolds
<1>7. QED
  <2>1. \/ inv' = inv \/ MintGoes \/ CreateMainGoes \/ CreateCancelGoes \/ ProbeGoes \/ AdvanceGoes
        \/ CancelGoes
    BY MintEnds, MainEnds DEF Moves, LoadGoes, SetupGoes, LegGoes, AskGoes, ReadGoes,
       SyncGoes, SyncAgainGoes, ReplayGoes, PollGoes, DownloadGoes, server
  <2>2. QED
    BY <1>2, <1>3, <1>4, <1>5, <1>6, <2>1

\* What the run looks at.
LEMMA UnderGrows ==
    ASSUME Running, Moves
    PROVE  \A j : Under(j) \subseteq Under(j)'
BY MovesServer, ServerMovesKeep DEF Kept, Under

\* The invocation the run looks at is still the one its latest create made.
LEMMA LookStep == Running /\ Moves => LookInv'
<1> SUFFICES ASSUME Running, Moves PROVE LookInv'
    OBVIOUS
<1>1. LookInv /\ leg \in Legs /\ ControlInv
    BY RunningFacts DEF Running, RunTypeOK
<1>2. PICK m : m = Next1
    OBVIOUS
<1>3. CASE MintGoes
  <2>1. /\ pc' = "poll mint" /\ id' = m /\ leg' = leg /\ MintKey = MintKeyOf(leg)
    BY <1>2, <1>3 DEF MintGoes, LookAt, MintKey, MintKeyOf
  <2>2. PICK k : k = MintKeyOf(leg)
    OBVIOUS
  <2>3. m \in Under(k)'
    BY <1>2, <1>3, <2>1, <2>2, MovesUnder
  <2>4. MintKeyOf(leg)' = k
    BY <2>1, <2>2 DEF MintKeyOf
  <2>5. BeforeTarget("cancel")'
    BY <1>1, <2>1 DEF BeforeTarget, BeforeReceipt, BeforeMint, Legs
  <2>6. QED
    BY <2>1, <2>3, <2>4, <2>5 DEF LookInv
<1>4. CASE CreateMainGoes
  <2>1. pc' = "poll main" /\ id' = mainId' /\ leg = "main" /\ leg' = leg
    BY <1>1, <1>4 DEF CreateMainGoes, LookAt, ControlInv, Legs, RuntimePCs
  <2>2. BeforeTarget("cancel")'
    BY <2>1 DEF BeforeTarget, BeforeReceipt, BeforeMint
  <2>3. QED
    BY <2>1, <2>2 DEF LookInv
<1>5. CASE CreateCancelGoes
  <2>1. pc' = "cancel" /\ id' = m
    BY <1>2, <1>5 DEF CreateCancelGoes
  <2>2. m \in Under("cancel")'
    BY <1>2, <1>5, MovesUnder
  <2>3. QED
    BY <2>1, <2>2 DEF LookInv
<1>6. CASE ~(MintGoes \/ CreateMainGoes \/ CreateCancelGoes)
  <2>1. id' = id /\ mainId' = mainId
    BY <1>6, MintEnds, MainEnds DEF Moves, LoadGoes, SetupGoes, LegGoes, AskGoes, ReadGoes, SyncGoes,
       SyncAgainGoes, ReplayGoes, PollGoes, DownloadGoes, ProbeGoes, CancelGoes, AdvanceGoes, progress
  <2>2. /\ pc' \in {"poll mint", "poll main"} => pc' = pc /\ leg' = leg
    BY <1>6, MintEnds, MainEnds DEF Moves, LoadGoes, SetupGoes, LegGoes, AskGoes, ReadGoes, SyncGoes,
       SyncAgainGoes, ReplayGoes, PollGoes, DownloadGoes, ProbeGoes, CancelGoes, AdvanceGoes, progress
  <2>3. ~BeforeTarget("cancel")' => ~BeforeTarget("cancel")
    BY <1>6, LegsInOrder DEF Legs
  <2>4. PICK n, k : n = id /\ k = MintKeyOf(leg)
    OBVIOUS
  <2>5. pc' = "poll mint" => n \in Under(k)' /\ MintKeyOf(leg)' = k
    BY <1>1, <2>2, <2>4, UnderGrows DEF LookInv, MintKeyOf
  <2>6. ~BeforeTarget("cancel")' => n \in Under("cancel")'
    BY <1>1, <2>3, <2>4, UnderGrows DEF LookInv
  <2>7. pc' = "poll main" => id' = mainId'
    BY <1>1, <2>1, <2>2 DEF LookInv
  <2>8. id' = n
    BY <2>1, <2>4
  <2>9. QED
    BY <2>5, <2>6, <2>7, <2>8 DEF LookInv
<1>7. QED
    BY <1>3, <1>4, <1>5, <1>6

\* The receipts.
LEMMA MintedForKept ==
    ASSUME Running, Moves, NEW receipt, NEW subject, MintedFor(receipt, subject)
    PROVE  MintedFor(receipt, subject)'
<1>1. receipt \in DOMAIN inv /\ inv[receipt].state \in TerminalStates
    BY DEF MintedFor, TerminalStates
<1>2. receipt \in DOMAIN inv' /\ inv'[receipt] = inv[receipt]
    BY <1>1, MovesServer, ServerMovesKeep DEF Kept
<1>3. QED
    BY <1>2 DEF MintedFor

\* A receipt is its own moderation's, and stays so.
LEMMA ReceiptStep == Running /\ Moves => ReceiptInv'
<1> SUFFICES ASSUME Running, Moves PROVE ReceiptInv'
    OBVIOUS
<1>1. ReceiptInv /\ leg \in Legs /\ receipts \in [Legs -> Nat] /\ cfg' = cfg
    BY RunningFacts, MovesServer DEF Running, RunTypeOK
<1>2. PICK subject : subject = Subject
    OBVIOUS
<1>3. Subject' = subject
    BY <1>2, RequestsKept
<1>4. SUFFICES ASSUME NEW l \in Legs, cfg.sku # "moderation", ~BeforeReceipt(l)'
               PROVE  /\ receipts'[l] # NoReceipt
                      /\ defect' # "foreign" =>
                          receipts'[l] \in Under(MintKeyOf(l))' /\ MintedFor(receipts[l], Subject)'
    BY <1>1 DEF ReceiptInv, MintKeyOf
<1>5. CASE PollMintEnds /\ l = leg
  <2>1. PICK receipt \in Nat \ {NoReceipt} :
           /\ receipts' = [receipts EXCEPT ![leg] = receipt]
           /\ defect' # "foreign" => receipt = id /\ MintedFor(id, Subject)
    BY <1>5, MintEnds
  <2>2. receipts'[l] = receipt
    BY <1>1, <1>5, <2>1
  <2>3. PICK k : k = MintKeyOf(l)
    OBVIOUS
  <2>4. id \in Under(k)
    BY <1>5, <2>3, RunningFacts DEF LookInv, PollMintEnds
  <2>5. ASSUME defect' # "foreign" PROVE receipt \in Under(k)' /\ MintedFor(receipt, subject)'
    BY <1>2, <2>1, <2>4, <2>5, UnderGrows, MintedForKept
  <2>6. MintKeyOf(l)' = k
    BY <2>3 DEF MintKeyOf
  <2>7. QED
    BY <1>3, <2>1, <2>2, <2>5, <2>6
<1>6. CASE ~(PollMintEnds /\ l = leg)
  <2>1. ~BeforeReceipt(l)
    BY <1>4, <1>6, LegsInOrder
  <2>2. receipts'[l] = receipts[l]
    BY <1>1, <1>6, MintEnds, MainEnds DEF Moves, LoadGoes, SetupGoes, MintGoes, CreateMainGoes, PollGoes,
       ReadGoes, LegGoes, AskGoes, SyncGoes, SyncAgainGoes, ProbeGoes, ReplayGoes, CreateCancelGoes,
       CancelGoes, DownloadGoes, AdvanceGoes, evidence
  <2>3. PICK receipt, k : receipt = receipts[l] /\ k = MintKeyOf(l)
    OBVIOUS
  <2>4. defect' # "foreign" => defect # "foreign"
    BY MovesServer
  <2>5. ASSUME defect' # "foreign" PROVE receipt \in Under(k)' /\ MintedFor(receipt, subject)'
    <3>1. receipt \in Under(k) /\ MintedFor(receipt, subject)
      BY <1>1, <1>2, <1>4, <2>1, <2>3, <2>4, <2>5 DEF ReceiptInv
    <3>2. QED
      BY <3>1, UnderGrows, MintedForKept
  <2>6. MintKeyOf(l)' = k /\ receipts'[l] = receipt /\ receipt # NoReceipt
    BY <1>1, <1>4, <2>1, <2>2, <2>3 DEF MintKeyOf, ReceiptInv
  <2>7. QED
    BY <1>3, <2>5, <2>6
<1>7. QED
    BY <1>5, <1>6

\* The result and its artifacts.
IsSequence(q) == q \in Seq({q[r] : r \in DOMAIN q})

\* The references a result may name are a sequence.
LEMMA SomeSequences ==
    /\ IsSequence(<<>>)
    /\ \A x : IsSequence(<<x>>)
    /\ \A n \in Nat, c \in Nat : IsSequence(Refs(n, c))
<1>1. ASSUME NEW S, NEW q \in Seq(S) PROVE IsSequence(q)
    BY DEF IsSequence
<1>2. <<>> \in Seq({})
    OBVIOUS
<1>3. \A x : <<x>> \in Seq({x})
    OBVIOUS
<1>4. QED
    BY <1>1, <1>2, <1>3, RefsType

\* What an image invocation lists.
LEMMA ImagesAre ==
    ASSUME NEW m \in Nat, NEW value \in ValuesOf(m, "image"), value # Null
    PROVE  IsSequence(value.fields.artifacts)
<1>1. CASE \E c \in 1..MaxImages : value = Images(Refs(m, c), c)
  <2>1. PICK c \in Nat : value = Images(Refs(m, c), c)
    BY <1>1, BoundsAssumption
  <2>2. value.fields.artifacts = Refs(m, c)
    BY <2>1 DEF Images, Brackets
  <2>3. QED
    BY <2>2, SomeSequences
<1>2. CASE \E wrong \in WrongResults(m, "image") : value = wrong[2]
  <2>1. PICK wrong \in WrongResults(m, "image") : value = wrong[2]
    BY <1>2
  <2>2. \/ wrong = <<"no_images", Images(<<>>, 0)>>
        \/ wrong = <<"miscounted", Images(Refs(m, 1), 2)>>
        \/ wrong = <<"foreign_ref", Images(<<Ref(m + 1, 1)>>, 1)>>
    BY <2>1 DEF WrongResults
  <2>3. \/ value.fields.artifacts = <<>> \/ value.fields.artifacts = Refs(m, 1)
        \/ value.fields.artifacts = <<Ref(m + 1, 1)>>
    BY <2>1, <2>2 DEF Images, Brackets
  <2>4. QED
    BY <2>3, SomeSequences
<1>3. QED
    BY <1>1, <1>2 DEF ValuesOf, Results

\* What artifactRefsFromResult returns for a result that parses is a list.
LEMMA RefsOfIsSequence ==
    ASSUME NEW n, NEW sku \in SKUs, NEW value \in Value, RefsParse(sku, n, value)
    PROVE  IsSequence(RefsOf(sku, value))
<1>1. CASE sku = "image"
  <2>1. /\ value.form = "brackets" /\ DOMAIN value.fields \cap {"artifact"} = {}
        /\ "artifacts" \in DOMAIN value.fields /\ RefsOf(sku, value) = value.fields.artifacts
    BY <1>1 DEF RefsParse, RefsOf
  <2>2. value # Null
    BY <2>1 DEF Null
  <2>3. PICK m \in Nat, s \in SKUs : value \in ValuesOf(m, s)
    BY <2>2 DEF Value
  <2>4. CASE s = "image"
    BY <2>1, <2>2, <2>3, <2>4, ImagesAre
  <2>5. CASE s = "moderation"
    <3>1. \/ \E verdict, receipt : value = Moderation(verdict, receipt)
          \/ value = Brackets([verdict |-> "pass"])
      <4>1. CASE value \in Results(m, s)
        BY <2>5, <4>1 DEF Results, Artifactual
      <4>2. CASE \E wrong \in WrongResults(m, s) : value = wrong[2]
        <5>1. PICK wrong \in WrongResults(m, s) : value = wrong[2]
          BY <4>2
        <5>2. \/ wrong = <<"no_result", Null>> \/ wrong = <<"no_receipt", Moderation("pass", NoReceipt)>>
              \/ wrong = <<"no_kind", Brackets([verdict |-> "pass"])>>
          BY <2>5, <5>1 DEF WrongResults, Artifactual
        <5>3. QED
          BY <2>2, <5>1, <5>2
      <4>3. QED
        BY <2>3, <4>1, <4>2 DEF ValuesOf
    <3>2. "artifacts" \notin DOMAIN value.fields
      BY <3>1 DEF Moderation, Brackets
    <3>3. QED
      BY <2>1, <3>2
  <2>6. CASE s \notin {"image", "moderation"}
    <3>1. value \in OtherValues(m)
      BY <2>3, <2>6, ValuesAre
    <3>2. "artifacts" \in DOMAIN value.fields => "artifact" \in DOMAIN value.fields
      BY <2>1, <3>1 DEF OtherValues, Null, Brackets
    <3>3. QED
      BY <2>1, <3>2
  <2>7. QED
    BY <2>4, <2>5, <2>6
<1>2. CASE sku # "image"
  <2>1. RefsOf(sku, value) = <<>> \/ RefsOf(sku, value) = <<value.fields.artifact>>
    BY <1>2 DEF RefsOf
  <2>2. QED
    BY <2>1, SomeSequences
<1>3. QED
    BY <1>1, <1>2

\* The first answer of two is held until the second is compared with it.
LEMMA FirstStep == Running /\ Moves => FirstInv'
<1> SUFFICES ASSUME Running, Moves PROVE FirstInv'
    OBVIOUS
<1>1. FirstInv /\ (defect' = defect \/ defect = "none") /\ nonces \in Nat
    BY RunningFacts, MovesServer DEF Running, RunTypeOK
<1>2. CASE ReadGoes
    BY <1>1, <1>2 DEF ReadGoes, FirstInv, Sign
<1>3. CASE SyncGoes
    BY <1>1, <1>3 DEF SyncGoes, FirstInv
<1>4. CASE ~(ReadGoes \/ SyncGoes)
  <2>1. pc' \notin {"balance again", "ledger again", "sync again"}
    BY <1>4, MintEnds, MainEnds DEF Moves, LoadGoes, SetupGoes, LegGoes, AskGoes, MintGoes,
       SyncAgainGoes, ReplayGoes, PollGoes, DownloadGoes, ProbeGoes, CancelGoes, AdvanceGoes,
       CreateMainGoes, CreateCancelGoes
  <2>2. QED
    BY <2>1 DEF FirstInv
<1>5. QED
    BY <1>2, <1>3, <1>4

\* A breach the run notices.
LEMMA DefectStep == Running /\ Moves => DefectInv'
<1> SUFFICES ASSUME Running, Moves PROVE DefectInv'
    OBVIOUS
<1>1. /\ DefectInv /\ ControlInv /\ cfg' = cfg /\ Unnoticed' = Unnoticed
      /\ defect' = defect \/ defect = "none"
    BY RunningFacts, MovesServer DEF Unnoticed
<1>2. CASE defect' \in {"none"} \cup Unnoticed
    BY <1>1, <1>2 DEF DefectInv
<1>3. CASE PollGoes /\ defect' \notin {"none"} \cup Unnoticed
  <2>1. defect' = defect /\ UNCHANGED <<inv, pc, id>>
    BY <1>3 DEF PollGoes, Unnoticed
  <2>2. pc \in {"poll mint", "poll main"}
    BY <1>3 DEF PollGoes
  <2>3. QED
    BY <1>1, <1>3, <2>1, <2>2 DEF DefectInv
<1>4. CASE PollMintEnds /\ defect' \notin {"none"} \cup Unnoticed
  <2>1. /\ pc = "poll mint" /\ defect' = defect /\ defect' # "foreign" /\ defect # "none"
        /\ inv[id].state = "completed" => inv[id].result = Moderation("pass", id)
    BY <1>1, <1>4, MintEnds DEF PollMintEnds, Unnoticed
  <2>0. defect # "malformed_id"
    BY <1>4, <2>1 DEF PollMintEnds, Told, IdFits
  <2>2. /\ inv[id].result = Moderation("pass", id)
        /\ <<defect, inv[id].result>> \in WrongResults(id, inv[id].request.sku)
    BY <1>1, <1>4, <2>0, <2>1 DEF DefectInv
  <2>3. inv[id].request.sku = "moderation" /\ id \in Nat \ {0}
    BY <2>1, PolledFacts
  <2>4. Receipt(Moderation("pass", id)) = id
    BY DEF Receipt, Moderation, Brackets
  <2>5. QED
    BY <2>2, <2>3, <2>4, WrongResultsNoticed DEF NoReceipt, SKUs
<1>5. CASE PollMainEnds /\ defect' \notin {"none"} \cup Unnoticed
  <2>1. /\ pc = "poll main" /\ defect' = defect /\ defect' # "foreign"
        /\ pc' \in {"probe", "replay"} /\ mainId' = mainId /\ inv' = inv
        /\ inv[mainId].result = result'
    BY <1>1, <1>5, MainEnds DEF PollMainEnds, Unnoticed
  <2>0. defect # "malformed_id"
    BY <1>5, <2>1 DEF PollMainEnds, Told, IdFits, Unnoticed
  <2>2. <<defect, inv[id].result>> \in WrongResults(id, inv[id].request.sku)
    BY <1>1, <1>5, <2>0, <2>1 DEF DefectInv
  <2>3. id = mainId /\ inv[id].request.sku = cfg.sku
    BY <2>1, PolledFacts
  <2>4. QED
    BY <1>1, <2>1, <2>2, <2>3 DEF DefectInv
<1>6. CASE ProbeGoes /\ defect' \notin {"none"} \cup Unnoticed
  <2>1. /\ pc = "probe" /\ pc' = "replay" /\ defect' = defect /\ result' = result /\ mainId' = mainId
    BY <1>6 DEF ProbeGoes, Unnoticed, progress
  <2>2. QED
    BY <1>1, <1>6, <2>1 DEF DefectInv
<1>7. CASE ReplayGoes /\ defect' \notin {"none"} \cup Unnoticed
  <2>1. /\ pc = "replay" /\ defect' = defect
        /\ RefsParse(cfg.sku, mainId, result) /\ LegAgrees(cfg.sku, RefsOf(cfg.sku, result))
    BY <1>7 DEF ReplayGoes, server
  <2>2. <<defect, result>> \in WrongResults(mainId, cfg.sku)
    BY <1>1, <1>7, <2>1 DEF DefectInv
  <2>3. mainId \in Nat /\ cfg.sku \in SKUs
    BY <1>1, <2>1 DEF ControlInv, Running, RunTypeOK
  <2>4. cfg.sku = "moderation" /\ defect \in {"no_receipt", "no_kind"}
    BY <2>1, <2>2, <2>3, WrongResultsNoticed
  <2>5. QED
    BY <1>7, <2>1, <2>4 DEF Unnoticed
<1>8. CASE AdvanceGoes /\ defect' \notin {"none"} \cup Unnoticed
  <2>1. PICK i \in Invocation :
        /\ id \in DOMAIN inv /\ inv' = [inv EXCEPT ![id] = i]
        /\ \/ defect' = defect
           \/ /\ i.state = "completed" /\ <<defect', i.result>> \in WrongResults(id, i.request.sku)
              /\ pc # "cancel"
    BY <1>8 DEF AdvanceGoes
  <2>2. /\ pc \in {"poll mint", "poll main", "cancel"} /\ inv[id].state # "completed"
        /\ pc' = pc /\ id' = id
    BY <1>8 DEF AdvanceGoes, progress
  <2>3. defect' = defect => defect = "malformed_id"
    BY <1>1, <1>8, <2>2 DEF DefectInv
  <2>4. inv'[id'] = i
    BY <2>1, <2>2, RunningFacts
  <2>5. QED
    BY <2>1, <2>2, <2>3, <2>4 DEF DefectInv
<1>9. CASE SyncGoes /\ defect' \notin {"none"} \cup Unnoticed
  <2>1. pc = "sync" /\ pc' = "sync again"
    BY <1>9 DEF SyncGoes
  <2>2. first' = Identity("other", 1, 1) /\ defect' = "other_event"
    BY <1>1, <1>9, <2>1 DEF SyncGoes, DefectInv
  <2>3. QED
    BY <2>1, <2>2 DEF DefectInv, Identity
<1>12. CASE /\ MintGoes \/ CreateMainGoes \/ CreateCancelGoes
            /\ defect' \notin {"none"} \cup Unnoticed
  <2>1. /\ pc \in {"mint", "create", "create cancel"}
        /\ pc' \in {"poll mint", "poll main", "cancel"}
        /\ defect' = defect \/ defect' = "malformed_id"
    BY <1>12 DEF MintGoes, CreateMainGoes, CreateCancelGoes, Names
  <2>2. QED
    BY <1>1, <1>12, <2>1 DEF DefectInv
<1>10. CASE /\ ~(PollGoes \/ PollMintEnds \/ PollMainEnds \/ ProbeGoes \/ ReplayGoes
                  \/ AdvanceGoes \/ SyncGoes \/ MintGoes \/ CreateMainGoes \/ CreateCancelGoes)
            /\ defect' \notin {"none"} \cup Unnoticed
  <2>1. defect' = defect
    BY <1>10 DEF Moves, LoadGoes, SetupGoes, LegGoes, AskGoes, ReadGoes, SyncAgainGoes,
       DownloadGoes, CancelGoes, server, Unnoticed
  <2>2. /\ pc \notin {"poll mint", "poll main", "probe", "replay"} /\ (pc = "sync again" => SyncAgainGoes)
        /\ pc = "cancel" => defect # "malformed_id"
    <3>1. CASE LoadGoes \/ SetupGoes \/ LegGoes \/ AskGoes \/ ReadGoes \/ SyncAgainGoes
      BY <3>1 DEF LoadGoes, SetupGoes, LegGoes, AskGoes, ReadGoes, SyncAgainGoes
    <3>2. CASE DownloadGoes \/ CancelGoes
      BY <3>2 DEF DownloadGoes, CancelGoes, IdFits
    <3>3. QED
      BY <1>10, <3>1, <3>2 DEF Moves
  <2>3. ASSUME SyncAgainGoes PROVE first.event = "ours"
    <3>1. first = Identity("ours", 1, 1)
      BY <2>3 DEF SyncAgainGoes
    <3>2. QED
      BY <3>1 DEF Identity
  <2>4. QED
    BY <1>1, <1>10, <2>1, <2>2, <2>3 DEF DefectInv
<1>11. QED
    BY <1>2, <1>3, <1>4, <1>5, <1>6, <1>7, <1>8, <1>9, <1>10, <1>12

\* Which marker a step prints.
LEMMA MovesPrint ==
    ASSUME Running, Moves
    PROVE  \/ printed' = printed
           \/ \E m \in {"receipt", "minted", "presented", "artifacts"} : \E x :
                 printed' = printed \cup {<<m, x>>}
           \/ ProbeGoes \/ CancelGoes
<1>1. CASE SetupGoes \/ LegGoes \/ PollMintEnds
    BY <1>1, MintEnds DEF SetupGoes, LegGoes, Prints
<1>2. CASE CreateMainGoes \/ CreateCancelGoes
    BY <1>2 DEF CreateMainGoes, CreateCancelGoes, PrintsPresented, Prints
<1>3. CASE ~(SetupGoes \/ LegGoes \/ PollMintEnds \/ CreateMainGoes \/ CreateCancelGoes)
    BY <1>3, MainEnds DEF Moves, LoadGoes, AskGoes, ReadGoes, SyncGoes, SyncAgainGoes, ReplayGoes,
       PollGoes, DownloadGoes, MintGoes, AdvanceGoes, evidence
<1>4. QED
    BY <1>1, <1>2, <1>3

\* What the probe and the cancel say.
LEMMA EvidenceStep == Running /\ Moves => EvidenceInv'
<1> SUFFICES ASSUME Running, Moves PROVE EvidenceInv'
    OBVIOUS
<1>1. EvidenceInv /\ MarkerInv /\ ControlInv /\ leg \in Legs /\ (defect' = defect \/ defect = "none")
    BY RunningFacts, MovesServer DEF Running, RunTypeOK
<1>2. /\ <<"replay", "accepted">> \in printed' => Under("receipt-replay")' # {}
      /\ <<"replay", "rejected">> \in printed' => Under("receipt-replay")' = {}
  <2>1. CASE ProbeGoes
    <3>1. \A x \in {"accepted", "rejected"} : <<"replay", x>> \notin printed
      BY <1>1, <2>1 DEF ProbeGoes, MarkerInv, BeforeProbe, BeforeTarget, BeforeReceipt, BeforeMint,
         ControlInv, Legs, RuntimePCs
    <3>2. Under("receipt-replay") = {}
      BY <1>1, <2>1, RunningFacts DEF ProbeGoes, KeysInv, BeforeProbe, ControlInv, Legs, RuntimePCs
    <3>3. CASE inv' = inv /\ Prints(<<"replay", "rejected">>)
      <4>1. Under("receipt-replay")' = {}
        BY <3>2, <3>3 DEF Under
      <4>2. QED
        BY <3>1, <3>3, <4>1 DEF Prints
    <3>4. CASE inv' = Made(TargetRequest("main"), "receipt-replay") /\ Prints(<<"replay", "accepted">>)
      <4>1. /\ pc # "config" /\ OneMore(TargetRequest("main"), "receipt-replay")
            /\ TargetRequest("main") \in Requests /\ "receipt-replay" \in Keys
        BY <2>1, <3>4 DEF ProbeGoes, OneMore, Requests, Keys
      <4>2. Under("receipt-replay")' # {}
        BY <4>1, OneMoreFacts
      <4>3. QED
        BY <3>1, <3>4, <4>2 DEF Prints
    <3>5. QED
      BY <2>1, <3>3, <3>4 DEF ProbeGoes
  <2>2. CASE ~ProbeGoes
    <3>1. \A x \in {"accepted", "rejected"} : <<"replay", x>> \in printed' => <<"replay", x>> \in printed
      BY <2>2, MovesPrint DEF CancelGoes, Prints
    <3>2. Under("receipt-replay")' = Under("receipt-replay")
      BY <2>2, MovesUnder DEF MintKey
    <3>3. QED
      BY <1>1, <3>1, <3>2 DEF EvidenceInv
  <2>3. QED
    BY <2>1, <2>2
<1>3. /\ <<"cancel", "already_terminal">> \in printed' => inv'[id'].state \in TerminalStates
      /\ <<"cancel", "accepted">> \in printed' /\ defect' # "not_cancelled" =>
            inv'[id'].state \in TerminalStates \cup {"cancel_pending"}
  <2>1. CASE CancelGoes
    <3>1. /\ pc = "cancel" /\ leg = "cancel" /\ id' = id
          /\ \A x \in {"accepted", "already_terminal"} : <<"cancel", x>> \notin printed
      BY <1>1, <2>1 DEF CancelGoes, MarkerInv, BeforeCancel, ControlInv, Legs, RuntimePCs, progress
    <3>2. CASE /\ inv[id].state \in TerminalStates /\ UNCHANGED server
      BY <3>1, <3>2 DEF server
    <3>3. CASE /\ inv[id].state \notin TerminalStates
               /\ \E state \in {"cancel_pending", "cancelled"} :
                     inv' = [inv EXCEPT ![id] = Moved(@, state)]
               /\ Prints(<<"cancel", "accepted">>)
      <4>1. PICK i \in Invocation : Instead(i) /\ i.state \in {"cancel_pending", "cancelled"}
        BY <2>1, <3>3, CancelledMoves
      <4>2. inv'[id].state \in {"cancel_pending", "cancelled"}
        BY <4>1, InsteadFacts DEF Instead
      <4>3. <<"cancel", "already_terminal">> \notin printed'
        BY <3>1, <3>3 DEF Prints
      <4>4. QED
        BY <3>1, <4>2, <4>3 DEF TerminalStates
    <3>4. CASE defect' = "not_cancelled" /\ Prints(<<"cancel", "accepted">>)
      BY <3>1, <3>4 DEF Prints
    <3>5. QED
      BY <2>1, <3>2, <3>3, <3>4 DEF CancelGoes
  <2>2. CASE ~CancelGoes
    <3>1. \A x \in {"accepted", "already_terminal"} :
            <<"cancel", x>> \in printed' => <<"cancel", x>> \in printed
      BY <2>2, MovesPrint DEF ProbeGoes, Prints
    <3>2. SUFFICES ASSUME NEW x \in {"accepted", "already_terminal"}, <<"cancel", x>> \in printed
                   PROVE  inv' = inv /\ id' = id
      BY <1>1, <3>1 DEF EvidenceInv
    <3>3. leg = "cancel" /\ pc \notin {"mint", "poll mint", "create cancel", "cancel"}
      BY <1>1, <3>2 DEF MarkerInv, BeforeCancel, Legs
    <3>4. pc \in RuntimePCs
      BY <1>1, <3>3 DEF ControlInv
    <3>5. AskGoes \/ ReadGoes \/ SyncGoes \/ SyncAgainGoes
      BY <3>4 DEF RuntimePCs, Moves, LoadGoes, SetupGoes, LegGoes, MintGoes, PollGoes, PollMintEnds,
         PollMainEnds, CreateMainGoes, ProbeGoes, ReplayGoes, DownloadGoes, CreateCancelGoes,
         CancelGoes, AdvanceGoes
    <3>6. QED
      BY <3>5 DEF AskGoes, ReadGoes, SyncGoes, SyncAgainGoes, server, progress
  <2>3. QED
    BY <2>1, <2>2
<1>4. QED
    BY <1>2, <1>3 DEF EvidenceInv

\* A list has its head and the elements of its tail, and no others.
LEMMA HeadAndTail ==
    ASSUME NEW S, NEW q \in Seq(S), q # <<>>
    PROVE  /\ Tail(q) \in Seq(S)
           /\ {q[r] : r \in DOMAIN q} = {Head(q)} \cup {Tail(q)[r] : r \in DOMAIN Tail(q)}
<1>1. /\ Tail(q) \in Seq(S) /\ DOMAIN q = 1..Len(q) /\ DOMAIN Tail(q) = 1..(Len(q) - 1)
      /\ Len(q) \in Nat \ {0} /\ Head(q) = q[1]
      /\ \A r \in 1..(Len(q) - 1) : Tail(q)[r] = q[r + 1]
    OBVIOUS
<1>2. ASSUME NEW r \in DOMAIN q PROVE q[r] \in {Head(q)} \cup {Tail(q)[s] : s \in DOMAIN Tail(q)}
  <2>1. CASE r = 1
    BY <1>1, <2>1
  <2>2. CASE r # 1
    <3>1. r - 1 \in DOMAIN Tail(q) /\ Tail(q)[r - 1] = q[r]
      BY <1>1, <2>2
    <3>2. QED
      BY <3>1
  <2>3. QED
    BY <2>1, <2>2
<1>3. Head(q) \in {q[r] : r \in DOMAIN q}
    BY <1>1
<1>4. ASSUME NEW s \in DOMAIN Tail(q) PROVE Tail(q)[s] \in {q[r] : r \in DOMAIN q}
  <2>1. s + 1 \in DOMAIN q /\ Tail(q)[s] = q[s + 1]
    BY <1>1
  <2>2. QED
    BY <2>1
<1>5. QED
    BY <1>1, <1>2, <1>3, <1>4

\* The result the run works with is still the main invocation's, and no
\* artifact of it is lost between the ones fetched and the ones to fetch.
LEMMA ResultStep == Running /\ Moves => ResultInv'
<1> SUFFICES ASSUME Running, Moves PROVE ResultInv'
    OBVIOUS
<1>1. /\ ResultInv /\ ControlInv /\ leg \in Legs /\ cfg' = cfg
      /\ defect' # "foreign" => defect # "foreign"
    BY RunningFacts, MovesServer DEF Running, RunTypeOK
<1>2. ASSUME ~CreateMainGoes, ~PollMainEnds PROVE mainId' = mainId /\ result' = result
    BY <1>2, MintEnds DEF Moves, LoadGoes, SetupGoes, LegGoes, AskGoes, ReadGoes, SyncGoes, MintGoes,
       SyncAgainGoes, ReplayGoes, PollGoes, DownloadGoes, ProbeGoes, CancelGoes, AdvanceGoes,
       CreateCancelGoes, progress
<1>3. ASSUME ~BeforeTarget("main")', pc' # "poll main", defect' # "foreign"
      PROVE  inv'[mainId'].state = "completed" /\ inv'[mainId'].result = result'
  <2>1. CASE PollMainEnds
    BY <1>3, <2>1, MainEnds
  <2>2. CASE ~PollMainEnds
    <3>1. ~CreateMainGoes /\ (pc = "poll main" => pc' \in {"poll main", "failed"})
      BY <1>3, <2>2 DEF Moves, LoadGoes, SetupGoes, LegGoes, AskGoes, ReadGoes, SyncGoes, MintGoes,
         SyncAgainGoes, ReplayGoes, PollGoes, PollMintEnds, DownloadGoes, ProbeGoes, CancelGoes,
         AdvanceGoes, CreateCancelGoes, CreateMainGoes
    <3>2. ~BeforeTarget("main") /\ pc # "poll main"
      <4>1. ~BeforeTarget("main")
        BY <1>3, <3>1, LegsInOrder
      <4>2. pc' # "failed"
        BY MovesType, ControlStep DEF RunTypeOK, ControlInv, Legs, RuntimePCs
      <4>3. QED
        BY <1>3, <3>1, <4>1, <4>2
    <3>3. PICK m : m = mainId
      OBVIOUS
    <3>4. m \in DOMAIN inv /\ inv[m].state = "completed" /\ inv[m].result = result
      BY <1>1, <1>3, <3>2, <3>3, MainIdFacts DEF ResultInv
    <3>5. inv'[m] = inv[m]
      BY <3>4, MovesServer, ServerMovesKeep DEF Kept, TerminalStates
    <3>6. mainId' = m /\ result' = result
      BY <1>2, <2>2, <3>1, <3>3
    <3>7. QED
      BY <3>4, <3>5, <3>6
  <2>3. QED
    BY <2>1, <2>2
<1>4. ASSUME pc' = "download" \/ leg' = "cancel"
      PROVE  /\ RefsParse(cfg.sku, mainId, result)' /\ LegAgrees(cfg.sku, RefsOf(cfg.sku, result))'
             /\ refs' \in Seq(RefSet(result))'
             /\ fetched' \cup {refs'[r] : r \in DOMAIN refs'} = RefSet(result)'
  <2>1. ~CreateMainGoes /\ ~PollMainEnds
    BY <1>1, <1>4, MainEnds DEF CreateMainGoes, PollMainEnds, ControlInv, Legs, RuntimePCs
  <2>2. mainId' = mainId /\ result' = result /\ cfg' = cfg
    BY <1>1, <1>2, <2>1
  <2>3. RefSet(result)' = RefSet(result)
    BY <2>2 DEF RefSet
  <2>4. CASE ReplayGoes
    <3>1. /\ RefsParse(cfg.sku, mainId, result) /\ LegAgrees(cfg.sku, RefsOf(cfg.sku, result))
          /\ refs' = RefsOf(cfg.sku, result) /\ fetched' = fetched /\ pc = "replay"
      BY <2>4 DEF ReplayGoes, evidence
    <3>2. fetched = {}
      BY <1>1, <3>1 DEF ResultInv, ControlInv, Legs, RuntimePCs
    <3>3. refs' \in Seq(RefSet(result))
      <4>1. cfg.sku \in SKUs /\ result \in Value
        BY <1>1, <3>1 DEF ControlInv, Running, RunTypeOK
      <4>2. QED
        BY <3>1, <4>1, RefsOfIsSequence DEF IsSequence, RefSet
    <3>4. QED
      BY <2>2, <2>3, <3>1, <3>2, <3>3 DEF RefSet
  <2>5. CASE ~ReplayGoes
    <3>1. pc = "download" \/ leg = "cancel"
      BY <1>4, <2>1, <2>5, MintEnds DEF Moves, LoadGoes, SetupGoes, LegGoes, AskGoes, ReadGoes, SyncGoes,
         MintGoes, SyncAgainGoes, PollGoes, DownloadGoes, ProbeGoes, CancelGoes, AdvanceGoes,
         CreateCancelGoes, progress
    <3>2. /\ RefsParse(cfg.sku, mainId, result) /\ LegAgrees(cfg.sku, RefsOf(cfg.sku, result))
          /\ refs \in Seq(RefSet(result))
          /\ fetched \cup {refs[r] : r \in DOMAIN refs} = RefSet(result)
      BY <1>1, <3>1 DEF ResultInv
    <3>3. CASE DownloadGoes
      <4>1. refs # <<>> /\ fetched' = fetched \cup {Head(refs)} /\ refs' = Tail(refs)
        BY <3>3 DEF DownloadGoes
      <4>2. /\ Tail(refs) \in Seq(RefSet(result))
            /\ {refs[r] : r \in DOMAIN refs} =
                  {Head(refs)} \cup {Tail(refs)[r] : r \in DOMAIN Tail(refs)}
        BY <3>2, <4>1, HeadAndTail
      <4>3. QED
        BY <2>2, <2>3, <3>2, <4>1, <4>2
    <3>4. CASE ~DownloadGoes
      <4>1. refs' = refs /\ fetched' = fetched
        BY <2>1, <2>5, <3>4, MintEnds DEF Moves, LoadGoes, SetupGoes, LegGoes, AskGoes, ReadGoes,
           SyncGoes, MintGoes, SyncAgainGoes, PollGoes, ProbeGoes, CancelGoes, AdvanceGoes,
           CreateCancelGoes, progress, evidence
      <4>2. QED
        BY <2>2, <2>3, <3>2, <4>1
    <3>5. QED
      BY <3>3, <3>4
  <2>6. QED
    BY <2>4, <2>5
<1>5. ASSUME leg' = "main", pc' # "download" PROVE fetched' = {}
  <2>1. leg = "main" /\ ~DownloadGoes /\ ~LegGoes
    BY <1>1, <1>5, MintEnds, MainEnds DEF Moves, LoadGoes, SetupGoes, LegGoes, AskGoes, ReadGoes, SyncGoes,
       MintGoes, SyncAgainGoes, PollGoes, DownloadGoes, ProbeGoes, CancelGoes, AdvanceGoes,
       CreateCancelGoes, CreateMainGoes, ReplayGoes, progress
  <2>2. fetched' = fetched
    BY <2>1, MintEnds, MainEnds DEF Moves, LoadGoes, SetupGoes, AskGoes, ReadGoes, SyncGoes,
       MintGoes, SyncAgainGoes, PollGoes, ProbeGoes, CancelGoes, AdvanceGoes,
       CreateCancelGoes, CreateMainGoes, ReplayGoes, evidence
  <2>3. pc # "download"
    BY <1>5, <2>1, MintEnds, MainEnds DEF Moves, LoadGoes, SetupGoes, AskGoes, ReadGoes, SyncGoes,
       MintGoes, SyncAgainGoes, PollGoes, PollMintEnds, PollMainEnds, ProbeGoes, CancelGoes, AdvanceGoes,
       CreateCancelGoes, CreateMainGoes, ReplayGoes
  <2>4. QED
    BY <1>1, <2>1, <2>2, <2>3 DEF ResultInv
<1>6. ASSUME leg' = "cancel" PROVE refs' = <<>>
  <2>1. CASE LegGoes
    BY <2>1 DEF LegGoes
  <2>2. CASE ~LegGoes
    <3>1. leg = "cancel"
      BY <1>6, <2>2, MintEnds, MainEnds DEF Moves, LoadGoes, SetupGoes, AskGoes, ReadGoes, SyncGoes,
         MintGoes, SyncAgainGoes, PollGoes, DownloadGoes, ProbeGoes, CancelGoes, AdvanceGoes,
         CreateCancelGoes, CreateMainGoes, ReplayGoes, progress
    <3>2. ~DownloadGoes /\ ~ReplayGoes
      BY <1>1, <3>1 DEF DownloadGoes, ReplayGoes, ControlInv, RuntimePCs
    <3>3. refs' = refs
      BY <2>2, <3>2, MintEnds, MainEnds DEF Moves, LoadGoes, SetupGoes, AskGoes, ReadGoes, SyncGoes,
         MintGoes, SyncAgainGoes, PollGoes, ProbeGoes, CancelGoes, AdvanceGoes,
         CreateCancelGoes, CreateMainGoes, progress
    <3>4. QED
      BY <1>1, <3>1, <3>3 DEF ResultInv
  <2>3. QED
    BY <2>1, <2>2
<1>7. QED
    BY <1>3, <1>4, <1>5, <1>6 DEF ResultInv
-----------------------------------------------------------------------------
(* The theorems.                                                           *)

\* A step that goes on keeps the invariant of a run that has not failed.
LEMMA RunStep == Running /\ Moves => Running' /\ NoFalseAlarm'
<1> SUFFICES ASSUME Running, Moves PROVE Running' /\ NoFalseAlarm'
    OBVIOUS
<1>1. /\ ControlInv' /\ MarkerInv' /\ KeysInv' /\ ServerInv' /\ LookInv'
      /\ ReceiptInv' /\ ResultInv' /\ FirstInv' /\ DefectInv' /\ EvidenceInv'
    BY ControlStep, MarkerStep, KeysStep, ServerStep, LookStep, ReceiptStep, ResultStep, FirstStep,
       DefectStep, EvidenceStep
<1>2. RunTypeOK'
    BY MovesType
<1>3. pc' # "failed" /\ how' = "none"
    BY <1>1, <1>2 DEF ControlInv, RunTypeOK, Legs, RuntimePCs
<1>4. QED
    BY <1>1, <1>2, <1>3 DEF Running, RunInv, NoFalseAlarm

\* A sequence is empty just when it has no element.
LEMMA EmptySequence ==
    ASSUME NEW S, NEW q \in Seq(S)
    PROVE  q = <<>> <=> DOMAIN q = {}
<1>1. DOMAIN q = 1..Len(q) /\ Len(q) \in Nat /\ (q = <<>> <=> Len(q) = 0)
    OBVIOUS
<1>2. Len(q) # 0 => 1 \in 1..Len(q)
    BY <1>1
<1>3. QED
    BY <1>1, <1>2

\* The cancel leg begins when every artifact of the result is fetched.
LEMMA AllFetched ==
    ASSUME Running, leg = "cancel"
    PROVE  /\ fetched = RefSet(result) /\ \A r \in fetched : r.of = mainId
           /\ fetched # {} <=> cfg.sku \in Artifactual
<1>1. /\ RefsParse(cfg.sku, mainId, result) /\ LegAgrees(cfg.sku, RefsOf(cfg.sku, result))
      /\ fetched \cup {refs[r] : r \in DOMAIN refs} = RefSet(result) /\ refs = <<>>
    BY RunningFacts DEF ResultInv
<1>2. fetched = RefSet(result)
  <2>1. DOMAIN refs = {}
    BY <1>1
  <2>2. QED
    BY <1>1, <2>1
<1>3. cfg.sku \in SKUs /\ result \in Value
    BY RunningFacts DEF ControlInv, Running, RunTypeOK, RuntimePCs
<1>4. \A r \in fetched : r.of = mainId
    BY <1>1, <1>2, <1>3, RefsOfMain DEF RefSet
<1>5. RefsOf(cfg.sku, result) \in Seq(RefSet(result))
    BY <1>1, <1>3, RefsOfIsSequence DEF IsSequence, RefSet
<1>6. RefsOf(cfg.sku, result) # <<>> <=> DOMAIN RefsOf(cfg.sku, result) # {}
    BY <1>5, EmptySequence
<1>7. RefSet(result) # {} <=> DOMAIN RefsOf(cfg.sku, result) # {}
    BY DEF RefSet
<1>8. QED
    BY <1>1, <1>2, <1>4, <1>6, <1>7 DEF LegAgrees

\* A run that has not failed has done what its markers say.
LEMMA RunTestifies == Running => MarkersTestify
<1> SUFFICES ASSUME Running PROVE MarkersTestify
    OBVIOUS
<1>1. /\ ControlInv /\ MarkerInv /\ KeysInv /\ ServerInv /\ LookInv /\ ReceiptInv /\ ResultInv
      /\ EvidenceInv /\ leg \in Legs
    BY RunningFacts DEF Running, RunTypeOK
<1>2. ASSUME NEW l \in Legs, <<"minted", l>> \in printed, defect # "foreign"
      PROVE  \E n \in Under(MintKeyOf(l)) : receipts[l] = n /\ MintedFor(n, Subject)
  <2>1. cfg.sku # "moderation" /\ ~BeforeReceipt(l)
    BY <1>1, <1>2 DEF MarkerInv
  <2>2. receipts[l] \in Under(MintKeyOf(l)) /\ MintedFor(receipts[l], Subject)
    BY <1>1, <1>2, <2>1 DEF ReceiptInv
  <2>3. QED
    BY <2>2
<1>3. ASSUME NEW l \in Legs, <<"presented", l>> \in printed
      PROVE  \E n \in Under(TargetKeyOf(l)) :
                inv[n].request = Request(cfg.sku, receipts[l]) /\ receipts[l] # NoReceipt
  <2>1. cfg.sku # "moderation" /\ ~BeforeTarget(l)
    BY <1>1, <1>3 DEF MarkerInv
  <2>2. receipts[l] # NoReceipt
    BY <1>1, <2>1 DEF ReceiptInv, BeforeTarget
  <2>3. PICK n : n \in Under(TargetKeyOf(l))
    BY <1>1, <2>1 DEF KeysInv, LookInv, TargetKeyOf, Legs
  <2>4. inv[n].request = RequestOf(TargetKeyOf(l))
    BY <1>1, <2>3 DEF ServerInv, Under
  <2>5. RequestOf(TargetKeyOf(l)) = TargetRequest(l)
    BY DEF RequestOf, TargetKeyOf, Legs
  <2>6. TargetRequest(l) = Request(cfg.sku, receipts[l])
    BY <2>1 DEF TargetRequest, ModerationReceiptForSKU
  <2>7. QED
    BY <2>2, <2>3, <2>4, <2>5, <2>6
<1>4. /\ <<"artifacts", "downloaded">> \in printed => fetched # {} /\ \A r \in fetched : r.of = mainId
      /\ <<"artifacts", "skipped">> \in printed => fetched = {} /\ cfg.sku \notin Artifactual
  <2>1. /\ <<"artifacts", "downloaded">> \in printed => leg = "cancel" /\ cfg.sku \in Artifactual
        /\ <<"artifacts", "skipped">> \in printed => leg = "cancel" /\ cfg.sku \notin Artifactual
    BY <1>1 DEF MarkerInv
  <2>2. QED
    BY AllFetched, <2>1
<1>5. QED
    BY <1>1, <1>2, <1>3, <1>4 DEF MarkersTestify, EvidenceInv, Legs, MintKeyOf, TargetKeyOf

\* A failure does not take back what was done.
LEMMA FailureTestifies == Running /\ MarkersTestify /\ Stops => MarkersTestify'
<1> SUFFICES ASSUME Running, MarkersTestify, Stops PROVE MarkersTestify'
    OBVIOUS
<1>1. /\ cfg' = cfg /\ receipts' = receipts /\ fetched' = fetched /\ printed' = printed
      /\ id' = id /\ mainId' = mainId /\ (defect' = defect \/ defect = "none")
    BY DEF Stops, progress, evidence
<1>2. ServerMoves /\ (pc # "config" \/ inv' = inv)
    BY DEF Stops, ServerMoves, OneMore, Requests
<1>3. Kept
    BY <1>2, ServerMovesKeep
<1>4. \A j : Under(j) \subseteq Under(j)'
    BY <1>3 DEF Kept, Under
<1>5. Subject' = Subject
    BY <1>1 DEF Subject
<1>6. /\ <<"replay", "accepted">> \in printed' => Under("receipt-replay")' # {}
      /\ <<"replay", "rejected">> \in printed' => Under("receipt-replay")' = {}
  <2>1. CASE pc = "probe"
    <3>1. \A x \in {"accepted", "rejected"} : <<"replay", x>> \notin printed
      BY <2>1, RunningFacts DEF MarkerInv, BeforeProbe, ControlInv, Running, RunTypeOK, Legs, RuntimePCs
    <3>2. QED
      BY <1>1, <3>1
  <2>2. CASE pc # "probe"
    <3>1. Under("receipt-replay")' = Under("receipt-replay")
      <4>1. CASE inv' = inv
        BY <4>1 DEF Under
      <4>2. CASE inv' # inv
        <5>1. PICK r \in Requests, k \in Keys \ {"receipt-replay"} : OneMore(r, k) /\ pc # "config"
          BY <2>2, <4>2 DEF Stops, OneMore, Requests
        <5>2. \A j : Under(j)' = Under(j) \cup (IF j = k THEN {Next1} ELSE {})
          BY <5>1, OneMoreFacts
        <5>3. QED
          BY <5>1, <5>2
      <4>3. QED
        BY <4>1, <4>2
    <3>2. QED
      BY <1>1, <3>1 DEF MarkersTestify
  <2>3. QED
    BY <2>1, <2>2
<1>7. ASSUME NEW x \in {"accepted", "already_terminal"}, <<"cancel", x>> \in printed
      PROVE  inv'[id'] = inv[id]
  <2>1. ~BeforeCancel /\ leg \in Legs
    BY <1>7, RunningFacts DEF MarkerInv, Running, RunTypeOK
  <2>2. ~BeforeTarget("cancel")
    BY <2>1 DEF BeforeCancel, BeforeTarget, BeforeReceipt, BeforeMint, Legs
  <2>3. id \in DOMAIN inv
    BY <2>2, RunningFacts DEF LookInv, Under
  <2>4. inv' = inv \/ \E r \in Requests, k \in Keys : OneMore(r, k) /\ pc # "config"
    BY DEF Stops, OneMore, Requests
  <2>5. inv'[id] = inv[id]
    BY <2>3, <2>4, OneMoreFacts
  <2>6. QED
    BY <1>1, <2>5
<1>8. ASSUME NEW l \in Legs, <<"minted", l>> \in printed', defect' # "foreign"
      PROVE  \E n \in Under(MintKeyOf(l))' : receipts'[l] = n /\ MintedFor(n, Subject)'
  <2>1. PICK n : n \in Under(MintKeyOf(l)) /\ receipts[l] = n /\ MintedFor(n, Subject)
    BY <1>1, <1>8 DEF MarkersTestify, Legs, MintKeyOf
  <2>2. n \in DOMAIN inv' /\ inv'[n] = inv[n]
    BY <1>3, <2>1 DEF Kept, MintedFor, TerminalStates
  <2>3. MintedFor(n, Subject)'
    BY <1>5, <2>1, <2>2 DEF MintedFor
  <2>4. MintKeyOf(l)' = MintKeyOf(l) /\ n \in Under(MintKeyOf(l))'
    BY <1>4, <2>1 DEF MintKeyOf
  <2>5. QED
    BY <1>1, <2>1, <2>3, <2>4
<1>9. ASSUME NEW l \in Legs, <<"presented", l>> \in printed'
      PROVE  \E n \in Under(TargetKeyOf(l))' :
                inv'[n].request = Request(cfg.sku, receipts[l])' /\ receipts'[l] # NoReceipt
  <2>1. PICK n : /\ n \in Under(TargetKeyOf(l))
                 /\ inv[n].request = Request(cfg.sku, receipts[l]) /\ receipts[l] # NoReceipt
    BY <1>1, <1>9 DEF MarkersTestify, Legs, TargetKeyOf
  <2>2. n \in DOMAIN inv' /\ inv'[n].request = inv[n].request
    BY <1>3, <2>1 DEF Kept, Under
  <2>3. Request(cfg.sku, receipts[l])' = Request(cfg.sku, receipts[l])
    BY <1>1, <1>5 DEF Request
  <2>4. n \in Under(TargetKeyOf(l))'
    BY <1>4, <2>1 DEF TargetKeyOf
  <2>5. QED
    BY <1>1, <2>1, <2>2, <2>3, <2>4
<1>10. /\ <<"cancel", "already_terminal">> \in printed' => inv'[id'].state \in TerminalStates
       /\ <<"cancel", "accepted">> \in printed' /\ defect' # "not_cancelled" =>
             inv'[id'].state \in TerminalStates \cup {"cancel_pending"}
    BY <1>1, <1>7 DEF MarkersTestify
<1>11. /\ <<"artifacts", "downloaded">> \in printed' =>
             fetched' # {} /\ \A r \in fetched' : r.of = mainId'
       /\ <<"artifacts", "skipped">> \in printed' => fetched' = {} /\ cfg'.sku \notin Artifactual
    BY <1>1 DEF MarkersTestify
<1>12. QED
    BY <1>6, <1>8, <1>9, <1>10, <1>11 DEF MarkersTestify, Legs, MintKeyOf, TargetKeyOf

\* A run that passes has seen what a pass certifies.
LEMMA PassedCertifies == Running => PassCertifies
<1> SUFFICES ASSUME Running, pc = "passed" PROVE PassCertifies
    BY DEF PassCertifies
<1>1. /\ ControlInv /\ MarkerInv /\ KeysInv /\ ReceiptInv /\ ResultInv /\ DefectInv
      /\ leg \in Legs
    BY RunningFacts DEF Running, RunTypeOK
<1>2. leg = "cancel" /\ streams = {} /\ defect \in {"none"} \cup Unnoticed
    BY <1>1 DEF ControlInv, DefectInv, Legs
<1>3. \A l \in Legs : ~BeforeTarget(l) /\ ~BeforeReceipt(l)
    BY <1>2 DEF BeforeTarget, BeforeReceipt, BeforeMint, Legs
<1>4. Under("create") = {mainId}
    BY <1>1, <1>3 DEF KeysInv, Legs
<1>5. ExpectedMarkers \subseteq printed
  <2>1. CASE cfg.sku = "moderation"
    <3>1. <<"receipt", "skipped">> \in printed
      BY <1>1, <2>1 DEF MarkerInv
    <3>2. <<"artifacts", "skipped">> \in printed
      BY <1>1, <1>2, <2>1 DEF MarkerInv, Artifactual
    <3>3. QED
      BY <2>1, <3>1, <3>2 DEF ExpectedMarkers
  <2>2. CASE cfg.sku # "moderation"
    <3>1. \A l \in Legs : <<"minted", l>> \in printed /\ <<"presented", l>> \in printed
      BY <1>1, <1>3, <2>2 DEF MarkerInv
    <3>2. <<"artifacts", IF cfg.sku \in Artifactual THEN "downloaded" ELSE "skipped">> \in printed
      BY <1>1, <1>2 DEF MarkerInv
    <3>3. QED
      BY <2>2, <3>1, <3>2 DEF ExpectedMarkers, Legs
  <2>3. QED
    BY <2>1, <2>2
<1>6. ASSUME defect # "foreign"
      PROVE  inv[mainId].state = "completed" /\ inv[mainId].result = result
    BY <1>1, <1>3, <1>6 DEF ResultInv, Legs
<1>7. fetched = {RefsOf(cfg.sku, result)[r] : r \in DOMAIN RefsOf(cfg.sku, result)}
    BY <1>2, AllFetched DEF RefSet
<1>8. ASSUME defect # "foreign", cfg.sku # "moderation"
      PROVE  /\ receipts["main"] # receipts["cancel"]
             /\ \A l \in Legs : MintedFor(receipts[l], Subject)
  <2>1. \A l \in Legs : receipts[l] \in Under(MintKeyOf(l)) /\ MintedFor(receipts[l], Subject)
    BY <1>1, <1>3, <1>8 DEF ReceiptInv
  <2>2. inv[receipts["main"]].key = "receipt-main" /\ inv[receipts["cancel"]].key = "receipt-cancel"
    BY <2>1 DEF Under, MintKeyOf, Legs
  <2>3. QED
    BY <2>1, <2>2
<1>9. QED
    BY <1>2, <1>4, <1>5, <1>6, <1>7, <1>8 DEF PassCertifies, Legs

\* A failed run makes no call, and the server only moves on what is looked at.
LEMMA FailedStays == pc = "failed" /\ Next => UNCHANGED vars
<1> SUFFICES ASSUME pc = "failed", Next PROVE UNCHANGED vars
    OBVIOUS
<1>1. ~Advance
    BY DEF Advance
<1>2. ~CallFails
  <2>1. \A c \in 1..9 : c = 1 \/ c = 2 \/ c = 3 \/ c = 4 \/ c = 5 \/ c = 6 \/ c = 7 \/ c = 8 \/ c = 9
    OBVIOUS
  <2>2. \A c \in 1..9 : RuntimeCalls[c] # "failed"
    BY <2>1, CallNames
  <2>3. QED
    BY <2>2 DEF CallFails, Calls
<1>3. \A operation \in {"balance", "ledger"} : ~Read(operation) /\ ~ReadAgain(operation)
    BY FollowingIs DEF Read, ReadAgain
<1>4. ~LoadConfig /\ ~Setup /\ ~Mint /\ ~PollOnce /\ ~OutOfBudget /\ ~CreateMain
    BY DEF LoadConfig, Setup, Mint, PollOnce, OutOfBudget, CreateMain
<1>5. ~Probe /\ ~Replay /\ ~DownloadNext /\ ~ArtifactsDone /\ ~CreateCancel /\ ~CancelIt
    BY DEF Probe, Replay, DownloadNext, ArtifactsDone, CreateCancel, CancelIt
<1>6. ~AskOnce /\ ~Sync /\ ~SyncAgain
    BY DEF AskOnce, Sync, SyncAgain
<1>7. QED
    BY <1>1, <1>2, <1>3, <1>4, <1>5, <1>6 DEF Next, Run, Goes, Done

\* The invariant holds at the start: no key is used and no marker printed.
LEMMA InitHolds == Init => IInv
<1> SUFFICES ASSUME Init PROVE IInv
    OBVIOUS
<1>1. \A j : Under(j) = {}
    BY DEF Init, Under
<1>2. RunTypeOK
  <2>1. inv \in Seq(Invocation) /\ Len(inv) = 0
    BY DEF Init
  <2>2. /\ cfg \in Configs /\ pc \in PCs /\ leg \in Legs /\ result \in Value
        /\ id \in 0..0 /\ mainId \in 0..0
        /\ attempts \in Nat /\ etag \in Nat /\ nonces \in Nat
    BY DEF Init, PCs, Legs, Value, NoId, NoTag
  <2>3. receipts \in [Legs -> Nat]
    BY DEF Init, Legs, NoReceipt
  <2>4. QED
    BY <2>1, <2>2, <2>3 DEF RunTypeOK
<1>3. ControlInv /\ DefectInv /\ FirstInv /\ LookInv
    BY DEF Init, ControlInv, DefectInv, FirstInv, LookInv, BeforeTarget, BeforeReceipt, BeforeMint
<1>4. \A l \in Legs : BeforeMint(l) /\ BeforeReceipt(l) /\ BeforeTarget(l)
    BY DEF Init, BeforeMint, BeforeReceipt, BeforeTarget, Legs
<1>5. BeforeProbe /\ BeforeCancel
    BY <1>4 DEF Init, BeforeProbe, BeforeCancel, Legs
<1>6. MarkerInv
    BY <1>4, <1>5 DEF Init, MarkerInv
<1>7. KeysInv
    BY <1>1, <1>4 DEF KeysInv, Legs
<1>8. ServerInv
    BY DEF Init, ServerInv
<1>9. ReceiptInv
    BY <1>4 DEF ReceiptInv
<1>10. ResultInv
    BY <1>4 DEF Init, ResultInv, Legs
<1>11. EvidenceInv
    BY DEF Init, EvidenceInv
<1>12. MarkersTestify
    BY DEF Init, MarkersTestify
<1>13. NoFalseAlarm
    BY DEF Init, NoFalseAlarm
<1>14. QED
    BY <1>2, <1>3, <1>6, <1>7, <1>8, <1>9, <1>10, <1>11, <1>12, <1>13 DEF IInv, RunInv

\* It speaks of the run's variables only.
LEMMA StutterHolds == IInv /\ UNCHANGED vars => IInv'
<1> SUFFICES ASSUME IInv, UNCHANGED vars PROVE IInv'
    OBVIOUS
<1>1. /\ inv' = inv /\ defect' = defect /\ cfg' = cfg /\ pc' = pc /\ how' = how
      /\ streams' = streams /\ leg' = leg /\ id' = id /\ attempts' = attempts /\ etag' = etag
      /\ mainId' = mainId /\ result' = result /\ refs' = refs /\ first' = first
      /\ nonces' = nonces /\ receipts' = receipts /\ fetched' = fetched /\ printed' = printed
    BY DEF vars, server, progress, evidence
<1>2. \A j : Under(j)' = Under(j)
    BY <1>1 DEF Under
<1>3. \A l : /\ BeforeMint(l)' = BeforeMint(l) /\ BeforeReceipt(l)' = BeforeReceipt(l)
              /\ BeforeTarget(l)' = BeforeTarget(l)
    BY <1>1 DEF BeforeMint, BeforeReceipt, BeforeTarget
<1>4. BeforeProbe' = BeforeProbe /\ BeforeCancel' = BeforeCancel
    BY <1>1, <1>3 DEF BeforeProbe, BeforeCancel
<1>5. Subject' = Subject
    BY <1>1 DEF Subject
<1>6. /\ \A sku, receipt : Request(sku, receipt)' = Request(sku, receipt)
      /\ MintRequest' = MintRequest /\ \A l : TargetRequest(l)' = TargetRequest(l)
    BY <1>1, <1>5 DEF Request, MintRequest, TargetRequest
<1>7. \A n : MintedFor(n, Subject)' = MintedFor(n, Subject)
    BY <1>1, <1>5 DEF MintedFor
<1>8. RunTypeOK'
    BY <1>1 DEF IInv, RunTypeOK
<1>9. RunInv'
  <2> SUFFICES ASSUME pc # "failed"
               PROVE  /\ ControlInv' /\ MarkerInv' /\ KeysInv' /\ ServerInv' /\ LookInv'
                      /\ ReceiptInv' /\ ResultInv' /\ FirstInv' /\ DefectInv' /\ EvidenceInv'
    BY <1>1 DEF RunInv
  <2>1. /\ ControlInv /\ MarkerInv /\ KeysInv /\ ServerInv /\ LookInv
        /\ ReceiptInv /\ ResultInv /\ FirstInv /\ DefectInv /\ EvidenceInv
    BY DEF IInv, RunInv
  <2>2. ControlInv' /\ FirstInv'
    BY <1>1, <2>1 DEF ControlInv, FirstInv
  <2>3. MarkerInv'
    BY <1>1, <1>3, <1>4, <2>1 DEF MarkerInv
  <2>4. KeysInv'
    BY <1>1, <1>2, <1>3, <1>4, <2>1 DEF KeysInv, MintKeyOf, TargetKeyOf
  <2>5. ServerInv'
    BY <1>1, <1>6, <2>1 DEF ServerInv, RequestOf
  <2>6. LookInv'
    BY <1>1, <1>2, <1>3, <2>1 DEF LookInv, MintKeyOf
  <2>7. ReceiptInv'
    BY <1>1, <1>2, <1>3, <1>7, <2>1 DEF ReceiptInv, MintKeyOf
  <2>8. ResultInv'
    <3>1. \A value : RefSet(value)' = RefSet(value)
      BY <1>1 DEF RefSet
    <3>2. QED
      BY <1>1, <1>3, <2>1, <3>1 DEF ResultInv
  <2>9. DefectInv'
    <3>1. Unnoticed' = Unnoticed
      BY <1>1 DEF Unnoticed
    <3>2. QED
      BY <1>1, <2>1, <3>1 DEF DefectInv
  <2>10. EvidenceInv'
    BY <1>1, <1>2, <2>1 DEF EvidenceInv
  <2>11. QED
    BY <2>2, <2>3, <2>4, <2>5, <2>6, <2>7, <2>8, <2>9, <2>10
<1>10. MarkersTestify'
    BY <1>1, <1>2, <1>6, <1>7 DEF IInv, MarkersTestify
<1>11. NoFalseAlarm'
  <2>1. MintKey' = MintKey
    BY <1>1 DEF MintKey
  <2>2. Validates(MintRequest)' = Validates(MintRequest)
    BY <1>6 DEF Validates
  <2>3. MayRefuse(MintRequest)' = MayRefuse(MintRequest)
    BY <1>1, <1>6 DEF MayRefuse, Spent
  <2>4. QED
    BY <1>1, <1>2, <1>5, <2>1, <2>2, <2>3 DEF IInv, NoFalseAlarm
<1>12. QED
    BY <1>8, <1>9, <1>10, <1>11 DEF IInv

\* Every step keeps it: one that goes on, one that fails, and none after a failure.
LEMMA StepHolds == IInv /\ [Next]_vars => IInv'
<1> SUFFICES ASSUME IInv, [Next]_vars PROVE IInv'
    OBVIOUS
<1>1. CASE UNCHANGED vars
    BY <1>1, StutterHolds
<1>2. CASE Next /\ pc = "failed"
    BY <1>2, FailedStays, StutterHolds
<1>3. CASE Next /\ pc # "failed"
  <2>1. Running /\ MarkersTestify
    BY <1>3 DEF IInv, Running
  <2>2. CASE Moves
    <3>1. Running' /\ NoFalseAlarm'
      BY <2>1, <2>2, RunStep
    <3>2. MarkersTestify'
      BY <3>1, RunTestifies, PTL
    <3>3. QED
      BY <3>1, <3>2 DEF IInv, Running
  <2>3. CASE Stops
    <3>1. RunTypeOK' /\ MarkersTestify'
      BY <2>1, <2>3, StopsType, FailureTestifies
    <3>2. pc' = "failed" /\ NoFalseAlarm'
      BY <2>3 DEF Stops
    <3>3. QED
      BY <3>1, <3>2 DEF IInv, RunInv
  <2>4. QED
    BY <1>3, <2>1, <2>2, <2>3, StepEffect, StutterHolds
<1>4. QED
    BY <1>1, <1>2, <1>3

\* The inductive invariant: a run that has not failed has used the keys, holds
\* the receipts, the result and the markers that its next call says, and only a
\* breach of the contract it has yet to look at, or never looks for, is behind
\* it (runGateway, conformance.go).
THEOREM InvariantHolds == Spec => []IInv
BY InitHolds, StepHolds, PTL DEF Spec

\* Every variable the properties speak of has its type, for any number of polls
\* and of images.
THEOREM TypeHolds == Spec => []RunTypeOK
<1>1. IInv => RunTypeOK
    BY DEF IInv
<1>2. QED
    BY <1>1, InvariantHolds, PTL

\* "A marker must never testify for a leg that did not actually run": behind
\* every marker the run prints, whether it passes or fails later, is the
\* server's own record of the leg.
THEOREM MarkersHold == Spec => []MarkersTestify
<1>1. IInv => MarkersTestify
    BY DEF IInv
<1>2. QED
    BY <1>1, InvariantHolds, PTL

\* A run that passes has seen one invocation for one key, all its artifacts,
\* a receipt of its own in each leg and every marker, has no stream open, and
\* the server broke the contract at most where the run does not look.
THEOREM PassHolds == Spec => []PassCertifies
<1>1. IInv => PassCertifies
  <2>1. CASE pc = "passed"
    BY <2>1, PassedCertifies DEF IInv, Running
  <2>2. CASE pc # "passed"
    BY <2>2 DEF PassCertifies
  <2>3. QED
    BY <2>1, <2>2
<1>2. QED
    BY <1>1, InvariantHolds, PTL

\* A run does not fail against a server that keeps the contract, but for the
\* reasons it may; and the hub is blamed for not moderating the target only if
\* it refused that or nothing was sent.
THEOREM NoFalseAlarmHolds == Spec => []NoFalseAlarm
<1>1. IInv => NoFalseAlarm
    BY DEF IInv
<1>2. QED
    BY <1>1, InvariantHolds, PTL
=============================================================================
