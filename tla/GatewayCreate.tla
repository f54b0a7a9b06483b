---------------------------- MODULE GatewayCreate ----------------------------
(***************************************************************************)
(* CreateAsync and CreateStream (gateway.go), the errors they return       *)
(* (gateway_errors.go) and an application that believes IsRetryable.       *)
(*                                                                         *)
(* The server and the application are not this repository's code: the      *)
(* server stores one invocation per idempotency key and answers in the     *)
(* frozen form, of which one part may be missing or wrong; a request or an *)
(* answer may be lost, and a request the client gave up may still arrive.  *)
(* The application submits one intent at a time per goroutine, again while *)
(* the error is retryable, with the same key or, against all advice, with  *)
(* a fresh one.  doInvocation's own retry is inside Send (see AuthRetry).  *)
(*                                                                         *)
(* An invocation is the number of the key it was stored under, in the      *)
(* order of arrival; 0 is no invocation, or an id that cannot be read.     *)
(***************************************************************************)
EXTENDS Naturals, FiniteSets

CONSTANTS
    Intents,            \* goroutines, each with one thing to create
    Keys                \* idempotency keys they may use

ASSUME CreateAssumption == IsFiniteSet(Keys)

VARIABLES
    stored,             \* server: the invocation stored under each key
    delayed,            \* keys of requests given up and still under way
    mode,               \* the delivery mode of each intent
    key,                \* the idempotency key it uses
    pc,                 \* where it is; sent: doInvocation is at work; failed:
                        \* create returned an error worth a retry
    answer,             \* the response on its way to it
    outcome,            \* how its latest create ended
    told,               \* the InvocationID create returned, in result or error
    named,              \* history: an answer it received named its invocation,
                        \* see NoSecondShot
    refused             \* history: the server itself said not to try again

server == <<stored, delayed>>
result == <<outcome, told, named, refused>>
createVars == <<server, mode, key, pc, answer, result>>

Invocations == 1..Cardinality(Keys)
Ids == Invocations \cup {0}
Codes == {"internal_error", "transient", "final", "unknown", "unreadable"}
Wire == {"absent", "true", "false"}

\* A response, by its status.  location and snapshot are the ids that can be
\* read there; media: the content type is the expected one.  "other" has a
\* status below 400 or, to a stream create, a content type that the mode does
\* not expect: a 202 to a stream create, a 200 to an async one.  An error has a
\* code -- rate_limited and upstream_unavailable are "transient", the codes the
\* table never retries "final", a code the table does not know "unknown", no
\* code at all "unreadable" -- its retryable field and the id in its details.
AcceptedAnswers == [status : {"accepted"}, location : Ids, snapshot : Ids,
                    media : BOOLEAN]
ExistsAnswers == [status : {"exists"}, location : Ids]
StreamAnswers == [status : {"stream"}]
OtherAnswers == [status : {"other"}, location : Ids]
ErrorAnswers == [status : {"error"}, code : Codes, wire : Wire, details : Ids]
Answers == AcceptedAnswers \cup ExistsAnswers \cup StreamAnswers
               \cup OtherAnswers \cup ErrorAnswers
NoAnswer == [status |-> "stream"]
-----------------------------------------------------------------------------
(* GatewayError.                                                           *)

GatewayError(code, wire, id) == [code |-> code, wire |-> wire, id |-> id]

\* newGatewayProtocolErrorWithInvocationID; id 0: newGatewayProtocolError.
ProtocolError(id) == GatewayError("internal_error", "absent", id)

\* gatewayErrorFromBytes: an unknown code becomes internal_error and keeps the
\* rest; an envelope that does not parse keeps nothing.
ErrorFromAnswer(reply) ==
    IF reply.code = "unreadable" THEN ProtocolError(0)
    ELSE GatewayError(IF reply.code = "unknown" THEN "internal_error" ELSE reply.code,
                      reply.wire, reply.details)

\* RetryableByCode: of an internal_error the field counts when it was sent, and
\* an id speaks against another create when it was not.
RetryableIdMutant(error) ==             \* the id is not looked at
    \/ error.code = "transient"
    \/ error.code = "internal_error" /\ error.wire # "false"
RetryableFieldMutant(error) ==          \* an absent field reads as false
    \/ error.code = "transient"
    \/ error.code = "internal_error" /\ error.wire = "true"
RetryableByCode(error) ==
    \/ error.code = "transient"
    \/ error.code = "internal_error" /\ error.wire = "true"
    \/ error.code = "internal_error" /\ error.wire = "absent" /\ error.id = 0

(* What create makes of a response.                                        *)

Ends(how, id) == [outcome |-> how, told |-> id, retryable |-> FALSE]
Fails(error) ==
    [outcome |-> "error", told |-> error.id, retryable |-> RetryableByCode(error)]

\* Location and snapshot disagree, or one of them is missing: Location counts.
RecoveredMutant(reply) == IF reply.snapshot # 0 THEN reply.snapshot ELSE reply.location
Recovered(reply) == IF reply.location # 0 THEN reply.location ELSE reply.snapshot

\* 202 to an async create.
Accepted(reply) ==
    IF ~reply.media \/ reply.snapshot = 0 THEN Fails(ProtocolError(reply.location))
    ELSE IF reply.location # reply.snapshot THEN Fails(ProtocolError(Recovered(reply)))
    ELSE Ends("created", reply.snapshot)

\* 303: another create with this key was first.
ExistsMutant(reply) == Fails(ProtocolError(0))      \* 303 is not a known status
Exists(reply) ==
    IF reply.location = 0 THEN Fails(ProtocolError(0))
    ELSE Ends("exists", reply.location)

\* 200 to a stream create: the id comes with the events (module SSEStream).
Stream == Ends("stream", 0)

\* A status or content type out of place: Location is not looked at.
OutOfPlace == Fails(ProtocolError(0))

CreateResult(reply) ==
    CASE reply.status = "exists" -> Exists(reply)
      [] reply.status = "error" -> Fails(ErrorFromAnswer(reply))
      [] reply.status = "stream" -> Stream
      [] reply.status = "other" -> OutOfPlace
      [] reply.status = "accepted" -> Accepted(reply)
-----------------------------------------------------------------------------
Init ==
    /\ stored = [k \in Keys |-> 0] /\ delayed = {}
    /\ mode \in [Intents -> {"async", "stream"}]
    /\ key \in [Intents -> Keys]
    /\ pc = [i \in Intents |-> "ready"]
    /\ answer = [i \in Intents |-> NoAnswer]
    /\ outcome = [i \in Intents |-> "none"]
    /\ told = [i \in Intents |-> 0]
    /\ named = [i \in Intents |-> FALSE]
    /\ refused = [i \in Intents |-> FALSE]

\* create calls doInvocation.  Its own checks of the request and of the key
\* return before anything else: an intent that fails them is not one.
Submit(i) ==
    /\ pc[i] = "ready"
    /\ pc' = [pc EXCEPT ![i] = "sent"]
    /\ UNCHANGED <<server, mode, key, answer, result>>

\* A key nobody has used.
Fresh(k) == stored[k] = 0 /\ k \notin delayed \cup {key[i] : i \in Intents}

\* The application tries again, with this key or a fresh one.
Resubmit(i, k) ==
    /\ pc[i] = "failed"
    /\ k = key[i] \/ Fresh(k)
    /\ key' = [key EXCEPT ![i] = k]
    /\ pc' = [pc EXCEPT ![i] = "sent"]
    /\ outcome' = [outcome EXCEPT ![i] = "none"]
    /\ told' = [told EXCEPT ![i] = 0]
    /\ UNCHANGED <<server, mode, answer, named, refused>>

(* The server.                                                             *)

NextInvocation == Cardinality({k \in Keys : stored[k] # 0}) + 1
Store(k) == stored' = [stored EXCEPT ![k] = NextInvocation]

\* The answer to a create that stored invocation id: of status, Location,
\* content type and snapshot at most one is missing or wrong.
CreatedAnswer(i, id, reply) ==
    \/ mode[i] = "stream" /\ reply \in StreamAnswers
    \/ reply \in OtherAnswers /\ reply.location = id
    \/ /\ mode[i] = "async" /\ reply \in AcceptedAnswers
       /\ \/ reply.location = id /\ (reply.media \/ reply.snapshot = id)
          \/ reply.location = 0 /\ reply.media /\ reply.snapshot = id

\* Of the other codes the retryable field is left out: it is never looked at.
FieldMatters(reply) ==
    reply.code \in {"internal_error", "unknown"} \/ reply.wire = "absent"

\* An error after the invocation was stored may name it, or be unreadable.
LateError(id, reply) ==
    /\ reply \in ErrorAnswers
    /\ reply.code # "final" /\ FieldMatters(reply)
    /\ reply.details \in IF reply.code = "unreadable" THEN {0} ELSE {0, id}

Respond(i, reply) ==
    /\ answer' = [answer EXCEPT ![i] = reply]
    /\ pc' = [pc EXCEPT ![i] = "answered"]
    /\ UNCHANGED <<delayed, mode, key, result>>

Create(i, reply) ==
    /\ pc[i] = "sent" /\ stored[key[i]] = 0
    /\ Store(key[i])
    /\ \/ CreatedAnswer(i, NextInvocation, reply)
       \/ LateError(NextInvocation, reply)
    /\ Respond(i, reply)

\* The key is known: 303, another status with the same Location, or an error
\* that names the invocation or nothing.
Redirect(i, reply) ==
    /\ pc[i] = "sent" /\ stored[key[i]] # 0
    /\ \/ reply \in ExistsAnswers \cup OtherAnswers /\ reply.location \in {0, stored[key[i]]}
       \/ LateError(stored[key[i]], reply)
    /\ UNCHANGED stored
    /\ Respond(i, reply)

\* An error, or a status that means nothing here, before anything is stored.
Refuse(i, reply) ==
    /\ pc[i] = "sent"
    /\ \/ reply \in ErrorAnswers /\ reply.details = 0 /\ FieldMatters(reply)
       \/ reply \in OtherAnswers /\ reply.location = 0
    /\ UNCHANGED stored
    /\ Respond(i, reply)

\* A request that was given up arrives all the same.
DelayedArrives(k) ==
    /\ k \in delayed
    /\ delayed' = delayed \ {k}
    /\ IF stored[k] = 0 THEN Store(k) ELSE UNCHANGED stored
    /\ UNCHANGED <<mode, key, pc, answer, result>>
-----------------------------------------------------------------------------
\* create returns r; IsRetryable is asked of its error.
CreateReturns(i, r) ==
    /\ pc' = [pc EXCEPT ![i] = IF r.retryable THEN "failed" ELSE "done"]
    /\ outcome' = [outcome EXCEPT ![i] = r.outcome]
    /\ told' = [told EXCEPT ![i] = r.told]

\* doInvocation fails on the caller's own side before the server acts: ActorFunc,
\* the token source (for the first try, or again after a 401) or the signer.
\* Their error is returned as it is: no GatewayError, nothing to ask IsRetryable
\* of.
LocalError(i) ==
    /\ pc[i] = "sent"
    /\ CreateReturns(i, Ends("local", 0))
    /\ UNCHANGED <<server, mode, key, answer, named, refused>>

\* The token is no Bearer token, the request cannot be built, or the HTTP
\* request fails; in the last case the server may have it, or may still get it.
RequestFails(i) ==
    /\ pc[i] \in {"sent", "answered"}
    /\ CreateReturns(i, Fails(ProtocolError(0)))
    /\ \/ UNCHANGED delayed
       \/ pc[i] = "sent" /\ delayed' = delayed \cup {key[i]}
    /\ UNCHANGED <<stored, mode, key, answer, named, refused>>

\* The context of the call is done: its error says nothing of a retry.
ContextDone(i) ==
    /\ pc[i] \in {"sent", "answered"}
    /\ CreateReturns(i, Ends("context", 0))
    /\ \/ UNCHANGED delayed
       \/ pc[i] = "sent" /\ delayed' = delayed \cup {key[i]}
    /\ UNCHANGED <<stored, mode, key, answer, named, refused>>

\* The invocation can be read in the answer.
Names(reply) ==
    \/ reply.status \in {"exists", "accepted", "other"} /\ reply.location # 0
    \/ reply.status = "accepted" /\ reply.media /\ reply.snapshot # 0
    \/ reply.status = "error" /\ reply.code # "unreadable" /\ reply.details # 0

\* The server asks for another try itself, whatever it names: by the code, which
\* the table retries, or by the field.
AsksAgain(reply) ==
    /\ reply.status = "error"
    /\ \/ reply.code = "transient"
       \/ reply.code \in {"internal_error", "unknown"} /\ reply.wire = "true"

NamesPlainly(reply) ==
    Names(reply) /\ ~AsksAgain(reply) /\ reply.status # "other"

\* The server says: not again.
Refuses(reply) ==
    /\ reply.status = "error"
    /\ \/ reply.code = "final"
       \/ reply.code \in {"internal_error", "unknown"} /\ reply.wire = "false"

Receive(i) ==
    /\ pc[i] = "answered"
    /\ CreateReturns(i, CreateResult(answer[i]))
    /\ named' = [named EXCEPT ![i] = @ \/ NamesPlainly(answer[i])]
    /\ refused' = [refused EXCEPT ![i] = Refuses(answer[i])]
    /\ answer' = [answer EXCEPT ![i] = NoAnswer]
    /\ UNCHANGED <<server, mode, key>>

ServerStep(i) ==
    \E reply \in Answers : Create(i, reply) \/ Redirect(i, reply) \/ Refuse(i, reply)

ClientStep(i) ==
    \/ Submit(i) \/ LocalError(i) \/ RequestFails(i) \/ ContextDone(i) \/ Receive(i)
    \/ \E k \in Keys : Resubmit(i, k)

Next ==
    \/ \E k \in Keys : DelayedArrives(k)
    \/ \E i \in Intents : ClientStep(i) \/ ServerStep(i)

Spec == Init /\ [][Next]_createVars

\* The application goes on, and again and again an answer in the frozen form
\* gets through.
Readable(reply) ==
    \/ reply.status = "accepted" /\ reply.media /\ reply.location = reply.snapshot
    \/ reply.status = "exists" /\ reply.location # 0
    \/ reply.status = "stream"

FairSpec ==
    /\ Spec
    /\ \A i \in Intents :
          /\ WF_createVars(Submit(i))
          /\ WF_createVars(\E k \in Keys : Resubmit(i, k))
          /\ WF_createVars(ServerStep(i) \/ Receive(i))
          /\ SF_createVars(\E reply \in Answers :
                             /\ Readable(reply)
                             /\ Create(i, reply) \/ Redirect(i, reply))
          /\ SF_createVars(Readable(answer[i]) /\ Receive(i))
-----------------------------------------------------------------------------
(* What create promises.                                                   *)

\* Every variable has its type; a call that has not returned has no
\* result, and only errors are retried.
TypeOK ==
    /\ stored \in [Keys -> Ids] /\ delayed \subseteq Keys
    /\ mode \in [Intents -> {"async", "stream"}]
    /\ key \in [Intents -> Keys]
    /\ pc \in [Intents -> {"ready", "sent", "answered", "failed", "done"}]
    /\ answer \in [Intents -> Answers]
    /\ outcome \in [Intents -> {"none", "created", "exists", "stream", "error",
                                "context", "local"}]
    /\ \A i \in Intents :
          /\ pc[i] \in {"failed", "done"} <=> outcome[i] # "none"
          /\ pc[i] = "failed" => outcome[i] = "error"
    /\ told \in [Intents -> Ids]
    /\ {named[i] : i \in Intents} \cup {refused[i] : i \in Intents} \subseteq BOOLEAN

\* The id create returns, in its result or inside its error, is the id of the
\* invocation stored under the caller's key -- also when the answer was only
\* partly readable, or came from another caller's create with this key.
ToldTheTruth == \A i \in Intents : told[i] # 0 => told[i] = stored[key[i]]

\* No second shot: once an answer has named the invocation, an application that
\* believes IsRetryable does not create another one, whatever was wrong with
\* the rest of that answer -- except when the server itself asked for another
\* try (RetryableByCode lets rate_limited, upstream_unavailable and an explicit
\* retryable win over the id), and when the status or a stream's content type
\* is out of place, where create drops a Location it could have read.
NoSecondShot ==
    [][\A i \in Intents : pc[i] = "failed" /\ pc'[i] = "sent" => ~named[i]]_createVars

\* No answer and no lost request makes an intent end blindly: it ends with its
\* invocation's id, its stream, the server's refusal, or an error of the
\* caller's own side -- its context, actor, token source or signer; and with
\* the id for certain if an answer named it as above.
EndsInformed ==
    \A i \in Intents :
        pc[i] = "done" =>
            /\ \/ told[i] # 0 \/ refused[i]
               \/ outcome[i] \in {"stream", "context", "local"}
            /\ named[i] => told[i] # 0

\* The retry loop ends: a duplicate that the server redirects to the first
\* create is a result and not one more reason to try.
EveryIntentEnds == \A i \in Intents : <>(pc[i] = "done")
=============================================================================
